--------------------------- MODULE InstallProofs ---------------------------
(***************************************************************************)
(* Theorems about module Install, for every set of processes, packages and *)
(* options, every graph of dependencies and every bound on the stack.      *)
(***************************************************************************)
EXTENDS InstallProps, SequenceTheorems, TLAPS

----------------------------------------------------------------------------
(* Stacks *)

\* The frames of a stack are its top and those below.
LEMMA StackParts ==
  ASSUME NEW S, NEW s \in Seq(S), s # << >>
  PROVE  /\ s[1] \in S
         /\ Tail(s) \in Seq(S)
         /\ Len(s) = 1 => Tail(s) = << >>
         /\ Range(s) = {s[1]} \union Range(Tail(s))
<1>1. Len(s) \in Nat \ {0}
  BY EmptySeq
<1>2. /\ Tail(s) \in Seq(S)
      /\ Len(Tail(s)) = Len(s) - 1
      /\ \A i \in 1 .. Len(Tail(s)) : Tail(s)[i] = s[i+1]
  BY HeadTailProperties
<1>3. s[1] \in S
  BY <1>1, ElementOfSeq
<1>4. Len(s) = 1 => Tail(s) = << >>
  <2>1. \A t \in Seq(S) : t # << >> => Len(t) \in Nat \ {0}
    BY EmptySeq
  <2>2. Tail(s) # << >> => Len(Tail(s)) \in Nat \ {0}
    BY <1>2, <2>1
  <2> QED
    BY <1>2, <2>2
<1>5. Range(s) = {s[i] : i \in 1 .. Len(s)}
  BY RangeEquality
<1>6. Range(Tail(s)) = {Tail(s)[i] : i \in 1 .. Len(Tail(s))}
  BY <1>2, RangeEquality
<1>7. ASSUME NEW x \in Range(s) PROVE x \in {s[1]} \union Range(Tail(s))
  <2>1. PICK i \in 1 .. Len(s) : x = s[i]
    BY <1>5
  <2>2. CASE i = 1
    BY <2>1, <2>2
  <2>3. CASE i # 1
    <3>1. i - 1 \in 1 .. Len(Tail(s)) /\ (i - 1) + 1 = i
      BY <1>1, <1>2, <2>1, <2>3
    <3>2. Tail(s)[i - 1] = s[i]
      BY <3>1, <1>2
    <3> QED
      BY <2>1, <3>1, <3>2, <1>6
  <2> QED
    BY <2>2, <2>3
<1>8. ASSUME NEW x \in {s[1]} \union Range(Tail(s)) PROVE x \in Range(s)
  <2>1. CASE x = s[1]
    BY <2>1, <1>1, <1>5
  <2>2. CASE x \in Range(Tail(s))
    <3>1. PICK i \in 1 .. Len(Tail(s)) : x = Tail(s)[i]
      BY <2>2, <1>6
    <3>2. i + 1 \in 1 .. Len(s) /\ x = s[i + 1]
      BY <1>1, <1>2, <3>1
    <3> QED
      BY <3>2, <1>5
  <2> QED
    BY <2>1, <2>2
<1> QED
  BY <1>2, <1>3, <1>4, <1>7, <1>8

\* Replacing the top frame.
LEMMA TopReplaced ==
  ASSUME NEW S, NEW s \in Seq(S), s # << >>, NEW x \in S
  PROVE  /\ [s EXCEPT ![1] = x] \in Seq(S)
         /\ Range([s EXCEPT ![1] = x]) = {x} \union Range(Tail(s))
<1> DEFINE t == [s EXCEPT ![1] = x]
<1>1. Len(s) \in Nat \ {0}
  BY EmptySeq
<1>2. /\ t \in Seq(S)
      /\ Len(t) = Len(s)
      /\ \A j \in 1 .. Len(s) : t[j] = IF j = 1 THEN x ELSE s[j]
  BY <1>1, ExceptSeq
<1>3. t # << >>
  BY <1>1, <1>2, EmptySeq
<1>4. t[1] = x
  BY <1>1, <1>2
<1>5. Tail(t) = Tail(s)
  <2>1. /\ Tail(s) \in Seq(S)
        /\ Len(Tail(s)) = Len(s) - 1
        /\ \A i \in 1 .. Len(Tail(s)) : Tail(s)[i] = s[i+1]
    BY HeadTailProperties
  <2>2. /\ Tail(t) \in Seq(S)
        /\ Len(Tail(t)) = Len(t) - 1
        /\ \A i \in 1 .. Len(Tail(t)) : Tail(t)[i] = t[i+1]
    BY <1>2, <1>3, HeadTailProperties
  <2>3. ASSUME NEW i \in 1 .. Len(Tail(s)) PROVE Tail(t)[i] = Tail(s)[i]
    <3>1. i + 1 \in 1 .. Len(s) /\ i + 1 # 1
      BY <1>1, <2>1
    <3> QED
      BY <3>1, <1>2, <2>1, <2>2
  <2> HIDE DEF t
  <2> QED
    BY <1>2, <2>1, <2>2, <2>3, SeqEqual
<1>6. Range(t) = {t[1]} \union Range(Tail(t))
  BY <1>2, <1>3, StackParts
<1> QED
  BY <1>2, <1>4, <1>5, <1>6

\* Pushing r above a frame x and the frames t.
LEMMA Pushed ==
  ASSUME NEW S, NEW r \in Seq(S), NEW x \in S, NEW t \in Seq(S)
  PROVE  /\ r \o <<x>> \o t \in Seq(S)
         /\ Range(r \o <<x>> \o t) = Range(r) \union {x} \union Range(t)
<1>1. <<x>> \in Seq(S) /\ Len(<<x>>) = 1 /\ <<x>>[1] = x
  OBVIOUS
<1>2. Range(<<x>>) = {<<x>>[i] : i \in 1 .. Len(<<x>>)}
  BY <1>1, RangeEquality
<1>3. Range(<<x>>) = {x}
  BY <1>1, <1>2
<1>4. r \o <<x>> \in Seq(S)
  BY <1>1, ConcatProperties
<1>5. r \o <<x>> \o t \in Seq(S)
  <2> DEFINE front == r \o <<x>>
  <2>1. front \in Seq(S)
    BY <1>4
  <2> HIDE DEF front
  <2>2. front \o t \in Seq(S)
    BY <2>1, ConcatProperties
  <2> QED
    BY <2>2 DEF front
<1>6. Range(r \o <<x>>) = Range(r) \union Range(<<x>>)
  BY <1>1, RangeConcatenation
<1>7. Range(r \o <<x>> \o t) = Range(r \o <<x>>) \union Range(t)
  <2> DEFINE front == r \o <<x>>
  <2>1. front \in Seq(S)
    BY <1>4
  <2> HIDE DEF front
  <2>2. Range(front \o t) = Range(front) \union Range(t)
    BY <2>1, RangeConcatenation
  <2> QED
    BY <2>2 DEF front
<1> QED
  BY <1>3, <1>5, <1>6, <1>7
----------------------------------------------------------------------------
(* Types *)

\* A frame whose remaining lines exist, which TypeOK does not say.
GoodFrame == {fr \in Frame : fr.todo \subseteq DOMAIN Lists[fr.owner][fr.file]}

CacheObject == [loaded : BOOLEAN, urls : SUBSET Url]
CacheFile == [exists : BOOLEAN, urls : SUBSET Url]

TypeInv == TypeOK /\ stack \in [Proc -> Seq(GoodFrame)]

\* What the operations of the cache return are caches and cache files.
LEMMA CacheTypes ==
  ASSUME NEW c \in CacheObject, NEW f \in CacheFile, NEW u \in Url, NEW r \in BOOLEAN,
         NEW kept \in SUBSET Url
  PROVE  /\ load(c, f) \in CacheObject
         /\ add(c, f, u) \in CacheObject
         /\ truncate(f, r) \in CacheFile
         /\ write(c, f, kept) \in CacheFile
<1>1. load(c, f) \in CacheObject
  BY DEF load, CacheObject, CacheFile
<1>2. add(c, f, u) \in CacheObject
  BY <1>1 DEF add, CacheObject
<1> QED
  BY <1>1, <1>2 DEF truncate, write, CacheObject, CacheFile

\* What is read of torn lines is sources again.
LEMMA PiecesType ==
  ASSUME NEW urls \in SUBSET Url
  PROVE  Pieces(urls) \in SUBSET Url
BY ConstantsAssumption DEF Pieces

\* A new frame has only lines that its file has.
LEMMA NewFrameType ==
  ASSUME NEW o \in Owner, NEW t \in FileType
  PROVE  NewFrame(o, t) \in GoodFrame
BY ConstantsAssumption
   DEF NewFrame, GoodFrame, Frame, BaseFile, FileType, FileName, PackageFiles, ExtraFiles

\* The frames that retrieveDependency pushes.
LEMMA RecursionFrames ==
  ASSUME NEW d \in Dep, NEW t \in FileType
  PROVE  /\ Recursion(d, t) \in Seq(GoodFrame)
         /\ Type[d] # "REMAKEN" => Range(Recursion(d, t)) = {}
         /\ Type[d] = "REMAKEN" =>
              Range(Recursion(d, t)) = {NewFrame(d, "EXTRA_DEPS"), NewFrame(d, t)}
<1> DEFINE e == NewFrame(d, "EXTRA_DEPS")
           b == NewFrame(d, t)
<1>1. e \in GoodFrame /\ b \in GoodFrame
  BY NewFrameType DEF Owner, FileType
<1> HIDE DEF e, b
<1>2. << >> \in Seq(GoodFrame) /\ <<e>> \in Seq(GoodFrame) /\ <<e, b>> \in Seq(GoodFrame)
  BY <1>1
<1>3. Range(<< >>) = {} /\ Range(<<e>>) = {e} /\ Range(<<e, b>>) = {e, b}
  <2>1. DOMAIN << >> = {} /\ DOMAIN <<e>> = {1} /\ DOMAIN <<e, b>> = {1, 2}
    OBVIOUS
  <2> QED
    BY <2>1 DEF Range
<1>4. CASE Type[d] # "REMAKEN"
  <2>1. Recursion(d, t) = << >>
    BY <1>4 DEF Recursion
  <2> QED
    BY <1>2, <1>3, <1>4, <2>1
<1>5. CASE Type[d] = "REMAKEN" /\ t = "EXTRA_DEPS"
  <2>1. Recursion(d, t) = <<e>> /\ b = e
    BY <1>5 DEF Recursion, e, b
  <2> QED
    BY <1>2, <1>3, <1>5, <2>1 DEF e, b
<1>6. CASE Type[d] = "REMAKEN" /\ t # "EXTRA_DEPS"
  <2>1. Recursion(d, t) = <<e, b>>
    BY <1>6 DEF Recursion, e, b
  <2> QED
    BY <1>2, <1>3, <1>6, <2>1 DEF e, b
<1> QED
  BY <1>4, <1>5, <1>6

\* A process that has a line to visit has a frame, and the line exists.
LEMMA LineTypes ==
  ASSUME TypeInv, NEW p \in Proc, NEW i \in Left(p)
  PROVE  /\ stack[p] \in Seq(GoodFrame) /\ stack[p] # << >>
         /\ Top(p) \in GoodFrame
         /\ i \in Top(p).todo /\ i \in DOMAIN Lists[Top(p).owner][Top(p).file]
         /\ LineAt(p, i) \in Line
<1>1. stack[p] \in Seq(GoodFrame) /\ stack[p] # << >> /\ i \in Top(p).todo
  BY DEF TypeInv, Left
<1>2. Top(p) \in GoodFrame
  BY <1>1, StackParts DEF Top
<1>3. i \in DOMAIN Lists[Top(p).owner][Top(p).file]
  BY <1>1, <1>2 DEF GoodFrame
<1>4. Lists[Top(p).owner][Top(p).file] \in Seq(Line)
  BY <1>2, ConstantsAssumption DEF GoodFrame, Frame
<1>5. LineAt(p, i) \in Line
  BY <1>3, <1>4, ElementOfSeq, LenProperties DEF LineAt, FileLines
<1> QED
  BY <1>1, <1>2, <1>3, <1>5

\* The frame of the caller when the call for line i returns.
Rest(p, i) ==
  [Top(p) EXCEPT !.todo = @ \ {i}, !.conds = @ \union LineAt(p, i).conds]

\* The stack after a line: the frames below, the rest of this one, and those of the recursion.
LEMMA AfterLineFrames ==
  ASSUME TypeInv, NEW p \in Proc, NEW i \in Left(p)
  PROVE  /\ AfterLine(p, i) \in Seq(GoodFrame)
         /\ Rest(p, i) \in GoodFrame
         /\ Range(AfterLine(p, i)) =
              Range(Recursion(LineAt(p, i).dep, Top(p).type))
                \union {Rest(p, i)} \union Range(Tail(stack[p]))
<1>1. /\ stack[p] \in Seq(GoodFrame) /\ stack[p] # << >>
      /\ Top(p) \in GoodFrame /\ LineAt(p, i) \in Line
  BY LineTypes
<1>2. Tail(stack[p]) \in Seq(GoodFrame)
  BY <1>1, StackParts
<1>3. Rest(p, i) \in GoodFrame
  BY <1>1 DEF Rest, GoodFrame, Frame, Line
<1>4. Recursion(LineAt(p, i).dep, Top(p).type) \in Seq(GoodFrame)
  BY <1>1, RecursionFrames DEF GoodFrame, Frame, Line
<1>5. AfterLine(p, i) =
        Recursion(LineAt(p, i).dep, Top(p).type) \o <<Rest(p, i)>> \o Tail(stack[p])
  BY DEF AfterLine, Rest
<1> DEFINE r == Recursion(LineAt(p, i).dep, Top(p).type)
           x == Rest(p, i)
           t == Tail(stack[p])
<1>6. r \in Seq(GoodFrame) /\ x \in GoodFrame /\ t \in Seq(GoodFrame)
  BY <1>2, <1>3, <1>4
<1>7. AfterLine(p, i) = r \o <<x>> \o t
  BY <1>5
<1> HIDE DEF r, x, t
<1>8. /\ r \o <<x>> \o t \in Seq(GoodFrame)
      /\ Range(r \o <<x>> \o t) = Range(r) \union {x} \union Range(t)
  BY <1>6, Pushed
<1> QED
  BY <1>3, <1>7, <1>8 DEF r, x, t

\* The lines in kept of file f wait to be installed.
Waits(p, f, kept) ==
  stack' = [stack EXCEPT ![p][1] = [Top(p) EXCEPT !.files = @ \ {f}, !.file = f, !.todo = kept]]

\* What reading a file leaves alone.
LEMMA ParsedKept ==
  ASSUME NEW p \in Proc, parseFile(p)
  PROVE  /\ pc[p] = "run" /\ stack[p] # << >>
         /\ UNCHANGED <<shared, pc, command, extraction, mem, outcome, history>>
BY Zenon DEF parseFile, AtFile

LEMMA InvalidKept ==
  ASSUME NEW p \in Proc, invalidFile(p)
  PROVE  /\ pc[p] = "run" /\ stack[p] # << >>
         /\ Stop(p, "failed")
         /\ UNCHANGED <<shared, command, mem, history>>
BY Zenon DEF invalidFile, AtFile

\* A file is read to its end, unless it is cut or was just removed; no line that is
\* switched off is kept of what is read, and no other is dropped unasked.
LEMMA ParsedLines ==
  ASSUME TypeInv, NEW p \in Proc, parseFile(p)
  PROVE  \E f \in FileName : \E kept \in SUBSET DOMAIN Lists[Top(p).owner][f] :
           /\ AtFile(p, f)
           /\ Waits(p, f, kept)
           /\ \A i \in DOMAIN Lists[Top(p).owner][f] :
                SwitchedOff(opts[p], Top(p).owner, Lists[Top(p).owner][f][i]) => i \notin kept
           /\ f \in disk[Top(p).owner] /\ <<Top(p).owner, f>> \notin cut =>
                \A i \in DOMAIN Lists[Top(p).owner][f] :
                  Mandatory(opts[p], Top(p).owner, Lists[Top(p).owner][f][i]) => i \in kept
<1> DEFINE o == Top(p).owner
<1>1. \E f \in FileName : \E n \in LinesRead(o, f) : \E kept \in SUBSET DOMAIN Lists[o][f] :
        AtFile(p, f) /\ Filtered(opts[p], o, f, n, kept) /\ Waits(p, f, kept)
  BY Zenon DEF parseFile, Waits
<1>2. PICK f \in FileName : \E n \in LinesRead(o, f) : \E kept \in SUBSET DOMAIN Lists[o][f] :
        AtFile(p, f) /\ Filtered(opts[p], o, f, n, kept) /\ Waits(p, f, kept)
  BY <1>1
<1> DEFINE lines == Lists[o][f]
<1>3. PICK n \in LinesRead(o, f) : \E kept \in SUBSET DOMAIN lines :
        AtFile(p, f) /\ Filtered(opts[p], o, f, n, kept) /\ Waits(p, f, kept)
  BY <1>2
<1>4. PICK kept \in SUBSET DOMAIN lines :
        AtFile(p, f) /\ Filtered(opts[p], o, f, n, kept) /\ Waits(p, f, kept)
  BY <1>3
<1>5. lines \in Seq(Line)
  <2>1. stack[p] \in Seq(GoodFrame) /\ stack[p] # << >>
    BY <1>4 DEF AtFile, TypeInv
  <2>2. Top(p) \in GoodFrame
    BY <2>1, StackParts DEF Top
  <2> QED
    BY <2>2, ConstantsAssumption DEF GoodFrame, Frame
<1>6. DOMAIN lines = 1 .. Len(lines) /\ Len(lines) \in Nat
  BY <1>5, LenProperties
<1>7. f \in disk[o] /\ <<o, f>> \notin cut => n = Len(lines)
  BY <1>3 DEF LinesRead
<1>8. \A i \in DOMAIN lines : SwitchedOff(opts[p], o, lines[i]) => i \notin kept
  BY <1>4 DEF Filtered
<1>9. f \in disk[o] /\ <<o, f>> \notin cut =>
        \A i \in DOMAIN lines : Mandatory(opts[p], o, lines[i]) => i \in kept
  BY <1>4, <1>6, <1>7 DEF Filtered
<1> QED
  BY <1>4, <1>8, <1>9, Zenon

\* Every step keeps the types.
LEMMA TypeInvStep ==
  ASSUME TypeInv, [Next]_vars
  PROVE  TypeInv'
<1> USE DEF TypeInv, TypeOK
<1> SUFFICES ASSUME Next PROVE TypeInv'
  BY DEF vars, shared, local, extraction, history
<1> PICK p \in Proc : Step(p) \/ Environment(p)
  BY DEF Next
<1>empty. << >> \in Seq(GoodFrame)
  OBVIOUS
<1>mono. \A s \in Seq(GoodFrame) : s \in Seq(Frame)
  BY SeqMonotonic DEF GoodFrame
<1>gone. ASSUME Gone(p), UNCHANGED files, cacheFile' \in CacheFile PROVE TypeInv'
  BY <1>gone, <1>empty, <1>mono
     DEF Gone, NoExtraction, files, NoOptions, OptionRecord, EmptyCache, CacheFile
<1>stop. ASSUME NEW r \in {"ok", "failed"}, Stop(p, r), UNCHANGED <<mem, history>>,
                project' \in [Proc -> Project \union {NoProject}],
                opts' \in [Proc -> OptionRecord],
                disk' \in [Owner -> SUBSET Part], cut' \subseteq Dep \X Part,
                system' \subseteq Dep,
                remotes' \subseteq Dep, cacheFile' \in CacheFile, root' \in BOOLEAN,
                generated' \in [Owner -> SUBSET Cond]
         PROVE TypeInv'
  BY <1>stop, <1>empty, <1>mono DEF Stop, NoExtraction, history, CacheFile
<1>top. ASSUME stack[p] # << >>, NEW x \in GoodFrame,
               stack' = [stack EXCEPT ![p][1] = x]
        PROVE  stack' \in [Proc -> Seq(GoodFrame)] /\ stack' \in [Proc -> Seq(Frame)]
  <2>1. stack[p] \in Seq(GoodFrame)
    OBVIOUS
  <2>2. [stack[p] EXCEPT ![1] = x] \in Seq(GoodFrame)
    BY <1>top, <2>1, TopReplaced
  <2> QED
    BY <1>top, <2>2, <1>mono
<1>written. ASSUME NEW c \in CacheObject, NEW kept \in SUBSET Url
            PROVE  write(c, cacheFile, kept) \in CacheFile
  BY DEF write, CacheObject, CacheFile
<1>1. CASE retrieve(p)
  <2>1. PICK pr \in Project, o \in Options :
          /\ project' = [project EXCEPT ![p] = pr]
          /\ opts' = [opts EXCEPT ![p] = o]
          /\ IF BaseFile("PACKAGE") \in disk[pr]
             THEN /\ pc' = [pc EXCEPT ![p] = "run"]
                  /\ stack' = [stack EXCEPT ![p] = <<NewFrame(pr, "EXTRA_DEPS"),
                                                    NewFrame(pr, "PACKAGE")>>]
                  /\ UNCHANGED <<extraction, outcome>>
             ELSE Stop(p, "failed")
    BY <1>1 DEF retrieve
  <2>2. /\ project' \in [Proc -> Project \union {NoProject}]
        /\ opts' \in [Proc -> OptionRecord]
    BY <2>1, ConstantsAssumption
  <2>3. UNCHANGED <<shared, mem, history>>
    BY <1>1 DEF retrieve
  <2>4. CASE BaseFile("PACKAGE") \in disk[pr]
    <3> DEFINE e == NewFrame(pr, "EXTRA_DEPS")
               b == NewFrame(pr, "PACKAGE")
    <3>1. e \in GoodFrame /\ b \in GoodFrame
      BY NewFrameType DEF Owner, FileType
    <3> HIDE DEF e, b
    <3>2. <<e, b>> \in Seq(GoodFrame)
      BY <3>1
    <3>3. stack' = [stack EXCEPT ![p] = <<e, b>>]
      BY <2>1, <2>4 DEF e, b
    <3>4. stack' \in [Proc -> Seq(GoodFrame)] /\ stack' \in [Proc -> Seq(Frame)]
      BY <3>2, <3>3, <1>mono
    <3> QED
      BY <2>1, <2>2, <2>3, <2>4, <3>4 DEF shared, extraction, history
  <2>5. CASE BaseFile("PACKAGE") \notin disk[pr]
    BY <2>1, <2>2, <2>3, <2>5, <1>stop DEF shared, CacheFile
  <2> QED
    BY <2>4, <2>5
<1>2. CASE retrieveDependencies(p)
  <2> DEFINE x == [Top(p) EXCEPT !.opened = TRUE,
                     !.files = FilesOf(Top(p).type) \intersect disk[Top(p).owner]]
  <2>1. stack[p] # << >> /\ stack[p] \in Seq(GoodFrame) /\ stack' = [stack EXCEPT ![p][1] = x]
    BY <1>2 DEF retrieveDependencies
  <2>2. Top(p) \in GoodFrame
    BY <2>1, StackParts DEF Top
  <2>3. x \in GoodFrame
    BY <2>2 DEF GoodFrame, Frame, FilesOf, FileName
  <2> HIDE DEF x
  <2>4. stack' \in [Proc -> Seq(GoodFrame)] /\ stack' \in [Proc -> Seq(Frame)]
    BY <2>1, <2>3, <1>top
  <2> QED
    BY <1>2, <2>4 DEF retrieveDependencies, shared, command, extraction, history
<1>3. CASE parseFile(p)
  <2>f. PICK f \in FileName : \E kept \in SUBSET DOMAIN Lists[Top(p).owner][f] :
          AtFile(p, f) /\ Waits(p, f, kept)
    BY <1>3, ParsedLines, Zenon
  <2>1. PICK kept \in SUBSET DOMAIN Lists[Top(p).owner][f] : Waits(p, f, kept)
    BY <2>f
  <2> DEFINE x == [Top(p) EXCEPT !.files = @ \ {f}, !.file = f, !.todo = kept]
  <2>2. stack[p] # << >> /\ stack[p] \in Seq(GoodFrame) /\ stack' = [stack EXCEPT ![p][1] = x]
    BY <2>f, <2>1 DEF AtFile, Waits
  <2>3. Top(p) \in GoodFrame
    BY <2>2, StackParts DEF Top
  <2>4. x \in GoodFrame
    <3>1. Lists[Top(p).owner][f] \in Seq(Line)
      BY <2>3, ConstantsAssumption DEF GoodFrame, Frame
    <3>2. DOMAIN Lists[Top(p).owner][f] \subseteq Nat
      BY <3>1, LenProperties
    <3> QED
      BY <2>3, <3>2 DEF GoodFrame, Frame
  <2> HIDE DEF x
  <2>5. stack' \in [Proc -> Seq(GoodFrame)] /\ stack' \in [Proc -> Seq(Frame)]
    BY <2>2, <2>4, <1>top
  <2>6. UNCHANGED <<shared, pc, command, extraction, mem, outcome, history>>
    BY <1>3, ParsedKept
  <2> QED
    BY <2>5, <2>6 DEF shared, command, extraction, history
<1>4. CASE invalidFile(p)
  BY <1>4, <1>stop DEF invalidFile, shared, command, CacheFile
<1>5. CASE generateConditions(p)
  <2>1. stack[p] \in Seq(GoodFrame) /\ stack[p] # << >>
    BY <1>5 DEF generateConditions
  <2>2. Top(p) \in GoodFrame /\ Tail(stack[p]) \in Seq(GoodFrame)
    BY <2>1, StackParts DEF Top
  <2>3. generated' \in [Owner -> SUBSET Cond]
    BY <1>5, <2>2 DEF generateConditions, GoodFrame, Frame
  <2>4. UNCHANGED <<disk, cut, system, remotes, cacheFile, root, command, mem, history>>
    BY <1>5 DEF generateConditions
  <2>5. CASE Len(stack[p]) = 1
    <3>1. Stop(p, "ok")
      BY <1>5, <2>5 DEF generateConditions
    <3> QED
      BY <2>3, <2>4, <3>1, <1>stop DEF command, CacheFile
  <2>6. CASE Len(stack[p]) # 1
    <3>1. stack' = [stack EXCEPT ![p] = Tail(stack[p])] /\ UNCHANGED <<pc, extraction, outcome>>
      BY <1>5, <2>6 DEF generateConditions
    <3>2. stack' \in [Proc -> Seq(GoodFrame)] /\ stack' \in [Proc -> Seq(Frame)]
      BY <2>2, <3>1, <1>mono
    <3> QED
      BY <2>3, <2>4, <3>1, <3>2 DEF command, extraction, history
  <2> QED
    BY <2>5, <2>6
<1>6. CASE addArtefactRemote(p)
  <2>1. PICK i \in Left(p) :
          LET d == LineAt(p, i).dep
          IN \/ /\ stack' = [stack EXCEPT ![p][1] =
                  [Top(p) EXCEPT !.todo = @ \ {i},
                                 !.conds = @ \union LineAt(p, i).conds]]
                /\ remotes' = remotes \union ({d} \ {e \in Dep : Type[e] = "REMAKEN"})
                /\ UNCHANGED <<pc, extraction, outcome>>
             \/ Stop(p, "failed") /\ UNCHANGED remotes
    BY <1>6, Zenon DEF addArtefactRemote
  <2>2. UNCHANGED <<disk, cut, system, cacheFile, root, generated, command, mem, history>>
    BY <1>6 DEF addArtefactRemote
  <2>3. LineAt(p, i) \in Line /\ stack[p] # << >>
    BY LineTypes
  <2>4. Rest(p, i) \in GoodFrame
    BY AfterLineFrames
  <2>5. CASE /\ stack' = [stack EXCEPT ![p][1] = Rest(p, i)]
             /\ remotes' = remotes \union
                  ({LineAt(p, i).dep} \ {e \in Dep : Type[e] = "REMAKEN"})
             /\ UNCHANGED <<pc, extraction, outcome>>
    <3>1. stack' \in [Proc -> Seq(GoodFrame)] /\ stack' \in [Proc -> Seq(Frame)]
      BY <2>3, <2>4, <2>5, <1>top
    <3>2. remotes' \subseteq Dep
      BY <2>3, <2>5 DEF Line
    <3> QED
      BY <2>2, <2>5, <3>1, <3>2 DEF command, extraction, history
  <2>6. CASE Stop(p, "failed") /\ UNCHANGED remotes
    BY <2>2, <2>6, <1>stop DEF command, CacheFile
  <2> QED
    BY <2>1, <2>5, <2>6 DEF Rest
<1>7. CASE noAlternate(p)
  BY <1>7, <1>stop DEF noAlternate, shared, command, CacheFile
<1>past. ASSUME NEW i \in Left(p), GoPast(p, i)
         PROVE  /\ stack' \in [Proc -> Seq(GoodFrame)] /\ stack' \in [Proc -> Seq(Frame)]
                /\ done' \in [Proc -> SUBSET (Dep \X FileType)]
                /\ pc' = [pc EXCEPT ![p] = "run"]
                /\ seen' \in [Proc -> SUBSET Part]
                /\ open' \in [Proc -> SUBSET (Dep \X Part)]
  <2>1. AfterLine(p, i) \in Seq(GoodFrame)
    BY AfterLineFrames
  <2>2. Top(p) \in GoodFrame /\ LineAt(p, i) \in Line
    BY LineTypes
  <2>3. <<LineAt(p, i).dep, Top(p).type>> \in Dep \X FileType
    BY <2>2 DEF GoodFrame, Frame, Line
  <2> QED
    BY <2>1, <2>3, <1>past, <1>mono DEF GoPast, NoExtraction
<1>8. CASE alreadyInstalled(p)
  <2>1. PICK i \in Left(p) :
          /\ mem' = [mem EXCEPT ![p] = load(mem[p], cacheFile)]
          /\ GoPast(p, i)
          /\ UNCHANGED <<shared, command, outcome, begun, disturbed>>
    BY <1>8 DEF alreadyInstalled
  <2>2. mem' \in [Proc -> CacheObject]
    BY <2>1 DEF load, CacheObject
  <2> QED
    BY <2>1, <2>2, <1>past DEF shared, command, CacheObject
<1>9. CASE startInstall(p)
  <2>1. mem' \in [Proc -> CacheObject]
    BY <1>9 DEF startInstall, load, CacheObject
  <2>2. begun' \in [Proc -> SUBSET Dep]
    BY <1>9, LineTypes DEF startInstall, Line
  <2> QED
    BY <1>9, <2>1, <2>2 DEF startInstall, shared, command, extraction, CacheObject
<1>dirt. ASSUME NEW d \in Dep, disturb(p, d) PROVE disturbed' \in [Proc -> SUBSET Dep]
  BY <1>dirt DEF disturb
<1>10. CASE openEntry(p)
  <2>1d. PICK d \in Dep : \E x \in Archive[d] \ seen[p] :
          /\ disk' = [disk EXCEPT ![d] = @ \union {x}]
          /\ cut' = cut \union {<<d, x>>}
          /\ open' = [q \in Proc |-> IF q = p THEN {<<d, x>>} ELSE open[q] \ {<<d, x>>}]
          /\ seen' = [seen EXCEPT ![p] = @ \union {x}]
          /\ disturb(p, d)
    BY <1>10 DEF openEntry
  <2>1. PICK x \in Archive[d] \ seen[p] :
          /\ disk' = [disk EXCEPT ![d] = @ \union {x}]
          /\ cut' = cut \union {<<d, x>>}
          /\ open' = [q \in Proc |-> IF q = p THEN {<<d, x>>} ELSE open[q] \ {<<d, x>>}]
          /\ seen' = [seen EXCEPT ![p] = @ \union {x}]
          /\ disturb(p, d)
    BY <2>1d
  <2>2. d \in Owner /\ x \in Part
    BY ConstantsAssumption DEF Owner
  <2>3. root' = TRUE /\ UNCHANGED <<system, remotes, cacheFile, generated, pc, command,
                                    stack, mem, outcome, done, begun>>
    BY <1>10 DEF openEntry
  <2>4. disk' \in [Owner -> SUBSET Part] /\ cut' \subseteq Dep \X Part
    BY <2>1, <2>2
  <2>5. seen' \in [Proc -> SUBSET Part] /\ open' \in [Proc -> SUBSET (Dep \X Part)]
    BY <2>1, <2>2
  <2>6. disturbed' \in [Proc -> SUBSET Dep]
    BY <2>1, <1>dirt
  <2> QED
    BY <2>3, <2>4, <2>5, <2>6 DEF command
<1>23. CASE unlinkEntry(p)
  <2>1d. PICK d \in Dep : \E x \in disk[d] :
          /\ disk' = [disk EXCEPT ![d] = @ \ {x}]
          /\ cut' = cut \ {<<d, x>>}
          /\ open' = [q \in Proc |-> open[q] \ {<<d, x>>}]
          /\ disturb(p, d)
    BY <1>23 DEF unlinkEntry
  <2>1. PICK x \in disk[d] :
          /\ disk' = [disk EXCEPT ![d] = @ \ {x}]
          /\ cut' = cut \ {<<d, x>>}
          /\ open' = [q \in Proc |-> open[q] \ {<<d, x>>}]
          /\ disturb(p, d)
    BY <2>1d
  <2>2. UNCHANGED <<system, remotes, cacheFile, root, generated, pc, command, stack,
                    seen, mem, outcome, done, begun>>
    BY <1>23 DEF unlinkEntry
  <2>3. disk' \in [Owner -> SUBSET Part] /\ cut' \subseteq Dep \X Part
    BY <2>1 DEF Owner
  <2>4. open' \in [Proc -> SUBSET (Dep \X Part)] /\ disturbed' \in [Proc -> SUBSET Dep]
    BY <2>1, <1>dirt
  <2> QED
    BY <2>2, <2>3, <2>4 DEF command
<1>24. CASE writeEntry(p)
  BY <1>24 DEF writeEntry, command, history
<1>25. CASE skipEntry(p)
  <2>1d. PICK d \in Dep : \E x \in disk[d] : seen' = [seen EXCEPT ![p] = @ \union {x}]
    BY <1>25 DEF skipEntry
  <2>1. PICK x \in disk[d] : seen' = [seen EXCEPT ![p] = @ \union {x}]
    BY <2>1d
  <2>2. seen' \in [Proc -> SUBSET Part]
    BY <2>1 DEF Owner
  <2> QED
    BY <1>25, <2>2 DEF skipEntry, shared, command, history
<1>11. CASE installSucceeds(p)
  <2>1. PICK i \in Left(p), repo \in {"primary", "alternate"} :
          /\ LET d == LineAt(p, i).dep
             IN /\ system' = IF ByTool(d, repo) THEN system \union {d} ELSE system
                /\ mem' = IF Type[d] # "CONAN" /\ opts[p].cache
                          THEN [mem EXCEPT ![p] = add(mem[p], cacheFile, <<d, repo>>)]
                          ELSE mem
          /\ GoPast(p, i)
    BY <1>11 DEF installSucceeds
  <2>2. UNCHANGED <<disk, cut, remotes, cacheFile, root, generated, command, outcome,
                    begun, disturbed>>
    BY <1>11 DEF installSucceeds
  <2>3. LineAt(p, i).dep \in Dep
    BY LineTypes DEF Line
  <2>4. add(mem[p], cacheFile, <<LineAt(p, i).dep, repo>>) \in CacheObject
    <3>1. <<LineAt(p, i).dep, repo>> \in Url
      BY <2>3 DEF Url
    <3>2. mem[p] \in CacheObject /\ cacheFile \in CacheFile
      BY DEF CacheObject, CacheFile
    <3>3. TRUE \in BOOLEAN /\ {} \in SUBSET Url
      OBVIOUS
    <3> QED
      BY <3>1, <3>2, <3>3, CacheTypes
  <2>5. mem' \in [Proc -> CacheObject]
    BY <2>1, <2>4 DEF CacheObject
  <2>6. system' \subseteq Dep
    BY <2>1, <2>3
  <2> QED
    BY <2>1, <2>2, <2>5, <2>6, <1>past DEF command, CacheObject
<1>12. CASE tryAlternate(p)
  BY <1>12 DEF tryAlternate, NoExtraction, shared, command, history
<1>13. CASE installFails(p)
  BY <1>13, <1>stop DEF installFails, shared, command, CacheFile
<1>14. CASE stackOverflow(p)
  BY <1>14, <1>gone DEF stackOverflow, shared, files, CacheFile
<1>15. CASE removeEntry(p)
  <2>1. UNCHANGED <<system, remotes, root, generated, local>>
    BY <1>15 DEF removeEntry
  <2>2. CASE UNCHANGED cacheFile /\ \E d \in Dep : \E x \in disk[d] :
               disk' = [disk EXCEPT ![d] = @ \ {x}] /\ cut' = cut \ {<<d, x>>}
    <3>1d. PICK d \in Dep : \E x \in disk[d] :
            disk' = [disk EXCEPT ![d] = @ \ {x}] /\ cut' = cut \ {<<d, x>>}
      BY <2>2
    <3>1. PICK x \in disk[d] :
            disk' = [disk EXCEPT ![d] = @ \ {x}] /\ cut' = cut \ {<<d, x>>}
      BY <3>1d
    <3>2. disk' \in [Owner -> SUBSET Part] /\ cut' \subseteq Dep \X Part
      BY <3>1 DEF Owner
    <3> QED
      BY <2>1, <2>2, <3>2 DEF local, extraction, history
  <2>3. CASE cacheFile' = NoCacheFile /\ UNCHANGED <<disk, cut>>
    <3>1. cacheFile' \in [exists : BOOLEAN, urls : SUBSET Url]
      BY <2>3 DEF NoCacheFile
    <3> QED
      BY <2>1, <2>3, <3>1 DEF local, extraction, history
  <2> QED
    BY <1>15, <2>2, <2>3 DEF removeEntry
<1>16. CASE cleanDone(p)
  <2>1. generated' \in [Owner -> SUBSET Cond]
    BY <1>16 DEF cleanDone
  <2> QED
    BY <1>16, <2>1, <1>stop DEF cleanDone, command, CacheFile
<1>17. CASE cleanFails(p)
  BY <1>17, <1>stop DEF cleanFails, shared, command, CacheFile
<1>18. CASE flush(p)
  <2>1. cacheFile' \in CacheFile
    BY <1>18 DEF flush, truncate, CacheFile
  <2>2. CASE root
    BY <1>18, <2>1, <2>2 DEF flush, files, command, extraction, history, CacheFile
  <2>3. CASE ~root
    BY <1>18, <2>1, <2>3, <1>gone DEF flush
  <2> QED
    BY <2>2, <2>3
<1>19. CASE writeCache(p)
  <2>1. PICK kept \in SUBSET Pieces(cacheFile.urls) :
          cacheFile' = write(mem[p], cacheFile, kept)
    BY <1>19 DEF writeCache
  <2>2. kept \in SUBSET Url
    BY <2>1, PiecesType
  <2>3. cacheFile' \in CacheFile
    BY <2>1, <2>2, <1>written DEF CacheObject
  <2> QED
    BY <1>19, <2>3, <1>gone DEF writeCache
<1>26. CASE writePart(p)
  <2>1. PICK urls \in SUBSET (Pieces(mem[p].urls) \union Pieces(cacheFile.urls)) :
          cacheFile' = write([mem[p] EXCEPT !.urls = urls], cacheFile, {})
    BY <1>26 DEF writePart
  <2>2. urls \in SUBSET Url
    BY <2>1, PiecesType
  <2>3. [mem[p] EXCEPT !.urls = urls] \in CacheObject
    <3>1. mem[p] \in CacheObject /\ CacheObject = [loaded : BOOLEAN, urls : SUBSET Url]
      BY DEF CacheObject
    <3> QED
      BY <3>1, <2>2
  <2>4. cacheFile' \in CacheFile
    BY <2>1, <2>3, <1>written
  <2> QED
    BY <1>26, <2>4 DEF writePart, files, local, extraction, history, CacheFile
<1>20. CASE otherCommand(p)
  BY <1>20, <1>stop DEF otherCommand, shared, command, CacheFile
<1>21. CASE clean(p)
  BY <1>21 DEF clean, shared, command, extraction, history
<1>22. CASE crash(p)
  BY <1>22, <1>gone DEF crash, shared, files, CacheFile
<1> QED
  BY <1>1, <1>2, <1>3, <1>4, <1>5, <1>6, <1>7, <1>8, <1>9, <1>10, <1>11, <1>12, <1>13,
     <1>14, <1>15, <1>16, <1>17, <1>18, <1>19, <1>20, <1>21, <1>22, <1>23, <1>24, <1>25,
     <1>26
  DEF Step, Environment, extract

\* The first state is of the types.
LEMMA TypeInvInit == Init => TypeInv
<1> SUFFICES ASSUME Init PROVE TypeInv
  OBVIOUS
<1>1. << >> \in Seq(GoodFrame) /\ << >> \in Seq(Frame)
  OBVIOUS
<1>2. disk \in [Owner -> SUBSET Part]
  BY ConstantsAssumption DEF Init, Owner
<1> QED
  BY <1>1, <1>2
     DEF Init, TypeInv, TypeOK, NoCacheFile, EmptyCache, NoOptions, OptionRecord

\* Every variable stays in its domain, and no process ever looks for a line
\* that its dependency file does not have.
THEOREM TypeCorrect == Spec => []TypeOK
<1>1. TypeInv /\ [Next]_vars => TypeInv'
  BY TypeInvStep
<1>2. TypeInv => TypeOK
  BY DEF TypeInv
<1> QED
  BY <1>1, <1>2, TypeInvInit, PTL DEF Spec

----------------------------------------------------------------------------
(* What a step of one process leaves alone *)

\* A step of p is invisible in the memory of any other process q; it may disturb
\* what q began, and open what q is writing.
LEMMA OthersUntouched ==
  ASSUME TypeInv, NEW p \in Proc, Step(p) \/ Environment(p),
         NEW q \in Proc, q # p
  PROVE  /\ pc'[q] = pc[q] /\ project'[q] = project[q] /\ opts'[q] = opts[q]
         /\ stack'[q] = stack[q] /\ outcome'[q] = outcome[q] /\ done'[q] = done[q]
         /\ begun'[q] = begun[q] /\ mem'[q] = mem[q] /\ seen'[q] = seen[q]
         /\ open'[q] \subseteq open[q]
         /\ ~openEntry(p) /\ ~unlinkEntry(p) => open'[q] = open[q]
         /\ disturbed[q] \subseteq disturbed'[q]
         /\ disturbed'[q] \subseteq disturbed[q] \union begun[q]
<1> USE DEF TypeInv, TypeOK, command, extraction, history, local, shared
<1>1. CASE retrieve(p)
  BY <1>1 DEF retrieve, Stop, NoExtraction
<1>2. CASE retrieveDependencies(p)
  BY <1>2 DEF retrieveDependencies
<1>3. CASE parseFile(p)
  <2>1. PICK f \in FileName : \E kept \in SUBSET DOMAIN Lists[Top(p).owner][f] : Waits(p, f, kept)
    BY <1>3, ParsedLines, Zenon
  <2>2. PICK kept \in SUBSET DOMAIN Lists[Top(p).owner][f] : Waits(p, f, kept)
    BY <2>1
  <2>3. stack'[q] = stack[q]
    BY <2>2 DEF Waits
  <2> QED
    BY <1>3, <2>3, ParsedKept
<1>4. CASE invalidFile(p)
  BY <1>4 DEF invalidFile, Stop, NoExtraction
<1>5. CASE generateConditions(p)
  BY <1>5 DEF generateConditions, Stop, NoExtraction
<1>6. CASE addArtefactRemote(p)
  BY <1>6 DEF addArtefactRemote, Stop, NoExtraction
<1>7. CASE noAlternate(p)
  BY <1>7 DEF noAlternate, Stop, NoExtraction
<1>8. CASE alreadyInstalled(p)
  BY <1>8 DEF alreadyInstalled, GoPast, NoExtraction
<1>9. CASE startInstall(p)
  BY <1>9 DEF startInstall
<1>10. CASE openEntry(p)
  <2>1. PICK d \in Dep : \E x \in Archive[d] \ seen[p] :
          /\ open' = [r \in Proc |-> IF r = p THEN {<<d, x>>} ELSE open[r] \ {<<d, x>>}]
          /\ seen' = [seen EXCEPT ![p] = @ \union {x}]
          /\ disturb(p, d)
    BY <1>10 DEF openEntry
  <2>2. disturbed'[q] \in {disturbed[q], disturbed[q] \union (begun[q] \intersect {d})}
    BY <2>1 DEF disturb
  <2>3. UNCHANGED <<pc, command, stack, mem, outcome, done, begun>>
    BY <1>10 DEF openEntry
  <2> HIDE DEF history
  <2> QED
    BY <1>10, <2>1, <2>2, <2>3
<1>11. CASE installSucceeds(p)
  BY <1>11 DEF installSucceeds, GoPast, NoExtraction
<1>12. CASE tryAlternate(p)
  BY <1>12 DEF tryAlternate, NoExtraction
<1>13. CASE installFails(p)
  BY <1>13 DEF installFails, Stop, NoExtraction
<1>14. CASE stackOverflow(p)
  BY <1>14 DEF stackOverflow, Gone, NoExtraction
<1>15. CASE removeEntry(p)
  BY <1>15 DEF removeEntry
<1>16. CASE cleanDone(p)
  BY <1>16 DEF cleanDone, Stop, NoExtraction
<1>17. CASE cleanFails(p)
  BY <1>17 DEF cleanFails, Stop, NoExtraction
<1>18. CASE flush(p)
  BY <1>18 DEF flush, Gone, NoExtraction
<1>19. CASE writeCache(p)
  BY <1>19 DEF writeCache, Gone, NoExtraction
<1>20. CASE otherCommand(p)
  BY <1>20 DEF otherCommand, Stop, NoExtraction
<1>21. CASE clean(p)
  BY <1>21 DEF clean
<1>22. CASE crash(p)
  BY <1>22 DEF crash, Gone, NoExtraction
<1>23. CASE unlinkEntry(p)
  <2>1. PICK d \in Dep : \E x \in disk[d] \intersect Archive[d] :
          /\ open' = [r \in Proc |-> open[r] \ {<<d, x>>}]
          /\ disturb(p, d)
    BY <1>23 DEF unlinkEntry
  <2>2. disturbed'[q] \in {disturbed[q], disturbed[q] \union (begun[q] \intersect {d})}
    BY <2>1 DEF disturb
  <2>3. UNCHANGED <<pc, command, stack, seen, mem, outcome, done, begun>>
    BY <1>23 DEF unlinkEntry
  <2> QED
    BY <1>23, <2>1, <2>2, <2>3
<1>24. CASE writeEntry(p)
  BY <1>24 DEF writeEntry
<1>25. CASE skipEntry(p)
  BY <1>25 DEF skipEntry
<1>26. CASE writePart(p)
  BY <1>26 DEF writePart
<1> QED
  BY <1>1, <1>2, <1>3, <1>4, <1>5, <1>6, <1>7, <1>8, <1>9, <1>10, <1>11, <1>12, <1>13,
     <1>14, <1>15, <1>16, <1>17, <1>18, <1>19, <1>20, <1>21, <1>22, <1>23, <1>24, <1>25,
     <1>26
  DEF Step, Environment, extract

\* Only these steps reach into a package folder.
Unpacks(p) == openEntry(p) \/ unlinkEntry(p) \/ writeEntry(p)

LEMMA FoldersKept ==
  ASSUME NEW p \in Proc, Step(p) \/ Environment(p), ~Unpacks(p), ~removeEntry(p)
  PROVE  UNCHANGED <<disk, cut>> /\ (~installSucceeds(p) => UNCHANGED system)
<1>1. CASE installSucceeds(p)
  BY <1>1 DEF installSucceeds
<1>2. CASE parseFile(p)
  BY <1>2, ParsedKept DEF shared
<1>3. CASE \/ retrieve(p) \/ retrieveDependencies(p) \/ invalidFile(p) \/ noAlternate(p)
           \/ tryAlternate(p) \/ installFails(p) \/ stackOverflow(p) \/ crash(p)
           \/ cleanFails(p) \/ otherCommand(p) \/ clean(p)
  BY <1>3 DEF retrieve, retrieveDependencies, invalidFile, noAlternate, tryAlternate,
     installFails, stackOverflow, crash, cleanFails, otherCommand, clean, shared
<1>4. CASE generateConditions(p) \/ cleanDone(p) \/ flush(p) \/ writeCache(p) \/ writePart(p)
  BY <1>4 DEF generateConditions, cleanDone, flush, writeCache, writePart, files
<1>5. CASE addArtefactRemote(p)
  BY <1>5, Zenon DEF addArtefactRemote
<1>6. CASE alreadyInstalled(p) \/ startInstall(p) \/ skipEntry(p)
  BY <1>6, Zenon DEF alreadyInstalled, startInstall, skipEntry, shared
<1> QED
  BY <1>1, <1>2, <1>3, <1>4, <1>5, <1>6 DEF Step, Environment, extract, Unpacks

\* Only a clean and an unzip shrink a folder, and never a project's; nothing uninstalls
\* what a tool installed.
LEMMA FoldersGrow ==
  ASSUME TypeInv, NEW p \in Proc, Step(p) \/ Environment(p)
  PROVE  /\ pc[p] # "clean" /\ ~unlinkEntry(p) => \A o \in Owner : disk[o] \subseteq disk'[o]
         /\ \A o \in Project : disk[o] \subseteq disk'[o]
         /\ system \subseteq system'
<1> USE DEF TypeInv, TypeOK
<1>dep. \A o \in Project : o \in Owner /\ o \notin Dep
  BY ConstantsAssumption DEF Owner
<1>shrink. ASSUME NEW d \in Dep, NEW x \in disk[d], disk' = [disk EXCEPT ![d] = @ \ {x}]
           PROVE  \A o \in Project : disk[o] \subseteq disk'[o]
  BY <1>shrink, <1>dep
<1>1. CASE openEntry(p)
  <2>1. PICK d \in Dep : \E x \in Archive[d] \ seen[p] :
          disk' = [disk EXCEPT ![d] = @ \union {x}]
    BY <1>1 DEF openEntry
  <2>2. \A o \in Owner : disk[o] \subseteq disk'[o]
    BY <2>1
  <2>3. UNCHANGED system
    BY <1>1 DEF openEntry
  <2> QED
    BY <2>2, <2>3 DEF Owner
<1>2. CASE unlinkEntry(p)
  <2>1. UNCHANGED system
    BY <1>2 DEF unlinkEntry
  <2>2. PICK d \in Dep : \E x \in disk[d] : disk' = [disk EXCEPT ![d] = @ \ {x}]
    BY <1>2 DEF unlinkEntry
  <2> QED
    BY <1>2, <2>1, <2>2, <1>shrink
<1>3. CASE removeEntry(p)
  <2>1. pc[p] = "clean" /\ UNCHANGED system
    BY <1>3 DEF removeEntry
  <2>2. CASE UNCHANGED disk
    BY <2>1, <2>2
  <2>3. CASE \E d \in Dep : \E x \in disk[d] : disk' = [disk EXCEPT ![d] = @ \ {x}]
    BY <2>1, <2>3, <1>shrink
  <2> QED
    BY <1>3, <2>2, <2>3 DEF removeEntry
<1>4. CASE writeEntry(p)
  BY <1>4 DEF writeEntry
<1>5. CASE installSucceeds(p)
  BY <1>5 DEF installSucceeds
<1>6. CASE ~Unpacks(p) /\ ~removeEntry(p) /\ ~installSucceeds(p)
  BY <1>6, FoldersKept
<1> QED
  BY <1>1, <1>2, <1>3, <1>4, <1>5, <1>6 DEF Unpacks

----------------------------------------------------------------------------
(* The state of a process *)

\* How the state of a process hangs together; a clean runs alone.
ControlInv ==
  \A p \in Proc :
    /\ pc[p] \in {"idle", "clean"} =>
         project[p] = NoProject /\ done[p] = {} /\ outcome[p] = "none"
    /\ pc[p] \in {"run", "install", "alternate"} =>
         project[p] # NoProject /\ outcome[p] = "none"
    /\ outcome[p] # "none" => stack[p] = << >>
    /\ project[p] = NoProject => opts[p] = NoOptions
    /\ project[p] # NoProject => opts[p] \in Options
    /\ pc[p] = "clean" => \A q \in Proc \ {p} : pc[q] = "idle"

\* The projects' own files stay.
ProjectInv == \A o \in Project : Archive[o] \subseteq disk[o]

\* A package folder holds nothing but parts of its archive.
DiskInv == \A o \in Owner : disk[o] \subseteq Archive[o]

\* No step takes anything out of the folder of a project.
LEMMA ProjectInvStep ==
  ASSUME TypeInv, ProjectInv, [Next]_vars
  PROVE  ProjectInv'
<1>1. CASE UNCHANGED vars
  BY <1>1 DEF ProjectInv, vars, shared
<1>2. CASE Next
  <2>1. PICK p \in Proc : Step(p) \/ Environment(p)
    BY <1>2 DEF Next
  <2>2. \A o \in Project : disk[o] \subseteq disk'[o]
    BY <2>1, FoldersGrow
  <2> QED
    BY <2>2 DEF ProjectInv
<1> QED
  BY <1>1, <1>2

\* No step puts into a folder what its archive does not have.
LEMMA DiskInvStep ==
  ASSUME TypeInv, DiskInv, [Next]_vars
  PROVE  DiskInv'
<1> USE DEF DiskInv, TypeInv, TypeOK
<1>dep. Dep \subseteq Owner
  BY DEF Owner
<1>1. CASE UNCHANGED vars
  BY <1>1 DEF vars, shared
<1>2. ASSUME NEW p \in Proc, openEntry(p) PROVE DiskInv'
  <2>1. PICK d \in Dep : \E x \in Archive[d] : disk' = [disk EXCEPT ![d] = @ \union {x}]
    BY <1>2 DEF openEntry
  <2> QED
    BY <2>1
<1>shrink. ASSUME NEW d \in Dep, NEW x \in disk[d], disk' = [disk EXCEPT ![d] = @ \ {x}]
           PROVE  DiskInv'
  BY <1>shrink, <1>dep
<1>3. ASSUME NEW p \in Proc, unlinkEntry(p) PROVE DiskInv'
  <2>1. PICK d \in Dep : \E x \in disk[d] : disk' = [disk EXCEPT ![d] = @ \ {x}]
    BY <1>3 DEF unlinkEntry
  <2> QED
    BY <2>1, <1>shrink
<1>4. ASSUME NEW p \in Proc, removeEntry(p) PROVE DiskInv'
  <2>1. CASE UNCHANGED disk
    BY <2>1
  <2>2. CASE \E d \in Dep : \E x \in disk[d] : disk' = [disk EXCEPT ![d] = @ \ {x}]
    BY <2>2, <1>shrink
  <2> QED
    BY <1>4, <2>1, <2>2 DEF removeEntry
<1>5. ASSUME NEW p \in Proc, writeEntry(p) PROVE DiskInv'
  BY <1>5 DEF writeEntry
<1>6. ASSUME NEW p \in Proc, Step(p) \/ Environment(p), ~Unpacks(p), ~removeEntry(p)
      PROVE  DiskInv'
  BY <1>6, FoldersKept
<1> QED
  BY <1>1, <1>2, <1>3, <1>4, <1>5, <1>6 DEF Next, Unpacks

\* Every step keeps stack and program counter in accord.
LEMMA ControlInvStep ==
  ASSUME TypeInv, ControlInv, [Next]_vars
  PROVE  ControlInv'
<1> SUFFICES ASSUME Next PROVE ControlInv'
  BY DEF ControlInv, vars, local, history
<1> PICK p \in Proc : Step(p) \/ Environment(p)
  BY DEF Next
<1> DEFINE Good(q) ==
      /\ pc[q] \in {"idle", "clean"} =>
           project[q] = NoProject /\ done[q] = {} /\ outcome[q] = "none"
      /\ pc[q] \in {"run", "install", "alternate"} =>
           project[q] # NoProject /\ outcome[q] = "none"
      /\ outcome[q] # "none" => stack[q] = << >>
      /\ project[q] = NoProject => opts[q] = NoOptions
      /\ project[q] # NoProject => opts[q] \in Options
<1>types. /\ p \in DOMAIN pc /\ p \in DOMAIN project /\ p \in DOMAIN opts
          /\ p \in DOMAIN stack /\ p \in DOMAIN outcome /\ p \in DOMAIN done
  BY DEF TypeInv, TypeOK
<1>good. Good(p)
  BY DEF ControlInv
<1>others. ASSUME NEW q \in Proc, q # p PROVE Good(q)'
  <2>1. Good(q)
    BY DEF ControlInv
  <2>2. /\ pc'[q] = pc[q] /\ project'[q] = project[q] /\ opts'[q] = opts[q]
        /\ stack'[q] = stack[q] /\ outcome'[q] = outcome[q] /\ done'[q] = done[q]
    BY <1>others, OthersUntouched
  <2> QED
    BY <2>1, <2>2
<1>mover. Good(p)'
  <2> USE DEF command, extraction, history, local
  <2>1. CASE retrieve(p)
    <3>1. PICK pr \in Project, o \in Options :
            /\ project' = [project EXCEPT ![p] = pr]
            /\ opts' = [opts EXCEPT ![p] = o]
            /\ IF BaseFile("PACKAGE") \in disk[pr]
               THEN pc' = [pc EXCEPT ![p] = "run"] /\ UNCHANGED outcome
               ELSE Stop(p, "failed")
      BY <2>1 DEF retrieve
    <3>2. pc[p] = "idle"
      BY <2>1 DEF retrieve
    <3> QED
      BY <3>1, <3>2, <1>good, <1>types, ConstantsAssumption DEF Stop
  <2>2. CASE retrieveDependencies(p)
    BY <2>2, <1>good, <1>types DEF retrieveDependencies
  <2>3. CASE parseFile(p)
    <3>1. PICK f \in FileName : \E kept \in SUBSET DOMAIN Lists[Top(p).owner][f] : Waits(p, f, kept)
      BY <2>3, ParsedLines, Zenon
    <3> QED
      BY <2>3, <1>good, <1>types, ParsedKept
  <2>4. CASE invalidFile(p)
    BY <2>4, <1>good, <1>types, InvalidKept DEF Stop
  <2>5. CASE generateConditions(p)
    BY <2>5, <1>good, <1>types DEF generateConditions, Stop
  <2>6. CASE addArtefactRemote(p)
    BY <2>6, <1>good, <1>types DEF addArtefactRemote, Stop
  <2>7. CASE noAlternate(p)
    BY <2>7, <1>good, <1>types DEF noAlternate, Stop
  <2>8. CASE alreadyInstalled(p)
    BY <2>8, <1>good, <1>types DEF alreadyInstalled, GoPast, Visiting
  <2>9. CASE startInstall(p)
    BY <2>9, <1>good, <1>types DEF startInstall, Visiting
  <2>10. CASE extract(p)
    BY <2>10, <1>good
    DEF extract, openEntry, unlinkEntry, writeEntry, skipEntry
  <2>11. CASE installSucceeds(p)
    BY <2>11, <1>good, <1>types DEF installSucceeds, GoPast, Installing
  <2>12. CASE tryAlternate(p)
    BY <2>12, <1>good, <1>types DEF tryAlternate
  <2>13. CASE installFails(p)
    BY <2>13, <1>good, <1>types DEF installFails, Stop
  <2>14. CASE stackOverflow(p)
    BY <2>14, <1>types DEF stackOverflow, Gone
  <2>15. CASE removeEntry(p)
    BY <2>15, <1>good DEF removeEntry
  <2>16. CASE cleanDone(p)
    BY <2>16, <1>good, <1>types DEF cleanDone, Stop
  <2>17. CASE cleanFails(p)
    BY <2>17, <1>good, <1>types DEF cleanFails, Stop
  <2>18. CASE flush(p)
    BY <2>18, <1>good, <1>types DEF flush, Gone
  <2>19. CASE writeCache(p)
    BY <2>19, <1>types DEF writeCache, Gone
  <2>20. CASE otherCommand(p)
    BY <2>20, <1>good, <1>types DEF otherCommand, Stop
  <2>21. CASE clean(p)
    BY <2>21, <1>good, <1>types DEF clean
  <2>22. CASE crash(p)
    BY <2>22, <1>types DEF crash, Gone
  <2>23. CASE writePart(p)
    BY <2>23, <1>good DEF writePart
  <2> QED
    BY <2>1, <2>2, <2>3, <2>4, <2>5, <2>6, <2>7, <2>8, <2>9, <2>10, <2>11, <2>12,
       <2>13, <2>14, <2>15, <2>16, <2>17, <2>18, <2>19, <2>20, <2>21, <2>22, <2>23
    DEF Step, Environment
<1>clean. ASSUME NEW q \in Proc, pc'[q] = "clean", NEW r \in Proc \ {q}
          PROVE  pc'[r] = "idle"
  <2>1. CASE q = p
    <3>1. CASE clean(p)
      <4>1. pc[r] = "idle"
        BY <3>1 DEF clean
      <4> QED
        BY <2>1, <4>1, OthersUntouched
    <3>2. CASE ~clean(p)
      <4>1. pc[p] = "clean"
        <5>1. ASSUME UNCHANGED pc PROVE pc[p] = "clean"
          BY <1>clean, <2>1, <5>1
        <5>2. ~Gone(p) /\ ~GoPast(p, 0)
          BY <1>clean, <2>1, <1>types DEF Gone, GoPast
        <5>3. \A r1 : ~Stop(p, r1)
          BY <1>clean, <2>1, <1>types DEF Stop
        <5>4. \A i : ~GoPast(p, i)
          BY <1>clean, <2>1, <1>types DEF GoPast
        <5>5. CASE invalidFile(p) \/ noAlternate(p) \/ otherCommand(p) \/ cleanFails(p)
                   \/ installFails(p) \/ cleanDone(p)
          BY <5>5, <5>3, InvalidKept DEF noAlternate, otherCommand, cleanFails, installFails,
             cleanDone
        <5>6. CASE stackOverflow(p) \/ crash(p) \/ writeCache(p)
          BY <5>6, <5>2 DEF stackOverflow, crash, writeCache
        <5>7. CASE alreadyInstalled(p) \/ installSucceeds(p)
          BY <5>7, <5>4 DEF alreadyInstalled, installSucceeds
        <5>8. CASE parseFile(p) \/ retrieveDependencies(p)
          BY <5>8, <5>1, ParsedKept DEF retrieveDependencies
        <5>9. CASE removeEntry(p) \/ writePart(p) \/ extract(p)
          BY <5>9, <5>1 DEF removeEntry, writePart, extract, openEntry, unlinkEntry, writeEntry,
             skipEntry, local
        <5>10. CASE retrieve(p)
          BY <5>10, <5>3, <1>clean, <2>1, <1>types DEF retrieve
        <5>11. CASE generateConditions(p) \/ addArtefactRemote(p)
          BY <5>11, <5>1, <5>3, Zenon DEF generateConditions, addArtefactRemote
        <5>12. CASE startInstall(p) \/ tryAlternate(p)
          BY <5>12, <1>clean, <2>1, <1>types DEF startInstall, tryAlternate
        <5>13. CASE flush(p)
          BY <5>13, <5>2, <1>clean, <2>1, <1>types DEF flush
        <5> QED
          BY <3>2, <5>5, <5>6, <5>7, <5>8, <5>9, <5>10, <5>11, <5>12, <5>13 DEF Step, Environment
      <4>2. pc[r] = "idle"
        BY <2>1, <4>1 DEF ControlInv
      <4> QED
        BY <2>1, <4>2, OthersUntouched
    <3> QED
      BY <3>1, <3>2
  <2>2. CASE q # p
    <3>1. pc[q] = "clean"
      BY <1>clean, <2>2, OthersUntouched
    <3>2. pc[p] = "idle"
      BY <2>2, <3>1 DEF ControlInv
    <3>3. \/ retrieve(p) \/ otherCommand(p) \/ clean(p) \/ writeEntry(p)
      <4>1. ~parseFile(p) /\ ~invalidFile(p)
        BY <3>2, ParsedKept, InvalidKept
      <4>2. ~openEntry(p) /\ ~unlinkEntry(p) /\ ~skipEntry(p)
        <5>1. \A d : ~Extracting(p, d)
          BY <3>2 DEF Extracting, Installing
        <5> QED
          BY <5>1 DEF openEntry, unlinkEntry, skipEntry
      <4> QED
        BY <3>2, <4>1, <4>2 DEF Step, Environment, extract, retrieveDependencies,
           generateConditions, addArtefactRemote, noAlternate,
           alreadyInstalled, startInstall, writePart, installSucceeds, tryAlternate,
           installFails, stackOverflow, removeEntry, cleanDone, cleanFails, flush,
           writeCache, crash, Visiting, Installing
    <3>4. writeEntry(p)
      BY <2>2, <3>1, <3>3 DEF retrieve, otherCommand, clean, NobodyCleans
    <3>5. pc[r] = "idle" /\ UNCHANGED pc
      BY <3>1, <3>4 DEF ControlInv, writeEntry
    <3> QED
      BY <3>5
  <2> QED
    BY <2>1, <2>2
<1> QED
  <2>1. \A q \in Proc : Good(q)'
    BY <1>others, <1>mover
  <2> QED
    BY <2>1, <1>clean DEF ControlInv

----------------------------------------------------------------------------
(* The cache *)

\* Each of urls comes from the line of no system dependency but one that its tool
\* installed.
Sound(urls, installed) ==
  \A u \in urls : \E w \in Origins(u) :
    Type[w[1]] = "SYSTEM" /\ w[2] = "primary" => w[1] \in installed

CacheInv ==
  Sound(cacheFile.urls, system) /\ \A p \in Proc : Sound(mem[p].urls, system)

\* What is loaded or written comes from sound sets.
LEMMA CacheUrls ==
  ASSUME NEW c \in CacheObject, NEW f \in CacheFile, NEW u \in Url, NEW r \in BOOLEAN,
         NEW kept \in SUBSET Url
  PROVE  /\ load(c, f).urls \subseteq c.urls \union f.urls
         /\ add(c, f, u).urls \subseteq c.urls \union f.urls \union {u}
         /\ truncate(f, r).urls \subseteq f.urls
         /\ write(c, f, kept).urls \subseteq c.urls \union f.urls \union kept
<1>1. load(c, f) \in CacheObject
  BY CacheTypes
<1>2. load(c, f).urls \subseteq c.urls \union f.urls
  BY DEF load
<1>3. add(c, f, u).urls \subseteq c.urls \union f.urls \union {u}
  BY <1>1, <1>2 DEF add, CacheObject
<1> QED
  BY <1>2, <1>3 DEF truncate, write, CacheFile

\* A torn line comes from where the whole one comes from.
LEMMA PiecesSound ==
  ASSUME NEW urls \in SUBSET Url, NEW installed, Sound(urls, installed)
  PROVE  Sound(Pieces(urls), installed)
<1> SUFFICES ASSUME NEW v \in Pieces(urls), v \notin urls
             PROVE  \E w \in Origins(v) :
                      Type[w[1]] = "SYSTEM" /\ w[2] = "primary" => w[1] \in installed
  BY DEF Sound
<1>1. PICK u \in urls : Interruptible /\ v \in Torn[u]
  BY DEF Pieces
<1>2. PICK w \in Origins(u) :
        Type[w[1]] = "SYSTEM" /\ w[2] = "primary" => w[1] \in installed
  BY DEF Sound
<1>3. w \in Url /\ (w = u \/ u \in Torn[w])
  BY <1>2 DEF Origins
<1>4. v \in Torn[w]
  BY <1>1, <1>3, ConstantsAssumption
<1> QED
  BY <1>1, <1>2, <1>3, <1>4 DEF Origins

\* What a step adds to a cache or to the file is what its tool just installed.
LEMMA CacheInvStep ==
  ASSUME TypeInv, CacheInv, [Next]_vars
  PROVE  CacheInv'
<1> SUFFICES ASSUME Next PROVE CacheInv'
  BY DEF vars, shared, local, CacheInv
<1> PICK p \in Proc : Step(p) \/ Environment(p)
  BY DEF Next
<1>types. p \in DOMAIN mem /\ mem[p] \in CacheObject /\ cacheFile \in CacheFile
  BY DEF TypeInv, TypeOK, CacheObject, CacheFile
<1>grows. system \subseteq system'
  BY FoldersGrow
<1>file. Sound(cacheFile.urls, system')
  BY <1>grows DEF CacheInv, Sound
<1>own. Sound(mem[p].urls, system')
  BY <1>grows DEF CacheInv, Sound
<1>others. \A q \in Proc \ {p} : Sound(mem'[q].urls, system')
  <2>1. \A q \in Proc \ {p} : mem'[q] = mem[q]
    BY OthersUntouched
  <2> QED
    BY <2>1, <1>grows DEF CacheInv, Sound
<1>suffices. ASSUME Sound(cacheFile'.urls, system'), Sound(mem'[p].urls, system')
             PROVE  CacheInv'
  BY <1>suffices, <1>others DEF CacheInv
<1>1. CASE UNCHANGED <<cacheFile, mem>>
  BY <1>1, <1>file, <1>own, <1>suffices
<1>gone. ASSUME Gone(p) PROVE Sound(mem'[p].urls, system')
  BY <1>gone, <1>types DEF Gone, EmptyCache, Sound
<1>2. CASE alreadyInstalled(p) \/ startInstall(p)
  <2>1. UNCHANGED cacheFile
    BY <1>2 DEF alreadyInstalled, startInstall, shared
  <2>2. mem' = [mem EXCEPT ![p] = load(mem[p], cacheFile)] \/ mem' = mem
    BY <1>2 DEF alreadyInstalled, startInstall
  <2>3. mem'[p].urls \subseteq mem[p].urls \union cacheFile.urls
    BY <1>types, <2>2, CacheUrls DEF load
  <2> QED
    BY <2>1, <2>3, <1>file, <1>own, <1>suffices DEF Sound
<1>3. CASE installSucceeds(p)
  <2>1. PICK i \in Left(p), repo \in {"primary", "alternate"} :
          /\ system' = IF ByTool(LineAt(p, i).dep, repo)
                       THEN system \union {LineAt(p, i).dep} ELSE system
          /\ mem' = IF Type[LineAt(p, i).dep] # "CONAN" /\ opts[p].cache
                    THEN [mem EXCEPT ![p] = add(mem[p], cacheFile,
                                                <<LineAt(p, i).dep, repo>>)]
                    ELSE mem
    BY <1>3 DEF installSucceeds
  <2>2. PICK d \in Dep : d = LineAt(p, i).dep
    BY LineTypes DEF Line
  <2>3. mem'[p].urls \subseteq mem[p].urls \union cacheFile.urls \union {<<d, repo>>}
    <3>1. <<d, repo>> \in Url /\ TRUE \in BOOLEAN /\ {} \in SUBSET Url
      BY DEF Url
    <3>2. add(mem[p], cacheFile, <<d, repo>>).urls
            \subseteq mem[p].urls \union cacheFile.urls \union {<<d, repo>>}
      BY <3>1, <1>types, CacheUrls
    <3> QED
      BY <1>types, <2>1, <2>2, <3>2
  <2>4. Type[d] = "SYSTEM" /\ repo = "primary" => d \in system'
    BY <2>1, <2>2 DEF ByTool
  <2>5. UNCHANGED cacheFile
    BY <1>3 DEF installSucceeds
  <2>6. Sound({<<d, repo>>}, system')
    BY <2>4 DEF Sound, Origins
  <2>7. Sound(mem'[p].urls, system')
    BY <2>3, <2>6, <1>file, <1>own DEF Sound
  <2> QED
    BY <2>5, <2>7, <1>file, <1>suffices
<1>4. CASE removeEntry(p)
  <2>1. UNCHANGED mem /\ (UNCHANGED cacheFile \/ cacheFile' = NoCacheFile)
    BY <1>4 DEF removeEntry, local
  <2> QED
    BY <2>1, <1>file, <1>own, <1>suffices DEF NoCacheFile, Sound
<1>5. CASE flush(p)
  <2>1. cacheFile'.urls \subseteq cacheFile.urls
    BY <1>5 DEF flush, truncate
  <2>2. mem'[p].urls = mem[p].urls \/ Gone(p)
    BY <1>5 DEF flush
  <2>3. Sound(cacheFile'.urls, system')
    BY <2>1, <1>file DEF Sound
  <2>4. Sound(mem'[p].urls, system')
    BY <2>2, <1>own, <1>gone
  <2> QED
    BY <2>3, <2>4, <1>suffices
<1>pieces. Sound(Pieces(mem[p].urls), system') /\ Sound(Pieces(cacheFile.urls), system')
  BY <1>types, <1>file, <1>own, PiecesSound DEF CacheObject, CacheFile
<1>6. CASE stackOverflow(p) \/ crash(p)
  <2>1. Gone(p) /\ UNCHANGED cacheFile
    BY <1>6 DEF stackOverflow, crash, shared
  <2> QED
    BY <2>1, <1>file, <1>gone, <1>suffices
<1>7. CASE writeCache(p)
  <2>1. Gone(p) /\ \E kept \in SUBSET Pieces(cacheFile.urls) :
                     cacheFile' = write(mem[p], cacheFile, kept)
    BY <1>7 DEF writeCache
  <2>2. cacheFile'.urls \subseteq
          mem[p].urls \union cacheFile.urls \union Pieces(cacheFile.urls)
    BY <2>1, <1>types DEF write, CacheFile
  <2>3. Sound(cacheFile'.urls, system')
    BY <2>2, <1>file, <1>own, <1>pieces DEF Sound
  <2> QED
    BY <2>1, <2>3, <1>gone, <1>suffices
<1>8. CASE writePart(p)
  <2>1. UNCHANGED mem /\ \E urls \in SUBSET (Pieces(mem[p].urls) \union Pieces(cacheFile.urls)) :
                           cacheFile' = write([mem[p] EXCEPT !.urls = urls], cacheFile, {})
    BY <1>8 DEF writePart, local
  <2>2. cacheFile'.urls \subseteq
          Pieces(mem[p].urls) \union Pieces(cacheFile.urls) \union cacheFile.urls
    BY <2>1, <1>types DEF write, CacheFile, CacheObject
  <2>3. Sound(cacheFile'.urls, system')
    BY <2>2, <1>file, <1>pieces DEF Sound
  <2> QED
    BY <2>1, <2>3, <1>own, <1>suffices
<1>9. CASE parseFile(p) \/ invalidFile(p)
  BY <1>9, <1>1, ParsedKept, InvalidKept DEF shared
<1>10. CASE extract(p)
  BY <1>10, <1>1 DEF extract, openEntry, unlinkEntry, writeEntry, skipEntry, shared
<1>11. CASE retrieve(p) \/ retrieveDependencies(p) \/ noAlternate(p) \/ tryAlternate(p)
            \/ installFails(p) \/ cleanFails(p) \/ otherCommand(p) \/ clean(p)
  BY <1>11, <1>1 DEF retrieve, retrieveDependencies, noAlternate, tryAlternate,
     installFails, cleanFails, otherCommand, clean, shared
<1>12. CASE generateConditions(p) \/ cleanDone(p)
  BY <1>12, <1>1 DEF generateConditions, cleanDone
<1>13. CASE addArtefactRemote(p)
  BY <1>13, <1>1, Zenon DEF addArtefactRemote
<1> QED
  BY <1>1, <1>2, <1>3, <1>4, <1>5, <1>6, <1>7, <1>8, <1>9, <1>10, <1>11, <1>12, <1>13
  DEF Step, Environment

\* At first all caches are empty.
LEMMA CacheInvInit == Init => CacheInv
BY DEF Init, CacheInv, Sound, NoCacheFile, EmptyCache

\* What the cache lists comes from dependencies that a tool installed, however many
\* processes write it, whenever they stop and wherever they tear its lines.
THEOREM CacheIsSound == Spec => []CachedIsInstalled
<1>1. Init => CacheInv
  BY CacheInvInit
<1>2. TypeInv /\ CacheInv /\ [Next]_vars => TypeInv' /\ CacheInv'
  BY TypeInvStep, CacheInvStep
<1>3. CacheInv => CachedIsInstalled
  BY DEF CacheInv, Sound, CachedIsInstalled, Honest
<1> QED
  BY <1>1, <1>2, <1>3, TypeInvInit, PTL DEF Spec

----------------------------------------------------------------------------
(* What a run visits and records *)

Alone == \A p, q \in Proc : p = q

\* The folders whose lists p may read, with the type they are read as.
MayOrigin(p) == {<<project[p], "PACKAGE">>} \union (Permitted(p) \intersect Recursive)

\* A frame of p is one of a folder that may be read; none of its lines is switched
\* off, nor is a condition it kept.
Allowed(p, fr) ==
  /\ \E w \in MayOrigin(p) : fr.owner = w[1] /\ fr.type \in ReadTypes(w[2])
  /\ fr.files \subseteq FilesOf(fr.type) \intersect Archive[fr.owner]
  /\ fr.todo # {} => fr.file \in FilesOf(fr.type) \intersect Archive[fr.owner]
  /\ \A i \in fr.todo : ~SwitchedOff(opts[p], fr.owner, Lists[fr.owner][fr.file][i])
  /\ \A c \in fr.conds : ~Disabled(opts[p], fr.owner, c)

\* Frame fr is still to come to line i of file f, or has kept its conditions.
Recorded(p, fr) ==
  fr.owner = project[p] /\ fr.opened =>
    \A f \in FilesOf(fr.type) \intersect Archive[fr.owner] :
      \A i \in DOMAIN Lists[fr.owner][f] :
        Mandatory(opts[p], fr.owner, Lists[fr.owner][f][i]) =>
          \/ f \in fr.files
          \/ f = fr.file /\ i \in fr.todo
          \/ Lists[fr.owner][f][i].conds \subseteq fr.conds

\* The lowest frame is the one of the project's packages: it returns last.
Lowest(s) == s[Len(s)]
LastIsProject(p) ==
  stack[p] # << >> => Lowest(stack[p]).owner = project[p] /\ Lowest(stack[p]).type = "PACKAGE"

Written(p) ==
  LET o == project[p]
  IN /\ \A c \in generated[o] : ~Disabled(opts[p], o, c)
     /\ \A f \in PackageFiles \intersect Archive[o] : \A i \in DOMAIN Lists[o][f] :
          Mandatory(opts[p], o, Lists[o][f][i]) => Lists[o][f][i].conds \subseteq generated[o]

Run(p) ==
  /\ project[p] = NoProject => begun[p] = {}
  /\ project[p] # NoProject =>
       /\ begun[p] \subseteq {v[1] : v \in Permitted(p)}
       /\ \A fr \in Range(stack[p]) : Allowed(p, fr) /\ Recorded(p, fr)
       /\ LastIsProject(p)
       /\ Alone /\ outcome[p] = "ok" => Written(p)

RunInv == \A p \in Proc : Run(p)

\* The lowest frame of the stacks that steps make.
LEMMA LowestFrame ==
  ASSUME NEW S, NEW r \in Seq(S), NEW x \in S, NEW t \in Seq(S)
  PROVE  Lowest(r \o <<x>> \o t) = IF t = << >> THEN x ELSE Lowest(t)
<1>1. <<x>> \in Seq(S) /\ Len(<<x>>) = 1 /\ <<x>>[1] = x
  OBVIOUS
<1> DEFINE a == r \o <<x>>
<1>2. a \in Seq(S) /\ Len(a) = Len(r) + 1 /\ a[Len(a)] = x /\ Len(r) \in Nat
  <2>1. /\ a \in Seq(S) /\ Len(a) = Len(r) + Len(<<x>>)
        /\ \A i \in 1 .. Len(r) + Len(<<x>>) : a[i] = IF i <= Len(r) THEN r[i] ELSE <<x>>[i - Len(r)]
    BY <1>1, ConcatProperties
  <2>2. Len(r) \in Nat
    BY LenProperties
  <2>3. Len(a) = Len(r) + 1 /\ Len(a) \in 1 .. Len(r) + Len(<<x>>) /\ ~(Len(a) <= Len(r))
        /\ Len(a) - Len(r) = 1
    BY <1>1, <2>1, <2>2
  <2> HIDE DEF a
  <2>4. a[Len(a)] = <<x>>[Len(a) - Len(r)]
    BY <2>1, <2>3
  <2> QED
    BY <1>1, <2>1, <2>2, <2>3, <2>4
<1> HIDE DEF a
<1>3. /\ Len(a \o t) = Len(a) + Len(t)
      /\ \A i \in 1 .. Len(a) + Len(t) : (a \o t)[i] = IF i <= Len(a) THEN a[i] ELSE t[i - Len(a)]
  BY <1>2, ConcatProperties
<1>4. Len(t) \in Nat /\ (t = << >> <=> Len(t) = 0)
  BY EmptySeq, LenProperties
<1>5. Len(a) + Len(t) \in 1 .. Len(a) + Len(t)
  BY <1>2, <1>4
<1>6. Lowest(a \o t) = IF Len(a) + Len(t) <= Len(a) THEN a[Len(a) + Len(t)]
                       ELSE t[Len(a) + Len(t) - Len(a)]
  BY <1>3, <1>5 DEF Lowest
<1>7. CASE t = << >>
  <2>1. Len(a) + Len(t) = Len(a) /\ Len(a) + Len(t) <= Len(a)
    BY <1>2, <1>4, <1>7
  <2> QED
    BY <1>2, <1>6, <1>7, <2>1 DEF a
<1>8. CASE t # << >>
  <2>1. ~(Len(a) + Len(t) <= Len(a)) /\ Len(a) + Len(t) - Len(a) = Len(t)
    BY <1>2, <1>4, <1>8
  <2> QED
    BY <1>6, <1>8, <2>1 DEF a, Lowest
<1> QED
  BY <1>7, <1>8

\* The lowest frame of a stack, under a change of its top.
LEMMA LowestOfStack ==
  ASSUME NEW S, NEW s \in Seq(S), s # << >>
  PROVE  /\ Tail(s) = << >> => Lowest(s) = s[1]
         /\ Tail(s) # << >> => Lowest(Tail(s)) = Lowest(s)
         /\ \A x \in S : Lowest([s EXCEPT ![1] = x]) = IF Tail(s) = << >> THEN x ELSE Lowest(s)
<1>1. Len(s) \in Nat \ {0}
  BY EmptySeq
<1>2. /\ Tail(s) \in Seq(S) /\ Len(Tail(s)) = Len(s) - 1
      /\ \A i \in 1 .. Len(Tail(s)) : Tail(s)[i] = s[i + 1]
  BY HeadTailProperties
<1>3. Tail(s) = << >> <=> Len(Tail(s)) = 0
  BY <1>2, EmptySeq
<1>4. Tail(s) = << >> <=> Len(s) = 1
  BY <1>1, <1>2, <1>3
<1>5. Tail(s) # << >> => Lowest(Tail(s)) = Lowest(s)
  <2> SUFFICES ASSUME Tail(s) # << >> PROVE Lowest(Tail(s)) = Lowest(s)
    OBVIOUS
  <2>1. Len(s) - 1 \in 1 .. Len(Tail(s)) /\ (Len(s) - 1) + 1 = Len(s)
    BY <1>1, <1>2, <1>4
  <2> QED
    BY <1>2, <2>1 DEF Lowest
<1>6. ASSUME NEW x \in S
      PROVE  Lowest([s EXCEPT ![1] = x]) = IF Tail(s) = << >> THEN x ELSE Lowest(s)
  <2>1. /\ Len([s EXCEPT ![1] = x]) = Len(s)
        /\ \A j \in 1 .. Len(s) : [s EXCEPT ![1] = x][j] = IF j = 1 THEN x ELSE s[j]
    BY <1>1, ExceptSeq
  <2>2. Len(s) \in 1 .. Len(s)
    BY <1>1
  <2> QED
    BY <1>4, <2>1, <2>2 DEF Lowest
<1> QED
  BY <1>4, <1>5, <1>6 DEF Lowest

\* What a folder that may be read asks for may be visited.
LEMMA MayOriginClosed ==
  ASSUME TypeInv, ControlInv, NEW p \in Proc, project[p] # NoProject,
         NEW w \in MayOrigin(p), NEW v \in Visit, MayNeed(opts[p], w[1], w[2], v)
  PROVE  v \in Permitted(p)
<1> DEFINE op == opts[p]
           pr == project[p]
           roots == {u \in Visit : MayNeed(op, pr, "PACKAGE", u)}
           E == MayNeedEdges(op)
<1>1. pr \in Project /\ op \in Options
  BY DEF TypeInv, TypeOK, ControlInv
<1>2. \A u : u \in Permitted(p) <=> u \in Reachable(roots, E)
  <2>1. \A u : u \in Reachable(roots, E) => u \in Permitted(p)
    <3> SUFFICES ASSUME NEW u \in Reachable(roots, E) PROVE u \in Permitted(p)
      OBVIOUS
    <3>1. u \in Visit
      BY DEF Reachable
    <3>2. <<pr, op, u>> \in {<<pr, op, x>> : x \in Reachable(roots, E)}
      OBVIOUS
    <3>3. <<pr, op, u>> \in permits
      <4> DEFINE R(j, o) == Reachable({x \in Visit : MayNeed(o, j, "PACKAGE", x)}, MayNeedEdges(o))
                 U(j, o) == {<<j, o, x>> : x \in R(j, o)}
      <4>1. permits = UNION {U(j, o) : j \in Project, o \in Options}
        BY DEF permits
      <4>2. <<pr, op, u>> \in U(pr, op)
        BY <3>2
      <4> HIDE DEF R, U, pr, op
      <4> QED
        BY <1>1, <4>1, <4>2
    <3> QED
      BY <3>1, <3>3 DEF Permitted
  <2>2. ASSUME NEW u \in Permitted(p) PROVE u \in Reachable(roots, E)
    <3>1. <<pr, op, u>> \in permits
      BY DEF Permitted
    <3>2. PICK pr2 \in Project, op2 \in Options :
            <<pr, op, u>> \in
              {<<pr2, op2, x>> : x \in
                 Reachable({x \in Visit : MayNeed(op2, pr2, "PACKAGE", x)}, MayNeedEdges(op2))}
      BY <3>1 DEF permits
    <3>3. PICK x \in Reachable({x \in Visit : MayNeed(op2, pr2, "PACKAGE", x)}, MayNeedEdges(op2)) :
            <<pr, op, u>> = <<pr2, op2, x>>
      BY <3>2
    <3>4. pr = pr2 /\ op = op2 /\ u = x
      BY <3>3
    <3> QED
      BY <3>3, <3>4
  <2> QED
    BY <2>1, <2>2
<1>3. CASE w = <<pr, "PACKAGE">>
  <2>1. v \in roots
    BY <1>3
  <2> HIDE DEF roots, E
  <2>2. v \in Reachable(roots, E)
    BY <2>1 DEF Reachable
  <2> QED
    BY <1>2, <2>2
<1>4. CASE w \in Permitted(p) /\ w \in Recursive
  <2> DEFINE e == <<w, v>>
  <2>1. e \in E /\ e[1] = w /\ e[2] = v
    BY <1>4 DEF MayNeedEdges
  <2>2. w \in Reachable(roots, E)
    BY <1>2, <1>4
  <2> HIDE DEF roots, E, e
  <2>3. v \in Reachable(roots, E)
    BY <2>1, <2>2 DEF Reachable
  <2> QED
    BY <1>2, <2>3
<1> QED
  BY <1>3, <1>4 DEF MayOrigin

\* So the visit of a line may be made.
LEMMA VisitAllowed ==
  ASSUME TypeInv, ControlInv, NEW p \in Proc, project[p] # NoProject,
         NEW i \in Left(p), Allowed(p, Top(p))
  PROVE  <<LineAt(p, i).dep, Top(p).type>> \in Permitted(p)
<1>1. /\ Top(p) \in GoodFrame /\ LineAt(p, i) \in Line /\ i \in Top(p).todo
      /\ i \in DOMAIN Lists[Top(p).owner][Top(p).file]
  BY LineTypes
<1> DEFINE v == <<LineAt(p, i).dep, Top(p).type>>
<1>2. v \in Visit /\ v[1] = LineAt(p, i).dep /\ v[2] = Top(p).type /\ Top(p).file \in FileName
  BY <1>1 DEF Visit, Line, GoodFrame, Frame
<1>3. PICK w \in MayOrigin(p) : Top(p).owner = w[1] /\ Top(p).type \in ReadTypes(w[2])
  BY DEF Allowed
<1>4. Top(p).file \in FilesOf(Top(p).type) \intersect Archive[Top(p).owner]
  BY <1>1 DEF Allowed
<1>5. ~SwitchedOff(opts[p], w[1], Lists[w[1]][Top(p).file][i])
  BY <1>1, <1>3 DEF Allowed
<1> HIDE DEF v
<1>6. Leads(w[1], w[2], Top(p).file, i, v)
  BY <1>1, <1>2, <1>3, <1>4 DEF Leads, LineAt, FileLines
<1>7. MayNeed(opts[p], w[1], w[2], v)
  BY <1>1, <1>2, <1>3, <1>5, <1>6 DEF MayNeed
<1> QED
  BY <1>2, <1>7, MayOriginClosed DEF v

\* A frame that is pushed for a package visited is one that may be there.
LEMMA NewFrameAllowed ==
  ASSUME NEW p \in Proc, NEW w \in MayOrigin(p), NEW t \in ReadTypes(w[2])
  PROVE  Allowed(p, NewFrame(w[1], t)) /\ Recorded(p, NewFrame(w[1], t))
BY DEF Allowed, Recorded, NewFrame

\* So is what is left of the top frame after a line.
LEMMA RestAllowed ==
  ASSUME TypeInv, NEW p \in Proc, NEW i \in Left(p),
         Allowed(p, Top(p)), Recorded(p, Top(p))
  PROVE  Allowed(p, Rest(p, i)) /\ Recorded(p, Rest(p, i))
<1>1. Top(p) \in GoodFrame /\ i \in Top(p).todo
  BY LineTypes
<1>2. /\ Rest(p, i).owner = Top(p).owner /\ Rest(p, i).type = Top(p).type
      /\ Rest(p, i).opened = Top(p).opened /\ Rest(p, i).files = Top(p).files
      /\ Rest(p, i).file = Top(p).file /\ Rest(p, i).todo = Top(p).todo \ {i}
      /\ Rest(p, i).conds = Top(p).conds \union LineAt(p, i).conds
  BY <1>1 DEF Rest, GoodFrame, Frame
<1>3. LineAt(p, i) = Lists[Top(p).owner][Top(p).file][i]
  BY DEF LineAt, FileLines
<1>4. \A c \in LineAt(p, i).conds : ~Disabled(opts[p], Top(p).owner, c)
  BY <1>1, <1>3 DEF Allowed, SwitchedOff
<1>5. Allowed(p, Rest(p, i))
  BY <1>2, <1>4 DEF Allowed
<1>6. Recorded(p, Rest(p, i))
  BY <1>2, <1>3 DEF Recorded
<1> QED
  BY <1>5, <1>6

\* A step that replaces the top frame.
LEMMA RunTop ==
  ASSUME TypeInv, NEW p \in Proc, Run(p), stack[p] # << >>, outcome[p] # "ok",
         NEW x \in GoodFrame, stack' = [stack EXCEPT ![p][1] = x],
         UNCHANGED <<command, outcome, begun>>,
         x.owner = Top(p).owner, x.type = Top(p).type,
         project[p] # NoProject => Allowed(p, x) /\ Recorded(p, x)
  PROVE  Run(p)'
<1>1. stack[p] \in Seq(GoodFrame) /\ stack'[p] = [stack[p] EXCEPT ![1] = x]
  BY DEF TypeInv
<1>2. /\ project'[p] = project[p] /\ opts'[p] = opts[p] /\ outcome'[p] = outcome[p]
      /\ begun'[p] = begun[p]
  BY DEF command
<1>3. Range(stack[p]) = {Top(p)} \union Range(Tail(stack[p]))
      /\ Range(stack'[p]) = {x} \union Range(Tail(stack[p]))
  BY <1>1, StackParts, TopReplaced DEF Top
<1>4. /\ Tail(stack[p]) = << >> => Lowest(stack[p]) = Top(p)
      /\ Lowest(stack'[p]) = IF Tail(stack[p]) = << >> THEN x ELSE Lowest(stack[p])
  BY <1>1, LowestOfStack DEF Top
<1>5. ASSUME project[p] # NoProject
      PROVE  LastIsProject(p)' /\ \A fr \in Range(stack'[p]) : (Allowed(p, fr) /\ Recorded(p, fr))'
  <2>1. LastIsProject(p) /\ \A fr \in Range(stack[p]) : Allowed(p, fr) /\ Recorded(p, fr)
    BY <1>5 DEF Run
  <2>2. \A fr : (Allowed(p, fr) /\ Recorded(p, fr))' <=> Allowed(p, fr) /\ Recorded(p, fr)
    BY <1>2 DEF Allowed, Recorded, MayOrigin, Permitted
  <2>3. LastIsProject(p)'
    BY <1>2, <1>4, <2>1 DEF LastIsProject
  <2> QED
    BY <1>3, <1>5, <2>1, <2>2, <2>3
<1>6. Permitted(p)' = Permitted(p)
  BY <1>2 DEF Permitted
<1> QED
  BY <1>2, <1>5, <1>6 DEF Run

\* A visit that is made.
LEMMA RunPast ==
  ASSUME TypeInv, ControlInv, NEW p \in Proc, Run(p), project[p] # NoProject,
         outcome[p] # "ok", NEW i \in Left(p), GoPast(p, i), UNCHANGED <<command, outcome, begun>>
  PROVE  Run(p)'
<1>1. /\ stack[p] \in Seq(GoodFrame) /\ stack[p] # << >>
      /\ Top(p) \in GoodFrame /\ LineAt(p, i) \in Line
  BY LineTypes
<1>2. stack'[p] = AfterLine(p, i) /\ p \in DOMAIN stack
  BY DEF GoPast, TypeInv, TypeOK
<1>3. project'[p] = project[p] /\ opts'[p] = opts[p] /\ outcome'[p] = outcome[p]
  BY DEF command
<1>4. PICK d \in Dep, t \in FileType : d = LineAt(p, i).dep /\ t = Top(p).type
  BY <1>1 DEF Line, GoodFrame, Frame
<1>5. /\ Range(stack[p]) = {Top(p)} \union Range(Tail(stack[p]))
      /\ Tail(stack[p]) \in Seq(GoodFrame)
  BY <1>1, StackParts DEF Top
<1>6. /\ Range(stack'[p]) = Range(Recursion(d, t)) \union {Rest(p, i)} \union Range(Tail(stack[p]))
      /\ Rest(p, i) \in GoodFrame
  BY <1>2, <1>4, AfterLineFrames
<1>7. \A fr \in Range(stack[p]) : Allowed(p, fr) /\ Recorded(p, fr)
  BY DEF Run
<1>8. Allowed(p, Top(p)) /\ Recorded(p, Top(p))
  BY <1>5, <1>7
<1>9. <<d, t>> \in Permitted(p)
  BY <1>4, <1>8, VisitAllowed
<1>10. \A fr \in Range(Recursion(d, t)) : Allowed(p, fr) /\ Recorded(p, fr)
  <2>1. CASE Type[d] # "REMAKEN"
    BY <2>1, RecursionFrames
  <2>2. CASE Type[d] = "REMAKEN"
    <3> DEFINE w == <<d, t>>
    <3>1. w[1] = d /\ w[2] = t /\ "EXTRA_DEPS" \in ReadTypes(t) /\ t \in ReadTypes(t)
      BY DEF ReadTypes, FileType
    <3>2. w \in MayOrigin(p)
      BY <1>9, <2>2 DEF MayOrigin, Recursive, Permitted
    <3> HIDE DEF w
    <3>3. Allowed(p, NewFrame(d, "EXTRA_DEPS")) /\ Recorded(p, NewFrame(d, "EXTRA_DEPS"))
      BY <3>1, <3>2, NewFrameAllowed
    <3>4. Allowed(p, NewFrame(d, t)) /\ Recorded(p, NewFrame(d, t))
      BY <3>1, <3>2, NewFrameAllowed
    <3> QED
      BY <2>2, <3>3, <3>4, RecursionFrames
  <2> QED
    BY <2>1, <2>2
<1>11. \A fr \in Range(stack'[p]) : Allowed(p, fr) /\ Recorded(p, fr)
  BY <1>5, <1>6, <1>7, <1>8, <1>10, RestAllowed
<1>12. \A fr : (Allowed(p, fr) /\ Recorded(p, fr))' <=> Allowed(p, fr) /\ Recorded(p, fr)
  BY <1>3 DEF Allowed, Recorded, MayOrigin, Permitted
<1>13. LastIsProject(p)'
  <2>1. AfterLine(p, i) = Recursion(d, t) \o <<Rest(p, i)>> \o Tail(stack[p])
    BY <1>4 DEF AfterLine, Rest
  <2>2. Recursion(d, t) \in Seq(GoodFrame)
    BY RecursionFrames
  <2>3. Lowest(stack'[p]) = IF Tail(stack[p]) = << >> THEN Rest(p, i) ELSE Lowest(Tail(stack[p]))
    <3> DEFINE r == Recursion(d, t)
               x == Rest(p, i)
               s == Tail(stack[p])
    <3>1. r \in Seq(GoodFrame) /\ x \in GoodFrame /\ s \in Seq(GoodFrame)
      BY <1>5, <1>6, <2>2
    <3> HIDE DEF r, x, s
    <3>2. Lowest(r \o <<x>> \o s) = IF s = << >> THEN x ELSE Lowest(s)
      BY <3>1, LowestFrame
    <3> QED
      BY <1>2, <2>1, <3>2 DEF r, x, s
  <2>4. /\ Tail(stack[p]) = << >> => Lowest(stack[p]) = Top(p)
        /\ Tail(stack[p]) # << >> => Lowest(Tail(stack[p])) = Lowest(stack[p])
    BY <1>1, LowestOfStack DEF Top
  <2>5. Rest(p, i).owner = Top(p).owner /\ Rest(p, i).type = Top(p).type
    BY <1>1 DEF Rest, GoodFrame, Frame
  <2> QED
    BY <1>1, <1>3, <2>3, <2>4, <2>5 DEF Run, LastIsProject
<1>14. begun'[p] \subseteq {v[1] : v \in Permitted(p)}
  BY DEF Run
<1>15. Permitted(p)' = Permitted(p)
  BY <1>3 DEF Permitted
<1> QED
  BY <1>3, <1>11, <1>12, <1>13, <1>14, <1>15 DEF Run

\* Between "ok" and the end of the process its project's conditions stay, when nobody
\* else runs.
LEMMA WrittenStays ==
  ASSUME TypeInv, ControlInv, Alone, NEW p \in Proc, Step(p) \/ Environment(p),
         project[p] # NoProject, outcome[p] # "none"
  PROVE  UNCHANGED generated
<1>1. pc[p] \notin {"idle", "clean", "run", "install", "alternate"}
  BY DEF ControlInv
<1>2. ~parseFile(p) /\ ~invalidFile(p)
  BY <1>1, ParsedKept, InvalidKept
<1>3. CASE extract(p)
  BY <1>3 DEF extract, openEntry, unlinkEntry, writeEntry, skipEntry, shared
<1>4. CASE flush(p) \/ writeCache(p) \/ writePart(p) \/ crash(p) \/ stackOverflow(p)
  BY <1>4 DEF flush, writeCache, writePart, crash, stackOverflow, shared, files
<1>5. /\ ~retrieve(p) /\ ~retrieveDependencies(p) /\ ~generateConditions(p)
      /\ ~noAlternate(p) /\ ~alreadyInstalled(p) /\ ~startInstall(p) /\ ~tryAlternate(p)
      /\ ~installFails(p) /\ ~removeEntry(p) /\ ~cleanDone(p) /\ ~cleanFails(p)
      /\ ~otherCommand(p) /\ ~clean(p)
  BY <1>1 DEF retrieve, retrieveDependencies, generateConditions, noAlternate,
     alreadyInstalled, startInstall, tryAlternate, installFails, removeEntry, cleanDone,
     cleanFails, otherCommand, clean, Visiting
<1>6. ~addArtefactRemote(p)
  BY <1>1, Zenon DEF addArtefactRemote
<1>7. ~installSucceeds(p)
  BY <1>1 DEF installSucceeds, Installing
<1> QED
  BY <1>2, <1>3, <1>4, <1>5, <1>6, <1>7 DEF Step, Environment

\* Every step keeps the frames to what the run may visit, and records it.
LEMMA RunInvStep ==
  ASSUME TypeInv, ControlInv, ProjectInv, DiskInv, RunInv, [Next]_vars
  PROVE  RunInv'
<1>1. CASE UNCHANGED vars
  <2> SUFFICES ASSUME NEW q \in Proc PROVE Run(q)'
    BY DEF RunInv
  <2>1. /\ project'[q] = project[q] /\ opts'[q] = opts[q] /\ outcome'[q] = outcome[q]
        /\ begun'[q] = begun[q] /\ stack'[q] = stack[q] /\ generated' = generated
    BY <1>1 DEF vars, shared, local, history
  <2>2. Run(q)
    BY DEF RunInv
  <2> QED
    BY <2>1, <2>2, ZenonT(60) DEF Run, Permitted, Allowed, Recorded, MayOrigin, LastIsProject, Written
<1>2. ASSUME NEW p \in Proc, Step(p) \/ Environment(p), NEW q \in Proc, q # p PROVE Run(q)'
  <2>1. /\ project'[q] = project[q] /\ opts'[q] = opts[q] /\ outcome'[q] = outcome[q]
        /\ begun'[q] = begun[q] /\ stack'[q] = stack[q]
    BY <1>2, OthersUntouched
  <2>2. Run(q) /\ ~Alone
    BY <1>2 DEF RunInv, Alone
  <2> QED
    BY <2>1, <2>2, ZenonT(60) DEF Run, Permitted, Allowed, Recorded, MayOrigin, LastIsProject
<1>3. ASSUME NEW p \in Proc, Step(p) \/ Environment(p) PROVE Run(p)'
  <2>types. /\ p \in DOMAIN outcome /\ p \in DOMAIN project /\ p \in DOMAIN stack
            /\ p \in DOMAIN opts /\ p \in DOMAIN begun
    BY DEF TypeInv, TypeOK
  <2>run. Run(p)
    BY DEF RunInv
  <2>same. ASSUME UNCHANGED <<command, stack, outcome, begun>>, UNCHANGED generated \/ outcome[p] # "ok"
           PROVE  Run(p)'
    <3>1. /\ project'[p] = project[p] /\ opts'[p] = opts[p] /\ outcome'[p] = outcome[p]
          /\ begun'[p] = begun[p] /\ stack'[p] = stack[p]
      BY <2>same DEF command
    <3> QED
      BY <3>1, <2>run, <2>same, ZenonT(60)
         DEF Run, Permitted, Allowed, Recorded, MayOrigin, LastIsProject, Written
  <2>empty. Range(<< >>) = {}
    <3>1. DOMAIN << >> = {}
      OBVIOUS
    <3> QED
      BY <3>1 DEF Range
  <2>stopped. ASSUME stack'[p] = << >>, UNCHANGED <<command, begun>>,
                     project[p] = NoProject \/ outcome'[p] = "failed"
              PROVE  Run(p)'
    <3>1. project'[p] = project[p] /\ opts'[p] = opts[p] /\ begun'[p] = begun[p]
      BY <2>stopped DEF command
    <3>2. Permitted(p)' = Permitted(p)
      BY <3>1 DEF Permitted
    <3> QED
      BY <3>1, <3>2, <2>run, <2>stopped, <2>empty DEF Run, LastIsProject
  <2>failed. ASSUME Stop(p, "failed"), UNCHANGED <<command, begun>> PROVE Run(p)'
    BY <2>failed, <2>stopped, <2>types DEF Stop
  <2>gone. ASSUME Gone(p) PROVE Run(p)'
    BY <2>gone, <2>types DEF Gone, Run
  <2>busy. pc[p] \in {"run", "install", "alternate"} => project[p] # NoProject /\ outcome[p] = "none"
    BY DEF ControlInv
  <2>top. ASSUME stack[p] # << >>
          PROVE  /\ Top(p) \in GoodFrame
                 /\ project[p] # NoProject => Allowed(p, Top(p)) /\ Recorded(p, Top(p))
    <3>1. stack[p] \in Seq(GoodFrame)
      BY DEF TypeInv
    <3>2. Top(p) \in GoodFrame /\ Top(p) \in Range(stack[p])
      BY <2>top, <3>1, StackParts DEF Top
    <3> QED
      BY <2>run, <3>2 DEF Run
  <2>1. CASE retrieve(p)
    <3>1. PICK pr \in Project, o \in Options :
            /\ project' = [project EXCEPT ![p] = pr]
            /\ opts' = [opts EXCEPT ![p] = o]
            /\ IF BaseFile("PACKAGE") \in disk[pr]
               THEN stack' = [stack EXCEPT ![p] = <<NewFrame(pr, "EXTRA_DEPS"),
                                                    NewFrame(pr, "PACKAGE")>>] /\ UNCHANGED outcome
               ELSE Stop(p, "failed")
      BY <2>1 DEF retrieve
    <3>2. begun'[p] = {} /\ outcome[p] = "none"
      BY <2>1, <2>run DEF retrieve, history, Run, ControlInv
    <3>3. project'[p] = pr /\ opts'[p] = o /\ pr # NoProject
      BY <3>1, <2>types, ConstantsAssumption
    <3>4. CASE Stop(p, "failed")
      BY <3>2, <3>3, <3>4, <2>empty, <2>types DEF Stop, Run, LastIsProject
    <3>5. CASE ~Stop(p, "failed")
      <4> DEFINE e == NewFrame(pr, "EXTRA_DEPS")
                 b == NewFrame(pr, "PACKAGE")
      <4>1. e.owner = pr /\ b.owner = pr /\ b.type = "PACKAGE"
        BY DEF NewFrame
      <4>2. (Allowed(p, e) /\ Recorded(p, e) /\ Allowed(p, b) /\ Recorded(p, b))'
        <5> DEFINE w == <<pr, "PACKAGE">>
        <5>1. w[1] = pr /\ "EXTRA_DEPS" \in ReadTypes(w[2]) /\ "PACKAGE" \in ReadTypes(w[2])
          BY DEF ReadTypes, FileType
        <5>2. w \in MayOrigin(p)'
          BY <3>3 DEF MayOrigin
        <5>3. /\ e.files = {} /\ e.todo = {} /\ e.conds = {} /\ ~e.opened /\ e.type = "EXTRA_DEPS"
              /\ b.files = {} /\ b.todo = {} /\ b.conds = {} /\ ~b.opened
          BY DEF NewFrame
        <5> HIDE DEF w, e, b
        <5> QED
          BY <4>1, <5>1, <5>2, <5>3 DEF Allowed, Recorded
      <4> HIDE DEF e, b
      <4>3. stack'[p] = <<e, b>> /\ outcome'[p] = "none"
        BY <3>1, <3>2, <3>5, <2>types DEF e, b
      <4>4. Lowest(<<e, b>>) = b /\ DOMAIN <<e, b>> = {1, 2} /\ <<e, b>>[1] = e /\ <<e, b>>[2] = b
        BY DEF Lowest
      <4>5. \A fr \in Range(stack'[p]) : fr = e \/ fr = b
        BY <4>3, <4>4 DEF Range
      <4>6. LastIsProject(p)'
        BY <3>3, <4>1, <4>3, <4>4 DEF LastIsProject
      <4>7. \A fr \in Range(stack'[p]) : (Allowed(p, fr) /\ Recorded(p, fr))'
        BY <4>2, <4>5
      <4> QED
        BY <3>2, <3>3, <4>3, <4>6, <4>7 DEF Run
    <3> QED
      BY <3>4, <3>5
  <2>2. CASE retrieveDependencies(p)
    <3> DEFINE x == [Top(p) EXCEPT !.opened = TRUE,
                       !.files = FilesOf(Top(p).type) \intersect disk[Top(p).owner]]
    <3>1. /\ stack[p] # << >> /\ stack' = [stack EXCEPT ![p][1] = x] /\ outcome[p] # "ok"
          /\ UNCHANGED <<command, outcome, begun>> /\ ~Top(p).opened
      BY <2>2, <2>busy DEF retrieveDependencies, history
    <3>2. /\ x \in GoodFrame
          /\ x.owner = Top(p).owner /\ x.type = Top(p).type /\ x.todo = Top(p).todo
          /\ x.files = FilesOf(Top(p).type) \intersect disk[Top(p).owner]
          /\ x.file = Top(p).file /\ x.conds = Top(p).conds /\ Top(p).owner \in Owner
      BY <3>1, <2>top DEF GoodFrame, Frame, FilesOf, FileName
    <3> HIDE DEF x
    <3>3. ASSUME project[p] # NoProject PROVE Allowed(p, x) /\ Recorded(p, x)
      <4>1. disk[Top(p).owner] \subseteq Archive[Top(p).owner]
        BY <3>2 DEF DiskInv
      <4>2. Top(p).owner = project[p] => Archive[Top(p).owner] \subseteq disk[Top(p).owner]
        BY <3>3 DEF ProjectInv, TypeInv, TypeOK
      <4>3. Allowed(p, Top(p))
        BY <2>top, <3>1, <3>3
      <4>4. Allowed(p, x)
        BY <3>2, <4>1, <4>3 DEF Allowed
      <4>5. Recorded(p, x)
        BY <3>2, <4>2 DEF Recorded
      <4> QED
        BY <4>4, <4>5
    <3> QED
      BY <3>1, <3>2, <3>3, <2>run, RunTop
  <2>3. CASE parseFile(p)
    <3>f. PICK f \in FileName : \E kept \in SUBSET DOMAIN Lists[Top(p).owner][f] :
            /\ AtFile(p, f)
            /\ Waits(p, f, kept)
            /\ \A i \in DOMAIN Lists[Top(p).owner][f] :
                 SwitchedOff(opts[p], Top(p).owner, Lists[Top(p).owner][f][i]) => i \notin kept
            /\ f \in disk[Top(p).owner] /\ <<Top(p).owner, f>> \notin cut =>
                 \A i \in DOMAIN Lists[Top(p).owner][f] :
                   Mandatory(opts[p], Top(p).owner, Lists[Top(p).owner][f][i]) => i \in kept
      BY <2>3, ParsedLines, Zenon
    <3>k. PICK kept \in SUBSET DOMAIN Lists[Top(p).owner][f] :
            /\ AtFile(p, f)
            /\ Waits(p, f, kept)
            /\ \A i \in DOMAIN Lists[Top(p).owner][f] :
                 SwitchedOff(opts[p], Top(p).owner, Lists[Top(p).owner][f][i]) => i \notin kept
            /\ f \in disk[Top(p).owner] /\ <<Top(p).owner, f>> \notin cut =>
                 \A i \in DOMAIN Lists[Top(p).owner][f] :
                   Mandatory(opts[p], Top(p).owner, Lists[Top(p).owner][f][i]) => i \in kept
      BY <3>f
    <3> DEFINE x == [Top(p) EXCEPT !.files = @ \ {f}, !.file = f, !.todo = kept]
    <3>1. /\ stack[p] # << >> /\ stack' = [stack EXCEPT ![p][1] = x] /\ outcome[p] # "ok"
          /\ UNCHANGED <<command, outcome, begun>>
          /\ Top(p).opened /\ Top(p).todo = {} /\ f \in Top(p).files
      BY <2>3, <2>busy, <3>k, ParsedKept DEF Waits, AtFile, history
    <3>2. /\ x.owner = Top(p).owner /\ x.type = Top(p).type /\ x.todo = kept
          /\ x.files = Top(p).files \ {f} /\ x.opened = Top(p).opened
          /\ x.file = f /\ x.conds = Top(p).conds /\ Top(p).owner \in Owner
      BY <3>1, <2>top DEF GoodFrame, Frame
    <3>3. x \in GoodFrame
      <4>1. Lists[Top(p).owner][f] \in Seq(Line)
        BY <3>2, ConstantsAssumption
      <4>2. DOMAIN Lists[Top(p).owner][f] \subseteq Nat
        BY <4>1, LenProperties
      <4> QED
        BY <3>1, <2>top, <4>2 DEF GoodFrame, Frame
    <3> HIDE DEF x
    <3>4. ASSUME project[p] # NoProject PROVE Allowed(p, x) /\ Recorded(p, x)
      <4>1. Allowed(p, Top(p)) /\ Recorded(p, Top(p))
        BY <2>top, <3>1, <3>4
      <4>2. Allowed(p, x)
        BY <3>k, <3>1, <3>2, <4>1 DEF Allowed
      <4>3. ASSUME x.owner = project[p]
            PROVE  \A i \in DOMAIN Lists[x.owner][f] :
                     Mandatory(opts[p], x.owner, Lists[x.owner][f][i]) => i \in kept
        <5>1. x.owner \in Project /\ x.owner \notin Dep
          BY <3>4, <4>3, ConstantsAssumption DEF TypeInv, TypeOK
        <5>2. f \in disk[x.owner]
          BY <3>1, <3>2, <4>1, <5>1 DEF Allowed, ProjectInv
        <5>3. <<x.owner, f>> \notin cut
          BY <5>1 DEF TypeInv, TypeOK
        <5> QED
          BY <3>k, <3>2, <5>2, <5>3
      <4>4. Recorded(p, x)
        BY <3>1, <3>2, <4>1, <4>3 DEF Recorded
      <4> QED
        BY <4>2, <4>4
    <3> QED
      BY <3>1, <3>2, <3>3, <3>4, <2>run, RunTop
  <2>4. CASE generateConditions(p)
    <3>1. /\ stack[p] # << >> /\ stack[p] \in Seq(GoodFrame)
          /\ project[p] # NoProject /\ outcome[p] = "none"
          /\ Top(p).opened /\ Top(p).todo = {} /\ Top(p).files = {}
          /\ generated' = [generated EXCEPT ![Top(p).owner] = Top(p).conds]
          /\ UNCHANGED <<command, begun>>
      BY <2>4, <2>busy DEF generateConditions, TypeInv, history
    <3>2. /\ Range(stack[p]) = {Top(p)} \union Range(Tail(stack[p]))
          /\ Len(stack[p]) = 1 => Tail(stack[p]) = << >>
          /\ Tail(stack[p]) \in Seq(GoodFrame)
      BY <3>1, StackParts DEF Top
    <3>3. /\ Tail(stack[p]) = << >> => Lowest(stack[p]) = Top(p)
          /\ Tail(stack[p]) # << >> => Lowest(Tail(stack[p])) = Lowest(stack[p])
      BY <3>1, LowestOfStack DEF Top
    <3>4. project'[p] = project[p] /\ opts'[p] = opts[p] /\ begun'[p] = begun[p]
      BY <3>1 DEF command
    <3>5. Permitted(p)' = Permitted(p)
      BY <3>4 DEF Permitted
    <3>6. CASE Len(stack[p]) = 1
      <4>1. stack'[p] = << >> /\ outcome'[p] = "ok"
        BY <2>4, <3>6, <2>types DEF generateConditions, Stop
      <4>2. Top(p).owner = project[p] /\ Top(p).type = "PACKAGE"
        BY <3>1, <3>2, <3>3, <3>6, <2>run DEF Run, LastIsProject
      <4>3. Allowed(p, Top(p)) /\ Recorded(p, Top(p))
        BY <2>top, <3>1
      <4>4. generated'[project[p]] = Top(p).conds
        <5>1. project[p] \in Owner
          BY <3>1 DEF TypeInv, TypeOK, Owner
        <5> QED
          BY <3>1, <4>2, <5>1 DEF TypeInv, TypeOK
      <4>5. \A c \in Top(p).conds : ~Disabled(opts[p], project[p], c)
        BY <4>2, <4>3 DEF Allowed
      <4>6. \A f \in PackageFiles \intersect Archive[project[p]] :
              \A i \in DOMAIN Lists[project[p]][f] :
                Mandatory(opts[p], project[p], Lists[project[p]][f][i]) =>
                  Lists[project[p]][f][i].conds \subseteq Top(p).conds
        BY <3>1, <4>2, <4>3 DEF Recorded, FilesOf
      <4>7. Written(p)'
        BY <3>4, <4>4, <4>5, <4>6 DEF Written, Disabled, Mandatory, Enabled
      <4> QED
        BY <3>4, <3>5, <4>1, <4>7, <2>run, <2>empty, <3>1 DEF Run, LastIsProject
    <3>7. CASE Len(stack[p]) # 1
      <4>1. stack'[p] = Tail(stack[p]) /\ outcome'[p] = "none"
        BY <2>4, <3>1, <3>7, <2>types DEF generateConditions
      <4>2. LastIsProject(p)'
        BY <3>1, <3>3, <3>4, <4>1, <2>run DEF Run, LastIsProject
      <4>3. \A fr \in Range(stack'[p]) : Allowed(p, fr) /\ Recorded(p, fr)
        BY <3>1, <3>2, <4>1, <2>run DEF Run
      <4>4. \A fr : (Allowed(p, fr) /\ Recorded(p, fr))' <=> Allowed(p, fr) /\ Recorded(p, fr)
        BY <3>4 DEF Allowed, Recorded, MayOrigin, Permitted
      <4> QED
        BY <3>1, <3>4, <3>5, <4>1, <4>2, <4>3, <4>4, <2>run DEF Run
    <3> QED
      BY <3>6, <3>7
  <2>5. CASE addArtefactRemote(p)
    <3>1. PICK i \in Left(p) :
            \/ stack' = [stack EXCEPT ![p][1] = Rest(p, i)] /\ UNCHANGED outcome
            \/ Stop(p, "failed")
      BY <2>5, Zenon DEF addArtefactRemote, Rest
    <3>2. UNCHANGED <<command, begun>> /\ outcome[p] # "ok"
      BY <2>5, <2>busy DEF addArtefactRemote, history
    <3>3. CASE ~Stop(p, "failed")
      <4>1. stack[p] # << >> /\ Rest(p, i) \in GoodFrame /\ Top(p) \in GoodFrame
        BY LineTypes, AfterLineFrames
      <4>2. Rest(p, i).owner = Top(p).owner /\ Rest(p, i).type = Top(p).type
        BY <4>1 DEF Rest, GoodFrame, Frame
      <4>3. project[p] # NoProject => Allowed(p, Rest(p, i)) /\ Recorded(p, Rest(p, i))
        BY <4>1, <2>top, RestAllowed
      <4> DEFINE x == Rest(p, i)
      <4>4. /\ x \in GoodFrame /\ stack' = [stack EXCEPT ![p][1] = x] /\ UNCHANGED outcome
            /\ x.owner = Top(p).owner /\ x.type = Top(p).type
            /\ project[p] # NoProject => Allowed(p, x) /\ Recorded(p, x)
        BY <3>1, <3>3, <4>1, <4>2, <4>3
      <4> HIDE DEF x
      <4> QED
        BY <3>2, <4>1, <4>4, <2>run, RunTop
    <3> QED
      BY <3>1, <3>2, <3>3, <2>failed
  <2>6. CASE alreadyInstalled(p) \/ installSucceeds(p)
    <3>1. PICK i \in Left(p) : GoPast(p, i)
      BY <2>6 DEF alreadyInstalled, installSucceeds
    <3>2. UNCHANGED <<command, outcome, begun>> /\ project[p] # NoProject /\ outcome[p] # "ok"
      BY <2>6, <2>busy DEF alreadyInstalled, installSucceeds, Visiting, Installing
    <3> QED
      BY <3>1, <3>2, <2>run, RunPast
  <2>7. CASE invalidFile(p) \/ noAlternate(p) \/ installFails(p) \/ cleanFails(p)
    BY <2>7, <2>failed DEF invalidFile, noAlternate, installFails, cleanFails, history
  <2>8. CASE extract(p) \/ tryAlternate(p) \/ removeEntry(p) \/ clean(p) \/ writePart(p)
    BY <2>8, <2>same DEF extract, openEntry, unlinkEntry, writeEntry, skipEntry,
       tryAlternate, removeEntry, clean, writePart, history, shared, files, local, command
  <2>12. CASE startInstall(p)
    <3>1. PICK i \in Left(p) :
            Visiting(p, i) /\ begun' = [begun EXCEPT ![p] = @ \union {LineAt(p, i).dep}]
      BY <2>12 DEF startInstall
    <3>2. UNCHANGED <<command, stack, outcome>> /\ project[p] # NoProject /\ outcome[p] = "none"
      BY <2>12, <2>busy, <3>1 DEF startInstall, Visiting
    <3>3. /\ project'[p] = project[p] /\ opts'[p] = opts[p] /\ outcome'[p] = outcome[p]
          /\ stack'[p] = stack[p]
      BY <3>2 DEF command
    <3>4. stack[p] # << >>
      BY LineTypes
    <3> DEFINE v == <<LineAt(p, i).dep, Top(p).type>>
    <3>5. v \in Permitted(p) /\ v[1] = LineAt(p, i).dep
      BY <2>top, <3>2, <3>4, VisitAllowed
    <3> HIDE DEF v
    <3>6. begun'[p] \subseteq {w[1] : w \in Permitted(p)}
      BY <2>types, <2>run, <3>1, <3>2, <3>5 DEF Run
    <3>7. LastIsProject(p)' /\ Permitted(p)' = Permitted(p)
      BY <2>run, <3>2, <3>3 DEF Run, LastIsProject, Permitted
    <3>8. \A fr \in Range(stack'[p]) : Allowed(p, fr) /\ Recorded(p, fr)
      BY <2>run, <3>2, <3>3 DEF Run
    <3>9. \A fr : (Allowed(p, fr) /\ Recorded(p, fr))' <=> Allowed(p, fr) /\ Recorded(p, fr)
      BY <3>3 DEF Allowed, Recorded, MayOrigin, Permitted
    <3> QED
      BY <3>2, <3>3, <3>6, <3>7, <3>8, <3>9 DEF Run
  <2>9. CASE stackOverflow(p) \/ writeCache(p) \/ crash(p)
    BY <2>9, <2>gone DEF stackOverflow, writeCache, crash
  <2>10. CASE flush(p)
    BY <2>10, <2>same, <2>gone DEF flush, history, files
  <2>11. CASE cleanDone(p) \/ otherCommand(p)
    <3>1. project[p] = NoProject /\ Stop(p, "ok") /\ UNCHANGED <<command, begun>>
      BY <2>11 DEF cleanDone, otherCommand, ControlInv, history
    <3> QED
      BY <3>1, <2>stopped, <2>types DEF Stop
  <2> QED
    BY <1>3, <2>1, <2>2, <2>3, <2>4, <2>5, <2>6, <2>7, <2>8, <2>9, <2>10, <2>11,
       <2>12
    DEF Step, Environment
<1>4. CASE Next
  <2>1. PICK p \in Proc : Step(p) \/ Environment(p)
    BY <1>4 DEF Next
  <2> QED
    BY <2>1, <1>2, <1>3 DEF RunInv
<1> QED
  BY <1>1, <1>4

\* Together with what it needs.
VisitInv == TypeInv /\ ControlInv /\ ProjectInv /\ DiskInv /\ RunInv

\* All that a run is at was reached from its own files.
LEMMA VisitInvHolds == Spec => []VisitInv
<1>1. Init => VisitInv
  <2> SUFFICES ASSUME Init PROVE VisitInv
    OBVIOUS
  <2>1. ControlInv /\ ProjectInv /\ DiskInv
    BY DEF Init, ControlInv, ProjectInv, DiskInv, Owner
  <2>2. RunInv
    BY DEF Init, RunInv, Run
  <2> QED
    BY <2>1, <2>2, TypeInvInit DEF VisitInv
<1>2. VisitInv /\ [Next]_vars => VisitInv'
  BY TypeInvStep, ControlInvStep, ProjectInvStep, DiskInvStep, RunInvStep DEF VisitInv
<1> QED
  BY <1>1, <1>2, PTL DEF Spec

\* Whatever other processes do and wherever a run stops, it has begun to install
\* nothing that only switched off lines lead to.
THEOREM SwitchedOffStaysOutAlways == Spec => []SwitchedOffStaysOut
<1>1. VisitInv => SwitchedOffStaysOut
  BY DEF VisitInv, RunInv, Run, SwitchedOffStaysOut
<1> QED
  BY <1>1, VisitInvHolds, PTL

\* When commands run one at a time, the conditions file of a project that was
\* installed holds the conditions of its enabled lines, and none that is off.
THEOREM ConditionsAreGenerated ==
  ASSUME Alone
  PROVE  Spec => []GeneratedConditions
<1>1. VisitInv => GeneratedConditions
  BY DEF VisitInv, RunInv, Run, Succeeded, Written, GeneratedConditions
<1> QED
  BY <1>1, VisitInvHolds, PTL

----------------------------------------------------------------------------
(* Extractions *)

\* Commands run one at a time, and none stops in the middle of an extraction, a clean
\* or a write of the cache.
Careful == ~Interruptible /\ Alone

\* The line that p is at is one for d.
IsAt(p, d) == \E i \in Left(p) : AtLine(p, i) /\ LineAt(p, i).dep = d

\* p installs d.
Unpacking(p, d) == pc[p] \in {"install", "alternate"} /\ IsAt(p, d)

\* What p has written, or left alone, of the package it unpacks is there, and cut only
\* where p is writing; unless p skips what it finds or others write it too.
Unzipped(p) ==
  \A d \in Dep : \A x \in seen[p] :
    (opts[p].force \/ Careful) /\ Unpacking(p, d) /\ d \notin disturbed[p] =>
      x \in disk[d] /\ (<<d, x>> \in cut => <<d, x>> \in open[p])

\* The state of the unzip that p runs, and of what p has begun.
Extraction(p) ==
  /\ disturbed[p] \subseteq begun[p]
  /\ project[p] = NoProject => begun[p] = {}
  /\ pc[p] \notin {"install", "alternate"} => seen[p] = {} /\ open[p] = {}
  /\ \A d \in Dep : Unpacking(p, d) => d \in begun[p]
  /\ \A e \in open[p] : Extracting(p, e[1]) /\ e[2] \in seen[p]
  /\ Careful => cut \subseteq open[p] /\ disturbed[p] = {}
  /\ Unzipped(p)

ExtractInv == \A p \in Proc : Extraction(p)

\* The line a file is at is the only one.
LEMMA OneLine ==
  ASSUME TypeInv, NEW p \in Proc, NEW i \in Left(p), AtLine(p, i), NEW j \in Left(p), AtLine(p, j)
  PROVE  i = j
<1>1. i \in Top(p).todo /\ j \in Top(p).todo /\ Top(p).todo \subseteq Nat
  BY LineTypes DEF GoodFrame, Frame
<1>2. i \in Nat /\ j \in Nat /\ i <= j /\ j <= i
  BY <1>1 DEF AtLine
<1> QED
  BY <1>2

\* So is the package that p unpacks.
LEMMA OnePackage ==
  ASSUME TypeInv, NEW p \in Proc, NEW d, IsAt(p, d), NEW e, IsAt(p, e)
  PROVE  d = e
BY OneLine DEF IsAt

LEMMA ExtractingPackage ==
  ASSUME TypeInv, NEW p \in Proc, NEW d, Extracting(p, d)
  PROVE  Unpacking(p, d)
BY DEF Extracting, Installing, Unpacking, IsAt

\* Whether p is at d, and unpacks it, depends on its own state only.
LEMMA SamePlace ==
  ASSUME NEW p \in Proc, pc'[p] = pc[p], stack'[p] = stack[p], opts'[p] = opts[p], NEW d
  PROVE  /\ IsAt(p, d)' = IsAt(p, d) /\ Unpacking(p, d)' = Unpacking(p, d)
         /\ Extracting(p, d)' = Extracting(p, d)
<1>1. Left(p)' = Left(p) /\ \A i : AtLine(p, i)' = AtLine(p, i) /\ LineAt(p, i)' = LineAt(p, i)
  BY DEF Left, AtLine, LineAt, FileLines, Top
<1>2. IsAt(p, d)' = IsAt(p, d)
  BY <1>1 DEF IsAt
<1>3. \A i, repo : Installing(p, i, repo)' = Installing(p, i, repo)
  BY <1>1 DEF Installing, FirstRepo, SecondRepo, Inverted
<1> QED
  BY <1>1, <1>2, <1>3 DEF Unpacking, Extracting

\* What its tool installs is not unpacked.
LEMMA ToolUnpacksNothing ==
  ASSUME TypeInv, NEW p \in Proc, Extraction(p), NEW i \in Left(p),
         NEW repo \in {"primary", "alternate"}, Installing(p, i, repo),
         ByTool(LineAt(p, i).dep, repo)
  PROVE  open[p] = {}
<1> SUFFICES ASSUME NEW e \in open[p] PROVE FALSE
  OBVIOUS
<1>1. PICK j \in Left(p), r \in {"primary", "alternate"} :
        Installing(p, j, r) /\ LineAt(p, j).dep = e[1] /\ ~ByTool(e[1], r)
  BY DEF Extraction, Extracting
<1>2. i = j
  BY <1>1, OneLine DEF Installing
<1>3. repo = r
  BY <1>1, <1>2 DEF Installing
<1> QED
  BY <1>1, <1>2, <1>3

\* A step of another process that changes what p has unpacked disturbs p.
LEMMA OthersExtraction ==
  ASSUME TypeInv, ControlInv, NEW p \in Proc, Step(p) \/ Environment(p),
         NEW q \in Proc, q # p, Extraction(q)
  PROVE  Extraction(q)'
<1>1. /\ pc'[q] = pc[q] /\ project'[q] = project[q] /\ opts'[q] = opts[q]
      /\ stack'[q] = stack[q] /\ begun'[q] = begun[q] /\ seen'[q] = seen[q]
      /\ open'[q] \subseteq open[q]
      /\ ~openEntry(p) /\ ~unlinkEntry(p) => open'[q] = open[q]
      /\ disturbed[q] \subseteq disturbed'[q]
      /\ disturbed'[q] \subseteq disturbed[q] \union begun[q]
  BY OthersUntouched
<1>2. \A d : Unpacking(q, d)' = Unpacking(q, d) /\ Extracting(q, d)' = Extracting(q, d)
  BY <1>1, SamePlace
<1>3. ~Careful
  BY DEF Careful, Alone
<1>4. ASSUME NEW d \in Dep, NEW x \in seen[q], opts[q].force, Unpacking(q, d),
             d \notin disturbed'[q]
      PROVE  x \in disk'[d] /\ (<<d, x>> \in cut' => <<d, x>> \in open'[q])
  <2>1. x \in disk[d] /\ (<<d, x>> \in cut => <<d, x>> \in open[q]) /\ d \in begun[q]
    BY <1>1, <1>4 DEF Extraction, Unzipped
  <2>2. CASE openEntry(p)
    <3>1. PICK e \in Dep : \E y \in Archive[e] \ seen[p] :
            /\ disk' = [disk EXCEPT ![e] = @ \union {y}]
            /\ cut' = cut \union {<<e, y>>}
            /\ open' = [r \in Proc |-> IF r = p THEN {<<e, y>>} ELSE open[r] \ {<<e, y>>}]
            /\ disturb(p, e)
      BY <2>2 DEF openEntry
    <3>2. e # d
      BY <1>4, <2>1, <3>1 DEF disturb
    <3> QED
      BY <2>1, <3>1, <3>2 DEF TypeInv, TypeOK
  <2>3. CASE unlinkEntry(p)
    <3>1. PICK e \in Dep : \E y \in disk[e] :
            /\ disk' = [disk EXCEPT ![e] = @ \ {y}]
            /\ cut' = cut \ {<<e, y>>}
            /\ open' = [r \in Proc |-> open[r] \ {<<e, y>>}]
            /\ disturb(p, e)
      BY <2>3 DEF unlinkEntry
    <3>2. e # d
      BY <1>4, <2>1, <3>1 DEF disturb
    <3> QED
      BY <2>1, <3>1, <3>2 DEF TypeInv, TypeOK
  <2>4. CASE writeEntry(p)
    <3>1. UNCHANGED disk /\ cut' \subseteq cut
      BY <2>4 DEF writeEntry
    <3>2. open'[q] = open[q]
      BY <2>4 DEF writeEntry, TypeInv, TypeOK
    <3> QED
      BY <2>1, <3>1, <3>2
  <2>5. CASE removeEntry(p)
    BY <1>4, <2>5 DEF removeEntry, ControlInv, Unpacking
  <2>6. CASE ~Unpacks(p) /\ ~removeEntry(p)
    BY <1>1, <2>1, <2>6, FoldersKept DEF Unpacks
  <2> QED
    BY <2>2, <2>3, <2>4, <2>5, <2>6 DEF Unpacks
<1>5. Unzipped(q)'
  BY <1>1, <1>2, <1>3, <1>4 DEF Unzipped
<1> QED
  BY <1>1, <1>2, <1>3, <1>5 DEF Extraction

\* The steps of p itself.
LEMMA OwnExtraction ==
  ASSUME TypeInv, ControlInv, NEW p \in Proc, Step(p) \/ Environment(p), Extraction(p)
  PROVE  Extraction(p)'
<1>types. /\ p \in DOMAIN pc /\ p \in DOMAIN project /\ p \in DOMAIN begun
          /\ p \in DOMAIN disturbed /\ p \in DOMAIN seen /\ p \in DOMAIN open
          /\ cut \subseteq Dep \X Part
  BY DEF TypeInv, TypeOK
<1>alone. Careful => \A q \in Proc : q = p
  BY DEF Careful, Alone
<1>quiet. ASSUME pc'[p] \notin {"install", "alternate"}, seen'[p] = {}, open'[p] = {},
                 disturbed'[p] \subseteq begun'[p],
                 project'[p] = NoProject => begun'[p] = {},
                 Careful => cut' = {} /\ disturbed'[p] = {}
          PROVE  Extraction(p)'
  BY <1>quiet DEF Extraction, Unzipped, Unpacking, Careful, Alone
<1>nocut. pc[p] \notin {"install", "alternate"} /\ Careful => cut = {}
  BY DEF Extraction
<1>over. ASSUME NEW i \in Left(p), AtLine(p, i), CanStop(LineAt(p, i).dep), Careful
         PROVE  cut = {}
  <2> SUFFICES ASSUME NEW c \in cut PROVE FALSE
    OBVIOUS
  <2>1. c \in open[p] /\ c \in Dep \X Part
    BY <1>over, <1>types DEF Extraction
  <2>2. IsAt(p, c[1])
    BY <2>1, ExtractingPackage DEF Extraction, Unpacking
  <2>3. c[1] = LineAt(p, i).dep
    BY <2>2, <1>over, OneLine DEF IsAt
  <2>4. c = <<c[1], c[2]>> /\ c[2] \in Part
    BY <2>1
  <2> QED
    BY <2>3, <2>4, <1>over DEF CanStop, Careful
<1>delivered. ASSUME NEW i \in Left(p), NEW repo \in {"primary", "alternate"},
                     Installing(p, i, repo), Delivered(p, LineAt(p, i).dep, repo), Careful
              PROVE  cut = {}
  BY <1>delivered, ToolUnpacksNothing DEF Delivered, Extraction
<1>stop. ASSUME NEW r, Stop(p, r), UNCHANGED history, Careful => cut' = {},
                project'[p] = NoProject => project[p] = NoProject
         PROVE  Extraction(p)'
  BY <1>stop, <1>quiet, <1>types DEF Stop, NoExtraction, history, Extraction
<1>gone. ASSUME Gone(p), Careful => cut' = {} PROVE Extraction(p)'
  BY <1>gone, <1>quiet, <1>types DEF Gone, NoExtraction
<1>past. ASSUME NEW i \in Left(p), GoPast(p, i), UNCHANGED <<project, begun, disturbed>>,
                Careful => cut' = {}
         PROVE  Extraction(p)'
  BY <1>past, <1>quiet, <1>types DEF GoPast, NoExtraction, Extraction
<1>idle. ASSUME pc[p] \notin {"install", "alternate"}, pc'[p] \notin {"install", "alternate"},
                UNCHANGED <<seen, open, begun, disturbed>>, Careful => cut' = {},
                project'[p] = NoProject => project[p] = NoProject
         PROVE  Extraction(p)'
  BY <1>idle, <1>quiet DEF Extraction
<1>unzip. ASSUME NEW d \in Dep, Extracting(p, d), UNCHANGED <<pc, stack, command, begun>>,
                 disturbed'[p] = disturbed[p],
                 \A e \in open'[p] : e[1] = d /\ e[2] \in seen'[p],
                 Careful => cut' \subseteq open'[p],
                 \A x \in seen'[p] :
                   (opts[p].force \/ Careful) /\ d \notin disturbed[p] =>
                     x \in disk'[d] /\ (<<d, x>> \in cut' => <<d, x>> \in open'[p])
          PROVE  Extraction(p)'
  <2>1. /\ pc'[p] = pc[p] /\ stack'[p] = stack[p] /\ opts'[p] = opts[p]
        /\ project'[p] = project[p] /\ begun'[p] = begun[p]
    BY <1>unzip DEF command
  <2>2. \A e : Unpacking(p, e)' = Unpacking(p, e) /\ Extracting(p, e)' = Extracting(p, e)
    BY <2>1, SamePlace
  <2>3. Unpacking(p, d) /\ pc[p] \in {"install", "alternate"}
    BY <1>unzip, ExtractingPackage DEF Unpacking
  <2>4. \A e \in Dep : Unpacking(p, e) => e = d
    BY <2>3, OnePackage DEF Unpacking
  <2>5. Unzipped(p)'
    BY <1>unzip, <2>1, <2>2, <2>4 DEF Unzipped, Careful, Alone
  <2> QED
    BY <1>unzip, <2>1, <2>2, <2>3, <2>5 DEF Extraction, Careful, Alone
<1>found. ASSUME NEW d \in Dep, Extracting(p, d), NEW x \in seen[p],
                 opts[p].force \/ Careful, d \notin disturbed[p]
          PROVE  x \in disk[d] /\ (<<d, x>> \in cut => <<d, x>> \in open[p])
  BY <1>found, ExtractingPackage DEF Extraction, Unzipped
<1>1. CASE openEntry(p)
  <2>1. PICK d \in Dep : \E x \in Archive[d] \ seen[p] :
          /\ Extracting(p, d) /\ open[p] = {}
          /\ disk' = [disk EXCEPT ![d] = @ \union {x}]
          /\ cut' = cut \union {<<d, x>>}
          /\ open' = [q \in Proc |-> IF q = p THEN {<<d, x>>} ELSE open[q] \ {<<d, x>>}]
          /\ seen' = [seen EXCEPT ![p] = @ \union {x}]
          /\ disturb(p, d)
    BY <1>1 DEF openEntry
  <2>2. PICK x \in Archive[d] \ seen[p] :
          /\ Extracting(p, d) /\ open[p] = {}
          /\ disk' = [disk EXCEPT ![d] = @ \union {x}]
          /\ cut' = cut \union {<<d, x>>}
          /\ open' = [q \in Proc |-> IF q = p THEN {<<d, x>>} ELSE open[q] \ {<<d, x>>}]
          /\ seen' = [seen EXCEPT ![p] = @ \union {x}]
          /\ disturb(p, d)
    BY <2>1
  <2>3. UNCHANGED <<pc, stack, command, begun>>
    BY <1>1 DEF openEntry
  <2>4. open'[p] = {<<d, x>>} /\ seen'[p] = seen[p] \union {x} /\ disturbed'[p] = disturbed[p]
    BY <2>2, <1>types DEF disturb
  <2>5. disk'[d] = disk[d] \union {x}
    BY <2>2 DEF TypeInv, TypeOK, Owner
  <2>6. Careful => cut' \subseteq open'[p]
    BY <2>2, <2>4 DEF Extraction
  <2> QED
    BY <2>2, <2>3, <2>4, <2>5, <2>6, <1>unzip, <1>found
<1>2. CASE unlinkEntry(p)
  <2>1. PICK d \in Dep : \E x \in disk[d] \ seen[p] :
          /\ Extracting(p, d) /\ open[p] = {}
          /\ disk' = [disk EXCEPT ![d] = @ \ {x}]
          /\ cut' = cut \ {<<d, x>>}
          /\ open' = [q \in Proc |-> open[q] \ {<<d, x>>}]
          /\ disturb(p, d)
    BY <1>2 DEF unlinkEntry
  <2>2. PICK x \in disk[d] \ seen[p] :
          /\ Extracting(p, d) /\ open[p] = {}
          /\ disk' = [disk EXCEPT ![d] = @ \ {x}]
          /\ cut' = cut \ {<<d, x>>}
          /\ open' = [q \in Proc |-> open[q] \ {<<d, x>>}]
          /\ disturb(p, d)
    BY <2>1
  <2>3. UNCHANGED <<pc, stack, command, begun, seen>>
    BY <1>2 DEF unlinkEntry
  <2>4. open'[p] = {} /\ disturbed'[p] = disturbed[p]
    BY <2>2, <1>types DEF disturb
  <2>5. disk'[d] = disk[d] \ {x}
    BY <2>2 DEF TypeInv, TypeOK, Owner
  <2>6. Careful => cut' \subseteq open'[p]
    BY <2>2, <2>4 DEF Extraction
  <2> QED
    BY <2>2, <2>3, <2>4, <2>5, <2>6, <1>unzip, <1>found
<1>3. CASE writeEntry(p)
  <2>1. PICK e \in open[p] : Extracting(p, e[1])
    BY <1>3 DEF writeEntry, Extraction
  <2>2. e[1] \in Dep
    BY DEF TypeInv, TypeOK
  <2>3. cut' = cut \ open[p] /\ open'[p] = {} /\ UNCHANGED <<disk, pc, stack, command, begun, seen>>
    BY <1>3, <1>types DEF writeEntry, history
  <2>4. disturbed'[p] = disturbed[p]
    BY <1>3 DEF writeEntry, history
  <2>5. Careful => cut' \subseteq open'[p]
    BY <2>3 DEF Extraction
  <2> QED
    BY <2>1, <2>2, <2>3, <2>4, <2>5, <1>unzip, <1>found
<1>4. CASE skipEntry(p)
  <2>1. PICK d \in Dep : \E x \in disk[d] :
          Extracting(p, d) /\ open[p] = {} /\ ~opts[p].force
            /\ seen' = [seen EXCEPT ![p] = @ \union {x}]
    BY <1>4 DEF skipEntry
  <2>2. PICK x \in disk[d] :
          Extracting(p, d) /\ open[p] = {} /\ ~opts[p].force
            /\ seen' = [seen EXCEPT ![p] = @ \union {x}]
    BY <2>1
  <2>3. UNCHANGED <<disk, cut, open, pc, stack, command, begun, disturbed>>
    BY <1>4 DEF skipEntry, shared, history
  <2>4. seen'[p] = seen[p] \union {x}
    BY <2>2, <1>types
  <2>5. Careful => cut = {}
    BY <2>2 DEF Extraction
  <2> QED
    BY <2>2, <2>3, <2>4, <2>5, <1>unzip, <1>found
<1>5. CASE startInstall(p)
  <2>1. PICK i \in Left(p) :
          /\ Visiting(p, i) /\ begun' = [begun EXCEPT ![p] = @ \union {LineAt(p, i).dep}]
    BY <1>5 DEF startInstall
  <2>2. UNCHANGED <<cut, project, stack, seen, open, disturbed>> /\ pc'[p] = "install"
    BY <1>5, <1>types DEF startInstall, shared, command, extraction
  <2>3. pc[p] = "run" /\ AtLine(p, i) /\ project[p] # NoProject
    BY <2>1 DEF Visiting, ControlInv
  <2>4. seen[p] = {} /\ open[p] = {} /\ begun'[p] = begun[p] \union {LineAt(p, i).dep}
    BY <2>1, <2>3, <1>types DEF Extraction
  <2>5. \A d : IsAt(p, d)' = IsAt(p, d)
    BY <2>2 DEF IsAt, Left, AtLine, LineAt, FileLines, Top
  <2>6. \A d \in Dep : Unpacking(p, d)' => d \in begun'[p]
    BY <2>3, <2>4, <2>5, OneLine DEF Unpacking, IsAt
  <2> QED
    BY <2>2, <2>3, <2>4, <2>6, <1>nocut DEF Extraction, Unzipped, Careful, Alone
<1>6. CASE tryAlternate(p)
  <2>1. PICK i \in Left(p) : AtLine(p, i) /\ CanStop(LineAt(p, i).dep)
    BY <1>6 DEF tryAlternate
  <2>2. /\ UNCHANGED <<cut, project, stack, begun, disturbed>> /\ pc[p] = "install"
        /\ pc'[p] = "alternate" /\ seen'[p] = {} /\ open'[p] = {}
    BY <1>6, <1>types DEF tryAlternate, NoExtraction, shared, command, history
  <2>3. \A d : Unpacking(p, d)' = Unpacking(p, d)
    BY <2>2 DEF Unpacking, IsAt, Left, AtLine, LineAt, FileLines, Top
  <2> QED
    BY <2>1, <2>2, <2>3, <1>over DEF Extraction, Unzipped, Careful, Alone
<1>7. CASE installSucceeds(p)
  <2>1. PICK i \in Left(p), repo \in {"primary", "alternate"} :
          Installing(p, i, repo) /\ Delivered(p, LineAt(p, i).dep, repo) /\ GoPast(p, i)
    BY <1>7 DEF installSucceeds
  <2>2. UNCHANGED <<cut, project, begun, disturbed>>
    BY <1>7 DEF installSucceeds, command
  <2> QED
    BY <2>1, <2>2, <1>delivered, <1>past
<1>8. CASE alreadyInstalled(p)
  <2>1. PICK i \in Left(p) : Visiting(p, i) /\ GoPast(p, i)
    BY <1>8 DEF alreadyInstalled
  <2>2. UNCHANGED <<cut, project, begun, disturbed>> /\ pc[p] = "run"
    BY <1>8, <2>1 DEF alreadyInstalled, shared, command, Visiting
  <2> QED
    BY <2>1, <2>2, <1>nocut, <1>past
<1>9. CASE installFails(p)
  <2>1. Careful => cut = {}
    BY <1>9, <1>over DEF installFails
  <2> QED
    BY <1>9, <2>1, <1>stop DEF installFails, shared, command
<1>10. CASE stackOverflow(p)
  <2>1. Careful => cut = {}
    BY <1>10, <1>nocut, <1>delivered DEF stackOverflow, Visiting
  <2> QED
    BY <1>10, <2>1, <1>gone DEF stackOverflow, shared
<1>11. CASE crash(p)
  <2>1. CASE pc[p] \in {"install", "alternate"}
    <3>1. ASSUME Careful PROVE cut = {}
      <4> SUFFICES ASSUME NEW c \in cut PROVE FALSE
        OBVIOUS
      <4>1. c \in open[p]
        BY <3>1 DEF Extraction
      <4>2. PICK i \in Left(p) : AtLine(p, i)
        BY <4>1 DEF Extraction, Extracting, Installing
      <4>3. CanStop(LineAt(p, i).dep)
        BY <1>11, <2>1, <4>2 DEF crash
      <4> QED
        BY <3>1, <4>2, <4>3, <1>over
    <3> QED
      BY <1>11, <3>1, <1>gone DEF crash, shared
  <2>2. CASE pc[p] \notin {"install", "alternate"}
    BY <1>11, <2>2, <1>nocut, <1>gone DEF crash, shared
  <2> QED
    BY <2>1, <2>2
<1>12. CASE retrieve(p)
  <2>1. /\ pc[p] = "idle" /\ UNCHANGED <<cut, begun, disturbed>> /\ project[p] = NoProject
        /\ pc'[p] \notin {"install", "alternate"}
        /\ UNCHANGED extraction \/ NoExtraction(p)
    BY <1>12, <1>types DEF retrieve, Stop, shared, history, ControlInv
  <2>2. seen'[p] = {} /\ open'[p] = {} /\ begun[p] = {} /\ disturbed[p] = {}
    BY <2>1, <1>types DEF extraction, NoExtraction, Extraction
  <2> QED
    BY <2>1, <2>2, <1>nocut, <1>quiet
<1>13. CASE generateConditions(p)
  <2>1. pc[p] = "run" /\ UNCHANGED <<cut, project, history>>
    BY <1>13 DEF generateConditions, command
  <2>2. CASE Stop(p, "ok")
    BY <2>1, <2>2, <1>nocut, <1>stop
  <2>3. CASE UNCHANGED <<pc, extraction>>
    BY <2>1, <2>3, <1>nocut, <1>idle DEF extraction, history
  <2> QED
    BY <1>13, <2>2, <2>3 DEF generateConditions
<1>14. CASE addArtefactRemote(p)
  <2>1. pc[p] = "run" /\ UNCHANGED <<cut, project, history>>
    BY <1>14 DEF addArtefactRemote, command
  <2>2. CASE Stop(p, "failed")
    BY <2>1, <2>2, <1>nocut, <1>stop
  <2>3. CASE UNCHANGED <<pc, extraction>>
    BY <2>1, <2>3, <1>nocut, <1>idle DEF extraction, history
  <2> QED
    BY <1>14, <2>2, <2>3 DEF addArtefactRemote
<1>15. CASE invalidFile(p) \/ noAlternate(p) \/ otherCommand(p) \/ cleanFails(p)
  <2>1. /\ pc[p] \notin {"install", "alternate"} /\ UNCHANGED <<cut, project, history>>
        /\ Stop(p, "ok") \/ Stop(p, "failed")
    BY <1>15, InvalidKept DEF noAlternate, otherCommand, cleanFails, shared, command
  <2> QED
    BY <2>1, <1>nocut, <1>stop
<1>16. CASE cleanDone(p)
  BY <1>16, <1>nocut, <1>stop DEF cleanDone, command
<1>17. CASE retrieveDependencies(p) \/ parseFile(p)
  <2>1. pc[p] = "run" /\ UNCHANGED <<cut, pc, project, extraction, history>>
    BY <1>17, ParsedKept DEF retrieveDependencies, shared, command
  <2> QED
    BY <2>1, <1>nocut, <1>idle DEF extraction, history
<1>18. CASE removeEntry(p)
  <2>1. pc[p] = "clean" /\ UNCHANGED local /\ cut' \subseteq cut
    BY <1>18 DEF removeEntry
  <2> QED
    BY <2>1, <1>nocut, <1>idle DEF local, command, extraction, history
<1>19. CASE clean(p)
  <2>1. pc[p] = "idle" /\ pc'[p] = "clean" /\ UNCHANGED <<cut, project, extraction, history>>
    BY <1>19, <1>types DEF clean, shared, command
  <2> QED
    BY <2>1, <1>nocut, <1>idle DEF extraction, history
<1>20. CASE flush(p)
  <2>1. pc[p] = "flush" /\ UNCHANGED cut
    BY <1>20 DEF flush, files
  <2>2. CASE Gone(p)
    BY <2>1, <2>2, <1>nocut, <1>gone
  <2>3. CASE ~Gone(p)
    <3>1. pc'[p] = "write" /\ UNCHANGED <<command, extraction, history>>
      BY <1>20, <2>3, <1>types DEF flush
    <3> QED
      BY <2>1, <3>1, <1>nocut, <1>idle DEF command, extraction, history
  <2> QED
    BY <2>2, <2>3
<1>21. CASE writeCache(p)
  BY <1>21, <1>nocut, <1>gone DEF writeCache, files
<1>22. CASE writePart(p)
  <2>1. pc[p] = "write" /\ UNCHANGED <<cut, local>>
    BY <1>22 DEF writePart, files
  <2> QED
    BY <2>1, <1>nocut, <1>idle DEF local, command, extraction, history
<1> QED
  BY <1>1, <1>2, <1>3, <1>4, <1>5, <1>6, <1>7, <1>8, <1>9, <1>10, <1>11, <1>12, <1>13,
     <1>14, <1>15, <1>16, <1>17, <1>18, <1>19, <1>20, <1>21, <1>22
  DEF Step, Environment, extract

\* Every step keeps the unzips in accord with the folders.
LEMMA ExtractInvStep ==
  ASSUME TypeInv, ControlInv, ExtractInv, [Next]_vars
  PROVE  ExtractInv'
<1>1. CASE UNCHANGED vars
  <2> SUFFICES ASSUME NEW p \in Proc PROVE Extraction(p)'
    BY DEF ExtractInv
  <2>1. UNCHANGED <<disk, cut, pc, project, opts, stack, seen, open, begun, disturbed>>
    BY <1>1 DEF vars, shared, local, command, extraction, history
  <2>2. \A d : Unpacking(p, d)' = Unpacking(p, d) /\ Extracting(p, d)' = Extracting(p, d)
    BY <2>1, SamePlace
  <2>3. Extraction(p)
    BY DEF ExtractInv
  <2>4. Unzipped(p)'
    BY <2>1, <2>2, <2>3 DEF Extraction, Unzipped, Careful, Alone
  <2> QED
    BY <2>1, <2>2, <2>3, <2>4 DEF Extraction, Careful, Alone
<1>2. CASE Next
  <2>1. PICK p \in Proc : Step(p) \/ Environment(p)
    BY <1>2 DEF Next
  <2> QED
    BY <2>1, OwnExtraction, OthersExtraction DEF ExtractInv
<1> QED
  BY <1>1, <1>2

\* When unzip has come to the end of an archive, the package is complete, unless what
\* was found there was left alone, or others disturbed it.
LEMMA UnzippedIsComplete ==
  ASSUME TypeInv, NEW p \in Proc, Extraction(p), NEW d \in Dep, NEW repo,
         Delivered(p, d, repo), ~ByTool(d, repo), Unpacking(p, d),
         opts[p].force \/ Careful, d \notin disturbed[p]
  PROVE  Unpacked(d)
<1>1. Archive[d] # {} /\ seen[p] = Archive[d] /\ open[p] = {}
  BY DEF Delivered
<1>2. \A x \in Archive[d] : x \in disk[d] /\ <<d, x>> \notin cut
  BY <1>1 DEF Extraction, Unzipped
<1> QED
  BY <1>1, <1>2 DEF Unpacked

----------------------------------------------------------------------------
(* One process that nothing interrupts *)

\* Folder d is not there, or complete.
Whole(d) == disk[d] \in {{}, Archive[d]} /\ \A x \in Part : <<d, x>> \notin cut

\* Only the package that is being unpacked is half there, or those that a clean
\* removes; a tool unpacks nothing.
WholeInv ==
  \A p \in Proc, d \in Dep :
    /\ pc[p] \notin {"install", "alternate", "clean"} => Whole(d)
    /\ pc[p] \in {"install", "alternate"} /\ ~IsAt(p, d) => Whole(d)
    /\ pc[p] = "install" /\ Type[d] # "REMAKEN" => Whole(d)

\* When the package p is at is whole, all are.
LEMMA AllWhole ==
  ASSUME TypeInv, WholeInv, NEW p \in Proc, pc[p] \in {"install", "alternate"},
         NEW i \in Left(p), AtLine(p, i), Whole(LineAt(p, i).dep)
  PROVE  \A d \in Dep : Whole(d)
<1> SUFFICES ASSUME NEW d \in Dep PROVE Whole(d)
  OBVIOUS
<1>1. CASE IsAt(p, d)
  <2>1. PICK j \in Left(p) : AtLine(p, j) /\ LineAt(p, j).dep = d
    BY <1>1 DEF IsAt
  <2>2. j = i
    BY <2>1, OneLine
  <2> QED
    BY <2>1, <2>2
<1> QED
  BY <1>1 DEF WholeInv

\* The same when its installation is over.
LEMMA WholeWhenInstalled ==
  ASSUME Careful, TypeInv, DiskInv, WholeInv, NEW p \in Proc, Extraction(p), NEW i \in Left(p),
         NEW repo \in {"primary", "alternate"}, Installing(p, i, repo),
         Delivered(p, LineAt(p, i).dep, repo)
  PROVE  \A d \in Dep : Whole(d)
<1>1. PICK d \in Dep : d = LineAt(p, i).dep
  BY LineTypes DEF Line
<1>2. AtLine(p, i) /\ pc[p] \in {"install", "alternate"}
  BY DEF Installing
<1>3. Unpacking(p, d)
  BY <1>1, <1>2 DEF Unpacking, IsAt
<1>4. Whole(d)
  <2>1. CASE ~ByTool(d, repo)
    <3>1. Unpacked(d) /\ open[p] = {}
      BY <1>1, <1>3, <2>1, UnzippedIsComplete DEF Extraction, Delivered
    <3>2. cut = {}
      BY <3>1 DEF Extraction
    <3> QED
      BY <3>1, <3>2 DEF Unpacked, Whole, DiskInv, Owner
  <2>2. CASE ByTool(d, repo)
    <3>1. Type[d] # "REMAKEN" /\ repo = "primary" /\ ~Inverted(p, d)
      BY <2>2 DEF ByTool, Inverted
    <3>2. pc[p] = "install"
      BY <1>1, <3>1 DEF Installing, SecondRepo
    <3> QED
      BY <3>1, <3>2 DEF WholeInv
  <2> QED
    BY <2>1, <2>2
<1> QED
  BY <1>1, <1>2, <1>4, AllWhole

\* Without interruption every package is whole or absent, outside of its extraction.
LEMMA WholeInvStep ==
  ASSUME Careful, TypeInv, DiskInv, ExtractInv, WholeInv, [Next]_vars
  PROVE  WholeInv'
<1>1. CASE UNCHANGED vars
  BY <1>1 DEF WholeInv, Whole, IsAt, AtLine, Left, LineAt, FileLines, Top, vars, shared, local
<1> SUFFICES ASSUME Next PROVE WholeInv'
  BY <1>1
<1> PICK p \in Proc : Step(p) \/ Environment(p)
  BY DEF Next
<1>types. p \in DOMAIN pc
  BY DEF TypeInv, TypeOK
<1>all. ASSUME \A d \in Dep : Whole(d)' PROVE WholeInv'
  BY <1>all DEF WholeInv
<1>kept. ASSUME \A d \in Dep : Whole(d), UNCHANGED <<disk, cut>> PROVE WholeInv'
  BY <1>kept, <1>all DEF Whole
<1>rest. pc[p] \notin {"install", "alternate", "clean"} => \A d \in Dep : Whole(d)
  BY DEF WholeInv
<1>stop. ASSUME NEW i \in Left(p), AtLine(p, i), CanStop(LineAt(p, i).dep),
                pc[p] \in {"install", "alternate"}, UNCHANGED <<disk, cut>>
         PROVE  WholeInv'
  <2>1. Whole(LineAt(p, i).dep)
    BY <1>stop DEF Careful, CanStop, Whole
  <2> QED
    BY <2>1, <1>stop, <1>kept, AllWhole
<1> USE DEF shared, files
<1>own. Extraction(p) /\ \A q \in Proc : q = p
  BY DEF ExtractInv, Careful, Alone
<1>same. ASSUME UNCHANGED <<pc, stack>>, NEW d \in Dep, Extracting(p, d),
                \A e \in Dep \ {d} : Whole(e) => Whole(e)'
         PROVE  WholeInv'
  <2>1. \A e \in Dep : IsAt(p, e)' = IsAt(p, e)
    BY <1>same DEF IsAt, AtLine, Left, LineAt, FileLines, Top
  <2>2. Unpacking(p, d)
    BY <1>same, ExtractingPackage
  <2>3. pc[p] = "install" => Type[d] = "REMAKEN"
    BY <1>same DEF Extracting, Installing, FirstRepo, Inverted, ByTool
  <2> QED
    BY <1>same, <1>own, <2>1, <2>2, <2>3 DEF WholeInv, Unpacking
<1>2. CASE openEntry(p)
  <2>1. PICK d \in Dep : \E x \in Archive[d] \ seen[p] :
          /\ Extracting(p, d)
          /\ disk' = [disk EXCEPT ![d] = @ \union {x}]
          /\ cut' = cut \union {<<d, x>>}
    BY <1>2 DEF openEntry
  <2>2. \A e \in Dep \ {d} : Whole(e) => Whole(e)'
    BY <2>1 DEF Whole
  <2>3. UNCHANGED <<pc, stack>>
    BY <1>2 DEF openEntry
  <2> QED
    BY <2>1, <2>2, <2>3, <1>same
<1>11. CASE unlinkEntry(p)
  <2>1. PICK d \in Dep : \E x \in disk[d] :
          /\ Extracting(p, d)
          /\ disk' = [disk EXCEPT ![d] = @ \ {x}]
          /\ cut' = cut \ {<<d, x>>}
    BY <1>11 DEF unlinkEntry
  <2>2. \A e \in Dep \ {d} : Whole(e) => Whole(e)'
    BY <2>1 DEF Whole
  <2>3. UNCHANGED <<pc, stack>>
    BY <1>11 DEF unlinkEntry
  <2> QED
    BY <2>1, <2>2, <2>3, <1>same
<1>12. CASE writeEntry(p) \/ skipEntry(p)
  <2>1. UNCHANGED <<disk, pc, stack>> /\ cut' \subseteq cut
    BY <1>12 DEF writeEntry, skipEntry
  <2>2. \A e \in Dep : IsAt(p, e)' = IsAt(p, e)
    BY <2>1 DEF IsAt, AtLine, Left, LineAt, FileLines, Top
  <2>3. \A e \in Dep : Whole(e) => Whole(e)'
    BY <2>1 DEF Whole
  <2> QED
    BY <2>1, <2>2, <2>3, <1>own DEF WholeInv
<1>3. CASE installSucceeds(p)
  <2>1. \A d \in Dep : Whole(d)
    BY <1>3, <1>own, WholeWhenInstalled DEF installSucceeds
  <2> QED
    BY <1>3, <2>1, <1>kept DEF installSucceeds
<1>4. CASE stackOverflow(p)
  <2>1. \A d \in Dep : Whole(d)
    BY <1>4, <1>own, <1>rest, WholeWhenInstalled DEF stackOverflow, Visiting
  <2> QED
    BY <1>4, <2>1, <1>kept DEF stackOverflow
<1>5. CASE tryAlternate(p) \/ installFails(p)
  BY <1>5, <1>stop DEF tryAlternate, installFails
<1>6. CASE crash(p)
  <2>1. CASE pc[p] \in {"install", "alternate"}
    <3>1. \A d \in Dep : Whole(d)
      <4> SUFFICES ASSUME NEW d \in Dep PROVE Whole(d)
        OBVIOUS
      <4>1. CASE IsAt(p, d)
        BY <1>6, <2>1, <4>1 DEF crash, IsAt, CanStop, Careful, Whole
      <4> QED
        BY <2>1, <4>1 DEF WholeInv
    <3> QED
      BY <1>6, <3>1, <1>kept DEF crash
  <2>2. CASE pc[p] \notin {"install", "alternate"}
    BY <1>6, <2>2, <1>rest, <1>kept DEF crash, Careful
  <2> QED
    BY <2>1, <2>2
<1>7. CASE removeEntry(p)
  <2>1. pc[p] = "clean" /\ UNCHANGED pc
    BY <1>7 DEF removeEntry, local
  <2>2. \A q \in Proc : q = p
    BY DEF Careful, Alone
  <2> QED
    BY <2>1, <2>2 DEF WholeInv
<1>8. CASE cleanDone(p)
  <2>1. cut = {}
    BY <1>8, <1>own DEF cleanDone, Extraction
  <2> QED
    BY <1>8, <2>1, <1>kept DEF cleanDone, Whole
<1>9. CASE cleanFails(p)
  BY <1>9 DEF cleanFails, Careful
<1>10. CASE \/ retrieve(p) \/ retrieveDependencies(p) \/ parseFile(p) \/ invalidFile(p)
            \/ generateConditions(p) \/ addArtefactRemote(p) \/ noAlternate(p)
            \/ alreadyInstalled(p) \/ startInstall(p) \/ flush(p) \/ writeCache(p)
            \/ otherCommand(p) \/ clean(p) \/ writePart(p)
  <2>1. UNCHANGED <<disk, cut>>
    <3>1. CASE parseFile(p) \/ invalidFile(p)
      BY <3>1, ParsedKept, InvalidKept
    <3>2. CASE retrieve(p) \/ retrieveDependencies(p) \/ noAlternate(p) \/ otherCommand(p) \/ clean(p)
      BY <3>2 DEF retrieve, retrieveDependencies, noAlternate, otherCommand, clean
    <3>3. CASE generateConditions(p) \/ flush(p) \/ writeCache(p) \/ writePart(p)
      BY <3>3 DEF generateConditions, flush, writeCache, writePart
    <3>4. CASE addArtefactRemote(p)
      BY <3>4, Zenon DEF addArtefactRemote
    <3>5. CASE alreadyInstalled(p) \/ startInstall(p)
      BY <3>5, Zenon DEF alreadyInstalled, startInstall
    <3> QED
      BY <1>10, <3>1, <3>2, <3>3, <3>4, <3>5
  <2>2. pc[p] \in {"idle", "run", "flush", "write"}
    <3>1. CASE clean(p)
      BY <3>1 DEF clean
    <3>2. CASE parseFile(p) \/ invalidFile(p) \/ retrieve(p) \/ retrieveDependencies(p)
               \/ noAlternate(p) \/ otherCommand(p)
      BY <3>2, ParsedKept, InvalidKept DEF retrieve, retrieveDependencies, noAlternate, otherCommand
    <3>3. CASE generateConditions(p) \/ flush(p) \/ writeCache(p) \/ writePart(p)
      BY <3>3 DEF generateConditions, flush, writeCache, writePart
    <3>4. CASE addArtefactRemote(p)
      BY <3>4, Zenon DEF addArtefactRemote
    <3>5. CASE alreadyInstalled(p) \/ startInstall(p)
      BY <3>5, Zenon DEF alreadyInstalled, startInstall, Visiting
    <3> QED
      BY <1>10, <3>1, <3>2, <3>3, <3>4, <3>5
  <2> QED
    BY <2>1, <2>2, <1>rest, <1>kept
<1> QED
  BY <1>2, <1>3, <1>4, <1>5, <1>6, <1>7, <1>8, <1>9, <1>10, <1>11, <1>12
  DEF Step, Environment, extract

\* Then, what need not be installed is installed.
LEMMA NothingToInstall ==
  ASSUME Careful, TypeInv, CacheInv, WholeInv, NEW p \in Proc, pc[p] = "run",
         NEW d \in Dep, ~installDep(p, d, <<d, FirstRepo(p, d)>>)
  PROVE  Installed(d)
<1>1. CASE Type[d] = "SYSTEM"
  <2>1. FirstRepo(p, d) = "primary"
    BY <1>1 DEF FirstRepo, Inverted
  <2>2. <<d, "primary">> \in load(mem[p], cacheFile).urls
    BY <1>1, <2>1 DEF installDep, contains
  <2>3. <<d, "primary">> \in mem[p].urls \union cacheFile.urls
    BY <2>2 DEF load
  <2>4. Origins(<<d, "primary">>) = {<<d, "primary">>}
    BY DEF Careful, Origins
  <2> QED
    BY <1>1, <2>3, <2>4 DEF CacheInv, Sound, Installed
<1>2. CASE Type[d] # "SYSTEM"
  <2>1. disk[d] # {}
    BY <1>2 DEF installDep, LibOrBinMissing, WithLib
  <2>2. Whole(d)
    BY DEF WholeInv
  <2>3. Archive[d] \subseteq Part
    BY ConstantsAssumption DEF Owner
  <2> QED
    BY <2>1, <2>2, <2>3 DEF Whole, Installed, Unpacked
<1> QED
  BY <1>1, <1>2

----------------------------------------------------------------------------
(* The inductive invariant of forced runs *)

\* p runs, or just ended well, an install that leaves what it visits complete: it
\* installs everything undisturbed, or what it finds is complete.
Forcing(p) ==
  /\ project[p] # NoProject /\ (opts[p].force \/ Careful) /\ ~opts[p].remoteOnly
  /\ outcome[p] # "failed" /\ disturbed[p] = {}

\* d is complete, or p is installing it again; p sees when others do.
Ready(p, d) ==
  /\ Installed(d) \/ Unpacking(p, d)
  /\ Careful \/ d \in begun[p]

\* Frame fr will still visit line i of file f, of type t, of folder o.
Covers(fr, o, t, f, i) ==
  /\ fr.owner = o /\ fr.type = t
  /\ \/ ~fr.opened
     \/ f \in fr.files
     \/ fr.file = f /\ i \in fr.todo

\* The folders whose dependency files p reads, with the type they are read as.
Origin(p) ==
  {<<project[p], "PACKAGE">>} \union {w \in done[p] : Type[w[1]] = "REMAKEN"}

\* A mandatory line of an origin w asks for v ...
Demand(p, w, f, i, v) ==
  /\ Leads(w[1], w[2], f, i, v)
  /\ Mandatory(opts[p], w[1], Lists[w[1]][f][i])

\* ... and it is done or a frame on the stack will still come to it.
ToCome(p, o, f, i, v) == \E fr \in Range(stack[p]) : Covers(fr, o, v[2], f, i)

\* From each visit of H a package goes on to one of H: no recursion that comes to H
\* ends.
Endless(op, H) ==
  \A v \in H : v \in Recursive /\ \E u \in H : Needs(op, v[1], v[2], u)

ForcedRun(p) ==
  Forcing(p) =>
    /\ \A v \in done[p] : Ready(p, v[1])
    /\ \A w \in Origin(p), v \in Visit, f \in FileName :
         \A i \in DOMAIN Lists[w[1]][f] :
           Demand(p, w, f, i, v) => v \in done[p] \/ ToCome(p, w[1], f, i, v)
    /\ \A H \in SUBSET Visit :
         Endless(opts[p], H) /\ (\E u \in H : Needs(opts[p], project[p], "PACKAGE", u)) =>
           \E w \in Origin(p), v \in H, f \in FileName : \E i \in DOMAIN Lists[w[1]][f] :
             Demand(p, w, f, i, v) /\ ToCome(p, w[1], f, i, v)

ForcedInv == \A p \in Proc : ForcedRun(p)

CarefulInv == Careful => WholeInv

IInv ==
  /\ TypeInv /\ ControlInv /\ ProjectInv /\ DiskInv /\ CacheInv
  /\ ExtractInv /\ CarefulInv /\ ForcedInv

----------------------------------------------------------------------------
(* Forced runs *)

\* While q runs an install, what is installed stays so, unless q unpacks it again, or
\* somebody else does and disturbs q.
LEMMA InstalledStays ==
  ASSUME TypeInv, ControlInv, NEW p \in Proc, Step(p) \/ Environment(p),
         NEW q \in Proc, project[q] # NoProject,
         NEW d \in Dep, Installed(d),
         p = q \/ (d \in begun[q] /\ d \notin disturbed'[q])
  PROVE  Installed(d)' \/ (p = q /\ Extracting(q, d) /\ UNCHANGED <<pc, stack, opts>>)
<1>1. pc[p] # "clean"
  BY DEF ControlInv
<1>2. disk \in [Owner -> SUBSET Part] /\ d \in Owner /\ system \subseteq system'
  BY FoldersGrow DEF TypeInv, TypeOK, Owner
<1>3. CASE openEntry(p)
  <2>1. PICK e \in Dep : \E x \in Archive[e] \ seen[p] :
          /\ Extracting(p, e)
          /\ disk' = [disk EXCEPT ![e] = @ \union {x}]
          /\ cut' = cut \union {<<e, x>>}
          /\ disturb(p, e)
    BY <1>3 DEF openEntry
  <2>2. CASE e # d
    BY <1>2, <2>1, <2>2 DEF Installed, Unpacked
  <2>3. CASE e = d
    <3>1. p = q
      BY <2>1, <2>3 DEF disturb
    <3>2. UNCHANGED <<pc, stack, opts>>
      BY <1>3 DEF openEntry, command
    <3> QED
      BY <2>1, <2>3, <3>1, <3>2
  <2> QED
    BY <2>2, <2>3
<1>4. CASE unlinkEntry(p)
  <2>1. PICK e \in Dep : \E x \in disk[e] :
          /\ Extracting(p, e)
          /\ disk' = [disk EXCEPT ![e] = @ \ {x}]
          /\ cut' = cut \ {<<e, x>>}
          /\ disturb(p, e)
    BY <1>4 DEF unlinkEntry
  <2>2. CASE e # d
    BY <1>2, <2>1, <2>2 DEF Installed, Unpacked
  <2>3. CASE e = d
    <3>1. p = q
      BY <2>1, <2>3 DEF disturb
    <3>2. UNCHANGED <<pc, stack, opts>>
      BY <1>4 DEF unlinkEntry, command
    <3> QED
      BY <2>1, <2>3, <3>1, <3>2
  <2> QED
    BY <2>2, <2>3
<1>5. CASE writeEntry(p)
  BY <1>5 DEF writeEntry, Installed, Unpacked
<1>6. CASE removeEntry(p)
  BY <1>1, <1>6 DEF removeEntry
<1>7. CASE ~Unpacks(p) /\ ~removeEntry(p)
  BY <1>2, <1>7, FoldersKept DEF Installed, Unpacked
<1> QED
  BY <1>3, <1>4, <1>5, <1>6, <1>7 DEF Unpacks

\* So what is ready stays so while q goes on undisturbed.
LEMMA ReadyStays ==
  ASSUME TypeInv, ControlInv, NEW p \in Proc, Step(p) \/ Environment(p),
         NEW q \in Proc, project[q] # NoProject,
         NEW d \in Dep, Ready(q, d), disturbed'[q] = {}, begun[q] \subseteq begun'[q],
         Unpacking(q, d) => Unpacking(q, d)'
  PROVE  Ready(q, d)'
<1>1. (Careful \/ d \in begun[q])'
  BY DEF Ready, Careful, Alone
<1>2. CASE Unpacking(q, d)
  BY <1>1, <1>2 DEF Ready
<1>3. CASE Installed(d)
  <2>1. p = q \/ d \in begun[q]
    BY DEF Ready, Careful, Alone
  <2>2. Installed(d)' \/ Extracting(q, d)
    BY <1>3, <2>1, InstalledStays
  <2>3. Extracting(q, d) => Unpacking(q, d)
    BY ExtractingPackage
  <2> QED
    BY <1>1, <2>2, <2>3 DEF Ready
<1> QED
  BY <1>2, <1>3 DEF Ready

\* A step that keeps what q has done and what it will come to.
LEMMA ForcedRunKept ==
  ASSUME TypeInv, ControlInv, NEW p \in Proc, Step(p) \/ Environment(p), NEW q \in Proc,
         ForcedRun(q),
         project'[q] = project[q], opts'[q] = opts[q], done'[q] = done[q],
         outcome[q] # "failed" \/ outcome'[q] = outcome[q],
         begun[q] \subseteq begun'[q], disturbed[q] \subseteq disturbed'[q],
         \A d \in Dep : Unpacking(q, d) => Unpacking(q, d)',
         \A w \in Origin(q), v \in Visit, f \in FileName :
           \A i \in DOMAIN Lists[w[1]][f] :
             /\ Demand(q, w, f, i, v)
             /\ ToCome(q, w[1], f, i, v)
             => ToCome(q, w[1], f, i, v)'
  PROVE  ForcedRun(q)'
<1> SUFFICES ASSUME Forcing(q)'
             PROVE  /\ \A v \in done'[q] : Ready(q, v[1])'
                    /\ \A w \in Origin(q)', v \in Visit, f \in FileName :
                         \A i \in DOMAIN Lists[w[1]][f] :
                           Demand(q, w, f, i, v)' =>
                             v \in done'[q] \/ ToCome(q, w[1], f, i, v)'
                    /\ \A H \in SUBSET Visit :
                         /\ Endless(opts'[q], H)
                         /\ \E u \in H : Needs(opts'[q], project'[q], "PACKAGE", u)
                         => \E w \in Origin(q)', v \in H, f \in FileName :
                              \E i \in DOMAIN Lists[w[1]][f] :
                                Demand(q, w, f, i, v)' /\ ToCome(q, w[1], f, i, v)'
  BY DEF ForcedRun
<1>1. Forcing(q) /\ disturbed'[q] = {}
  BY DEF Forcing, Careful, Alone
<1>2. ASSUME NEW v \in done'[q] PROVE Ready(q, v[1])'
  <2>1. v \in done[q] /\ v[1] \in Dep
    BY DEF TypeInv, TypeOK
  <2>2. Ready(q, v[1])
    BY <1>1, <2>1 DEF ForcedRun
  <2>3. project[q] # NoProject
    BY <1>1 DEF Forcing
  <2> QED
    BY <1>1, <2>1, <2>2, <2>3, ReadyStays
<1>3. Origin(q)' = Origin(q)
  BY DEF Origin
<1>4. ASSUME NEW w \in Origin(q)', NEW v \in Visit, NEW f \in FileName,
             NEW i \in DOMAIN Lists[w[1]][f], Demand(q, w, f, i, v)'
      PROVE  v \in done'[q] \/ ToCome(q, w[1], f, i, v)'
  <2>1. Demand(q, w, f, i, v)
    BY <1>4 DEF Demand, Leads, Mandatory, Enabled
  <2>2. v \in done[q] \/ ToCome(q, w[1], f, i, v)
    BY <1>1, <1>3, <1>4, <2>1 DEF ForcedRun
  <2> QED
    BY <1>3, <1>4, <2>1, <2>2
<1>5. ASSUME NEW H \in SUBSET Visit, Endless(opts'[q], H),
             NEW u \in H, Needs(opts'[q], project'[q], "PACKAGE", u)
      PROVE  \E w \in Origin(q)', v \in H, f \in FileName : \E i \in DOMAIN Lists[w[1]][f] :
               Demand(q, w, f, i, v)' /\ ToCome(q, w[1], f, i, v)'
  <2>1. PICK w \in Origin(q), v \in H, f \in FileName : \E i \in DOMAIN Lists[w[1]][f] :
          Demand(q, w, f, i, v) /\ ToCome(q, w[1], f, i, v)
    BY <1>1, <1>5 DEF ForcedRun
  <2>2. PICK i \in DOMAIN Lists[w[1]][f] : Demand(q, w, f, i, v) /\ ToCome(q, w[1], f, i, v)
    BY <2>1
  <2>3. Demand(q, w, f, i, v)'
    BY <2>2 DEF Demand, Leads, Mandatory, Enabled
  <2>4. ToCome(q, w[1], f, i, v)'
    BY <2>2
  <2> QED
    BY <1>3, <2>3, <2>4
<1> QED
  BY <1>2, <1>4, <1>5

\* A step of another process.
LEMMA ForcedRunOther ==
  ASSUME TypeInv, ControlInv, ForcedInv, NEW p \in Proc, Step(p) \/ Environment(p),
         NEW q \in Proc, q # p
  PROVE  ForcedRun(q)'
<1>1. /\ project'[q] = project[q] /\ opts'[q] = opts[q]
      /\ stack'[q] = stack[q] /\ outcome'[q] = outcome[q] /\ done'[q] = done[q]
      /\ pc'[q] = pc[q] /\ begun'[q] = begun[q] /\ disturbed[q] \subseteq disturbed'[q]
  BY OthersUntouched
<1>2. \A d \in Dep : Unpacking(q, d) => Unpacking(q, d)'
  BY <1>1, SamePlace
<1>3. ForcedRun(q)
  BY DEF ForcedInv
<1>4. \A w \in Origin(q), v \in Visit, f \in FileName :
        \A i \in DOMAIN Lists[w[1]][f] :
          ToCome(q, w[1], f, i, v) => ToCome(q, w[1], f, i, v)'
  BY <1>1 DEF ToCome
<1> QED
  BY <1>1, <1>2, <1>3, <1>4, ForcedRunKept

\* A step that replaces the top frame by one that comes to whatever the old one
\* was to come to.
LEMMA ForcedRunTop ==
  ASSUME TypeInv, ControlInv, ForcedInv, NEW p \in Proc, Step(p), pc[p] = "run",
         stack[p] # << >>, NEW x \in GoodFrame, stack' = [stack EXCEPT ![p][1] = x],
         UNCHANGED <<command, outcome, history>>,
         \A w \in Origin(p), v \in Visit, f \in FileName :
           \A i \in DOMAIN Lists[w[1]][f] :
             /\ Forcing(p) /\ Demand(p, w, f, i, v)
             /\ Covers(Top(p), w[1], v[2], f, i)
             => Covers(x, w[1], v[2], f, i)
  PROVE  ForcedRun(p)'
<1>1. stack[p] \in Seq(GoodFrame) /\ stack'[p] = [stack[p] EXCEPT ![1] = x]
  BY DEF TypeInv
<1>2. Range(stack[p]) = {Top(p)} \union Range(Tail(stack[p]))
  BY <1>1, StackParts DEF Top
<1>3. Range(stack'[p]) = {x} \union Range(Tail(stack[p]))
  BY <1>1, TopReplaced
<1>4. ForcedRun(p)
  BY DEF ForcedInv
<1>5. CASE Forcing(p)
  <2>1. ASSUME NEW w \in Origin(p), NEW v \in Visit, NEW f \in FileName,
               NEW i \in DOMAIN Lists[w[1]][f],
               Demand(p, w, f, i, v), ToCome(p, w[1], f, i, v)
        PROVE  ToCome(p, w[1], f, i, v)'
    <3>1. PICK fr \in Range(stack[p]) : Covers(fr, w[1], v[2], f, i)
      BY <2>1 DEF ToCome
    <3>2. \E fr2 \in Range(stack'[p]) : Covers(fr2, w[1], v[2], f, i)
      BY <1>2, <1>3, <1>5, <2>1, <3>1
    <3> QED
      BY <3>2 DEF ToCome
  <2> QED
    BY <1>4, <2>1, ForcedRunKept DEF command, history, Unpacking
<1>6. CASE ~Forcing(p)
  BY <1>6 DEF ForcedRun, Forcing, Careful, Alone, command, history
<1> QED
  BY <1>5, <1>6

\* An origin's archive is on disk, and whole.
LEMMA OriginOnDisk ==
  ASSUME TypeInv, ProjectInv, ForcedInv, NEW p \in Proc, Forcing(p), pc[p] = "run",
         NEW w \in Origin(p)
  PROVE  /\ w[1] \in Owner /\ Archive[w[1]] \subseteq disk[w[1]]
         /\ \A x \in Archive[w[1]] : <<w[1], x>> \notin cut
<1>1. CASE w = <<project[p], "PACKAGE">>
  <2>1. project[p] \in Project
    BY DEF Forcing, TypeInv, TypeOK
  <2>2. project[p] \notin Dep /\ cut \subseteq Dep \X Part
    BY <2>1, ConstantsAssumption DEF TypeInv, TypeOK
  <2>3. \A x : <<project[p], x>> \notin cut
    BY <2>2
  <2> QED
    BY <1>1, <2>1, <2>3 DEF ProjectInv, Owner
<1>2. CASE w \in done[p] /\ Type[w[1]] = "REMAKEN"
  <2>1. Installed(w[1])
    BY <1>2 DEF ForcedInv, ForcedRun, Ready, Unpacking
  <2>2. w[1] \in Dep
    BY <1>2 DEF TypeInv, TypeOK
  <2> QED
    BY <1>2, <2>1, <2>2 DEF Installed, Unpacked, Owner
<1> QED
  BY <1>1, <1>2 DEF Origin

\* A new install: its two calls come to everything the project asks for.
LEMMA ForcedRunRetrieve ==
  ASSUME TypeInv, ControlInv, NEW p \in Proc, retrieve(p)
  PROVE  ForcedRun(p)'
<1> SUFFICES ASSUME Forcing(p)' PROVE ForcedRun(p)'
  BY DEF ForcedRun
<1>types. /\ p \in DOMAIN project /\ p \in DOMAIN outcome /\ p \in DOMAIN stack
  BY DEF TypeInv, TypeOK
<1>1. PICK pr \in Project, o \in Options :
        /\ project' = [project EXCEPT ![p] = pr]
        /\ IF BaseFile("PACKAGE") \in disk[pr]
           THEN stack' = [stack EXCEPT ![p] = <<NewFrame(pr, "EXTRA_DEPS"),
                                                NewFrame(pr, "PACKAGE")>>]
           ELSE Stop(p, "failed")
  BY DEF retrieve
<1>2. ~Stop(p, "failed")
  BY <1>types DEF Stop, Forcing
<1> DEFINE e == NewFrame(pr, "EXTRA_DEPS")
           b == NewFrame(pr, "PACKAGE")
<1>3. e \in Range(stack'[p]) /\ b \in Range(stack'[p])
  <2> HIDE DEF e, b
  <2>1. stack'[p] = <<e, b>>
    BY <1>1, <1>2, <1>types DEF e, b
  <2>2. DOMAIN <<e, b>> = {1, 2} /\ <<e, b>>[1] = e /\ <<e, b>>[2] = b
    OBVIOUS
  <2> QED
    BY <2>1, <2>2 DEF Range
<1>4. done'[p] = {}
  BY DEF retrieve, ControlInv, history
<1>5. Origin(p)' = {<<pr, "PACKAGE">>}
  BY <1>1, <1>4, <1>types DEF Origin
<1>6. ASSUME NEW w \in Origin(p)', NEW v \in Visit, NEW f \in FileName,
             NEW i \in DOMAIN Lists[w[1]][f]
      PROVE  ToCome(p, w[1], f, i, v)'
  <2>1. w[1] = pr /\ v[2] \in FileType
    BY <1>5 DEF Visit
  <2>2. Covers(e, pr, "EXTRA_DEPS", f, i) /\ Covers(b, pr, "PACKAGE", f, i)
    BY DEF Covers, NewFrame
  <2>3. \E fr \in Range(stack'[p]) : Covers(fr, w[1], v[2], f, i)
    <3> HIDE DEF e, b
    <3> QED
      BY <1>3, <2>1, <2>2 DEF FileType
  <2> QED
    BY <2>3 DEF ToCome
<1>7. ASSUME NEW H \in SUBSET Visit,
             NEW u \in H, Needs(opts'[p], project'[p], "PACKAGE", u)
      PROVE  \E w \in Origin(p)', v \in H, f \in FileName : \E i \in DOMAIN Lists[w[1]][f] :
               Demand(p, w, f, i, v)' /\ ToCome(p, w[1], f, i, v)'
  <2>1. PICK f \in FileName : \E i \in DOMAIN Lists[pr][f] :
          /\ Leads(pr, "PACKAGE", f, i, u)
          /\ Mandatory(opts'[p], pr, Lists[pr][f][i])
    BY <1>1, <1>7, <1>types DEF Needs
  <2>2. PICK i \in DOMAIN Lists[pr][f] :
          /\ Leads(pr, "PACKAGE", f, i, u)
          /\ Mandatory(opts'[p], pr, Lists[pr][f][i])
    BY <2>1
  <2> DEFINE w == <<pr, "PACKAGE">>
  <2>3. w \in Origin(p)' /\ w[1] = pr /\ w[2] = "PACKAGE"
    BY <1>5
  <2> HIDE DEF w
  <2>4. Demand(p, w, f, i, u)'
    BY <2>2, <2>3 DEF Demand
  <2>5. ToCome(p, w[1], f, i, u)'
    BY <1>6, <2>2, <2>3
  <2> QED
    BY <2>2, <2>3, <2>4, <2>5
<1> QED
  BY <1>4, <1>6, <1>7 DEF ForcedRun

\* The files an origin's archive holds are opened.
LEMMA ForcedRunOpen ==
  ASSUME TypeInv, ControlInv, ProjectInv, ForcedInv, NEW p \in Proc,
         retrieveDependencies(p)
  PROVE  ForcedRun(p)'
<1> DEFINE x == [Top(p) EXCEPT !.opened = TRUE,
                   !.files = FilesOf(Top(p).type) \intersect disk[Top(p).owner]]
<1>1. /\ stack[p] # << >> /\ stack[p] \in Seq(GoodFrame)
      /\ stack' = [stack EXCEPT ![p][1] = x] /\ ~Top(p).opened /\ pc[p] = "run"
      /\ UNCHANGED <<command, outcome, history>>
  BY DEF retrieveDependencies, TypeInv
<1>2. Top(p) \in GoodFrame
  BY <1>1, StackParts DEF Top
<1>3. x \in GoodFrame
  BY <1>2 DEF GoodFrame, Frame, FilesOf, FileName
<1>4. ASSUME NEW w \in Origin(p), NEW v \in Visit, NEW f \in FileName,
             NEW i \in DOMAIN Lists[w[1]][f],
             Forcing(p), Demand(p, w, f, i, v), Covers(Top(p), w[1], v[2], f, i)
      PROVE  Covers(x, w[1], v[2], f, i)
  <2>1. Archive[w[1]] \subseteq disk[w[1]]
    BY <1>1, <1>4, OriginOnDisk
  <2>2. Top(p).owner = w[1] /\ Top(p).type = v[2]
    BY <1>4 DEF Covers
  <2>3. f \in FilesOf(Top(p).type) \intersect disk[Top(p).owner]
    BY <1>4, <2>1, <2>2 DEF Demand, Leads
  <2>4. /\ x.owner = Top(p).owner /\ x.type = Top(p).type
        /\ x.files = FilesOf(Top(p).type) \intersect disk[Top(p).owner]
    BY <1>2 DEF GoodFrame, Frame
  <2> HIDE DEF x
  <2> QED
    BY <2>2, <2>3, <2>4 DEF Covers
<1>5. Step(p)
  BY DEF Step
<1> HIDE DEF x
<1> QED
  BY <1>1, <1>3, <1>4, <1>5, ForcedRunTop

\* Filtering keeps the mandatory lines of a file.
LEMMA ForcedRunParse ==
  ASSUME TypeInv, ControlInv, ProjectInv, ForcedInv, NEW p \in Proc, parseFile(p)
  PROVE  ForcedRun(p)'
<1>f. PICK f \in FileName : \E kept \in SUBSET DOMAIN Lists[Top(p).owner][f] :
        /\ AtFile(p, f)
        /\ Waits(p, f, kept)
        /\ f \in disk[Top(p).owner] /\ <<Top(p).owner, f>> \notin cut =>
             \A i \in DOMAIN Lists[Top(p).owner][f] :
               Mandatory(opts[p], Top(p).owner, Lists[Top(p).owner][f][i]) => i \in kept
  BY ParsedLines, Zenon
<1>k. PICK kept \in SUBSET DOMAIN Lists[Top(p).owner][f] :
        /\ Waits(p, f, kept)
        /\ f \in disk[Top(p).owner] /\ <<Top(p).owner, f>> \notin cut =>
             \A i \in DOMAIN Lists[Top(p).owner][f] :
               Mandatory(opts[p], Top(p).owner, Lists[Top(p).owner][f][i]) => i \in kept
  BY <1>f
<1> DEFINE x == [Top(p) EXCEPT !.files = @ \ {f}, !.file = f, !.todo = kept]
<1>1. /\ stack[p] # << >> /\ stack[p] \in Seq(GoodFrame)
      /\ stack' = [stack EXCEPT ![p][1] = x]
      /\ Top(p).opened /\ Top(p).todo = {} /\ pc[p] = "run"
      /\ UNCHANGED <<command, outcome, history>>
  BY <1>f, <1>k, ParsedKept DEF AtFile, Waits, TypeInv
<1>2. Top(p) \in GoodFrame
  BY <1>1, StackParts DEF Top
<1>3. x \in GoodFrame
  <2>1. Lists[Top(p).owner][f] \in Seq(Line)
    BY <1>2, ConstantsAssumption DEF GoodFrame, Frame
  <2>2. DOMAIN Lists[Top(p).owner][f] \subseteq Nat
    BY <2>1, LenProperties
  <2> QED
    BY <1>2, <2>2 DEF GoodFrame, Frame
<1>4. ASSUME NEW w \in Origin(p), NEW v \in Visit, NEW g \in FileName,
             NEW i \in DOMAIN Lists[w[1]][g],
             Forcing(p), Demand(p, w, g, i, v), Covers(Top(p), w[1], v[2], g, i)
      PROVE  Covers(x, w[1], v[2], g, i)
  <2>1. Top(p).owner = w[1] /\ Top(p).type = v[2] /\ g \in Top(p).files
    BY <1>1, <1>4 DEF Covers
  <2>2. /\ x.owner = Top(p).owner /\ x.type = Top(p).type
        /\ x.files = Top(p).files \ {f} /\ x.file = f /\ x.todo = kept
    BY <1>2 DEF GoodFrame, Frame
  <2>3. ASSUME g = f PROVE i \in kept
    <3>1. g \in Archive[w[1]]
      BY <1>4 DEF Demand, Leads
    <3>2. g \in disk[w[1]] /\ <<w[1], g>> \notin cut
      BY <1>1, <1>4, <3>1, OriginOnDisk
    <3> QED
      BY <1>k, <1>4, <2>1, <2>3, <3>2 DEF Demand
  <2> HIDE DEF x
  <2> QED
    BY <2>1, <2>2, <2>3 DEF Covers
<1>5. Step(p)
  BY DEF Step
<1> HIDE DEF x
<1> QED
  BY <1>1, <1>3, <1>4, <1>5, ForcedRunTop

\* A call returns when nothing of its files is left.
LEMMA ForcedRunReturn ==
  ASSUME TypeInv, ControlInv, ForcedInv, NEW p \in Proc, generateConditions(p)
  PROVE  ForcedRun(p)'
<1>1. /\ pc[p] = "run" /\ stack[p] # << >> /\ stack[p] \in Seq(GoodFrame)
      /\ Top(p).opened /\ Top(p).todo = {} /\ Top(p).files = {}
      /\ UNCHANGED <<command, history>>
  BY DEF generateConditions, TypeInv
<1>2. /\ Range(stack[p]) = {Top(p)} \union Range(Tail(stack[p]))
      /\ Len(stack[p]) = 1 => Tail(stack[p]) = << >>
  BY <1>1, StackParts DEF Top
<1>3. stack'[p] = Tail(stack[p])
  <2>1. IF Len(stack[p]) = 1
        THEN stack' = [stack EXCEPT ![p] = << >>]
        ELSE stack' = [stack EXCEPT ![p] = Tail(stack[p])]
    BY DEF generateConditions, Stop
  <2>2. p \in DOMAIN stack
    BY DEF TypeInv, TypeOK
  <2> QED
    BY <1>2, <2>1, <2>2
<1>4. outcome[p] = "none"
  BY <1>1 DEF ControlInv
<1>5. ForcedRun(p)
  BY DEF ForcedInv
<1>6. ASSUME NEW w \in Origin(p), NEW v \in Visit, NEW f \in FileName,
             NEW i \in DOMAIN Lists[w[1]][f], ToCome(p, w[1], f, i, v)
      PROVE  ToCome(p, w[1], f, i, v)'
  <2>1. PICK fr \in Range(stack[p]) : Covers(fr, w[1], v[2], f, i)
    BY <1>6 DEF ToCome
  <2>2. fr # Top(p)
    BY <1>1, <2>1 DEF Covers
  <2> QED
    BY <1>2, <1>3, <2>1, <2>2 DEF ToCome
<1>7. Step(p)
  BY DEF Step
<1> QED
  BY <1>1, <1>4, <1>5, <1>6, <1>7, ForcedRunKept DEF command, history, Unpacking

\* The package of the line is complete, and the calls that follow come to
\* everything it asks for.
LEMMA ForcedRunPast ==
  ASSUME TypeInv, ControlInv, ForcedInv, NEW p \in Proc, NEW i \in Left(p), AtLine(p, i),
         GoPast(p, i), UNCHANGED <<disk, cut, command, outcome, begun, disturbed>>,
         system \subseteq system',
         NEW d \in Dep, d = LineAt(p, i).dep,
         Forcing(p) => Installed(d)' /\ (Careful \/ d \in begun[p])
  PROVE  ForcedRun(p)'
<1> SUFFICES ASSUME Forcing(p)' PROVE ForcedRun(p)'
  BY DEF ForcedRun
<1>3. /\ stack[p] \in Seq(GoodFrame) /\ stack[p] # << >>
      /\ Top(p) \in GoodFrame /\ LineAt(p, i) \in Line
  BY LineTypes
<1>4. PICK t \in FileType : t = Top(p).type
  BY <1>3 DEF GoodFrame, Frame
<1>5. /\ done'[p] = done[p] \union {<<d, t>>}
      /\ stack'[p] = AfterLine(p, i)
  BY <1>4 DEF GoPast, TypeInv, TypeOK
<1>6. Range(stack'[p]) = Range(Recursion(d, t)) \union {Rest(p, i)}
                           \union Range(Tail(stack[p]))
  BY <1>4, <1>5, AfterLineFrames
<1>7. Range(stack[p]) = {Top(p)} \union Range(Tail(stack[p]))
  BY <1>3, StackParts DEF Top
<1>8. Forcing(p) /\ project'[p] = project[p] /\ opts'[p] = opts[p]
  BY DEF Forcing, Careful, Alone, command
<1>9. ForcedRun(p)
  BY DEF ForcedInv
<1>10. ASSUME NEW v \in done'[p] PROVE Ready(p, v[1])'
  <2>1. CASE v = <<d, t>>
    BY <1>8, <2>1 DEF Ready, Careful, Alone
  <2>2. CASE v \in done[p]
    <3>1. Ready(p, v[1]) /\ v[1] \in Dep
      BY <1>8, <1>9, <2>2 DEF ForcedRun, TypeInv, TypeOK
    <3>2. CASE Installed(v[1])
      <4>1. Installed(v[1])'
        BY <3>2 DEF Installed, Unpacked
      <4> QED
        BY <3>1, <4>1 DEF Ready, Careful, Alone
    <3>3. CASE Unpacking(p, v[1])
      <4>1. v[1] = d
        BY <3>3, OnePackage DEF Unpacking, IsAt
      <4> QED
        BY <1>8, <4>1 DEF Ready, Careful, Alone
    <3> QED
      BY <3>1, <3>2, <3>3 DEF Ready
  <2> QED
    BY <1>5, <2>1, <2>2
<1>same. ASSUME NEW w, NEW v, NEW f, NEW j
         PROVE  Demand(p, w, f, j, v)' <=> Demand(p, w, f, j, v)
  BY <1>8 DEF Demand, Leads, Mandatory, Enabled
<1>old. ASSUME NEW w \in Origin(p), NEW v \in Visit, NEW f \in FileName,
               NEW j \in DOMAIN Lists[w[1]][f],
               Demand(p, w, f, j, v), ToCome(p, w[1], f, j, v)
        PROVE  v = <<d, t>> \/ ToCome(p, w[1], f, j, v)'
  <2>1. PICK fr \in Range(stack[p]) : Covers(fr, w[1], v[2], f, j)
    BY <1>old DEF ToCome
  <2>2. CASE fr \in Range(Tail(stack[p]))
    BY <1>6, <2>1, <2>2 DEF ToCome
  <2>3. CASE fr = Top(p) /\ f = Top(p).file /\ j = i
    <3>1. v[1] = Lists[w[1]][f][j].dep
      BY <1>old DEF Demand, Leads
    <3>2. w[1] = Top(p).owner /\ v[2] = t
      BY <1>4, <2>1, <2>3 DEF Covers
    <3>3. v[1] = d
      BY <2>3, <3>1, <3>2 DEF LineAt, FileLines
    <3>4. v = <<v[1], v[2]>>
      BY DEF Visit
    <3> QED
      BY <3>2, <3>3, <3>4
  <2>4. CASE fr = Top(p) /\ ~(f = Top(p).file /\ j = i)
    <3>1. /\ Rest(p, i).owner = Top(p).owner /\ Rest(p, i).type = Top(p).type
          /\ Rest(p, i).opened = Top(p).opened /\ Rest(p, i).files = Top(p).files
          /\ Rest(p, i).file = Top(p).file /\ Rest(p, i).todo = Top(p).todo \ {i}
      BY <1>3 DEF Rest, GoodFrame, Frame
    <3>2. Covers(Rest(p, i), w[1], v[2], f, j)
      BY <2>1, <2>4, <3>1 DEF Covers
    <3>3. Rest(p, i) \in Range(stack'[p])
      BY <1>6
    <3> QED
      BY <3>2, <3>3 DEF ToCome
  <2> QED
    BY <1>7, <2>2, <2>3, <2>4
<1>new. ASSUME Type[d] = "REMAKEN", NEW v \in Visit, NEW f \in FileName, NEW j,
               Demand(p, <<d, t>>, f, j, v)
        PROVE  ToCome(p, d, f, j, v)'
  <2>1. v[2] \in {"EXTRA_DEPS", t}
    BY <1>4, <1>new DEF Demand, Leads, ReadTypes, FileType
  <2>2. {NewFrame(d, "EXTRA_DEPS"), NewFrame(d, t)} \subseteq Range(stack'[p])
    BY <1>4, <1>6, <1>new, RecursionFrames
  <2>3. /\ Covers(NewFrame(d, "EXTRA_DEPS"), d, "EXTRA_DEPS", f, j)
        /\ Covers(NewFrame(d, t), d, t, f, j)
    BY DEF Covers, NewFrame
  <2> QED
    BY <2>1, <2>2, <2>3 DEF ToCome
<1>11. ASSUME NEW w \in Origin(p)', NEW v \in Visit, NEW f \in FileName,
              NEW j \in DOMAIN Lists[w[1]][f], Demand(p, w, f, j, v)'
       PROVE  v \in done'[p] \/ ToCome(p, w[1], f, j, v)'
  <2>d. Demand(p, w, f, j, v)
    BY <1>11, <1>same
  <2>1. CASE w \in Origin(p)
    <3>1. v \in done[p] \/ ToCome(p, w[1], f, j, v)
      BY <1>8, <1>9, <1>11, <2>1, <2>d DEF ForcedRun
    <3> QED
      BY <1>5, <1>11, <1>old, <2>1, <2>d, <3>1
  <2>2. CASE w = <<d, t>> /\ Type[d] = "REMAKEN"
    BY <1>11, <1>new, <2>2, <2>d
  <2>3. w \in Origin(p) \/ (w = <<d, t>> /\ Type[d] = "REMAKEN")
    BY <1>5, <1>8, <1>11 DEF Origin
  <2> QED
    BY <2>1, <2>2, <2>3
<1>12. ASSUME NEW H \in SUBSET Visit, Endless(opts'[p], H),
              NEW u \in H, Needs(opts'[p], project'[p], "PACKAGE", u)
       PROVE  \E w \in Origin(p)', v \in H, f \in FileName : \E j \in DOMAIN Lists[w[1]][f] :
                Demand(p, w, f, j, v)' /\ ToCome(p, w[1], f, j, v)'
  <2>1. PICK w \in Origin(p), v \in H, f \in FileName : \E j \in DOMAIN Lists[w[1]][f] :
          Demand(p, w, f, j, v) /\ ToCome(p, w[1], f, j, v)
    BY <1>8, <1>9, <1>12 DEF ForcedRun
  <2>2. PICK j \in DOMAIN Lists[w[1]][f] : Demand(p, w, f, j, v) /\ ToCome(p, w[1], f, j, v)
    BY <2>1
  <2>3. v \in Visit
    OBVIOUS
  <2>4. CASE ToCome(p, w[1], f, j, v)'
    <3>1. w \in Origin(p)'
      BY <1>5, <1>8 DEF Origin
    <3>2. Demand(p, w, f, j, v)'
      BY <1>same, <2>2
    <3> QED
      BY <2>4, <3>1, <3>2
  <2>5. CASE v = <<d, t>>
    <3>1. Type[d] = "REMAKEN"
      BY <1>12, <2>5 DEF Endless, Recursive
    <3>2. PICK x \in H : Needs(opts[p], d, t, x)
      BY <1>8, <1>12, <2>5 DEF Endless
    <3>3. PICK g \in FileName : \E k \in DOMAIN Lists[d][g] :
            Leads(d, t, g, k, x) /\ Mandatory(opts[p], d, Lists[d][g][k])
      BY <3>2 DEF Needs
    <3>4. PICK k \in DOMAIN Lists[d][g] :
            Leads(d, t, g, k, x) /\ Mandatory(opts[p], d, Lists[d][g][k])
      BY <3>3
    <3>5. Demand(p, <<d, t>>, g, k, x)
      BY <3>4 DEF Demand
    <3>6. ToCome(p, d, g, k, x)' /\ Demand(p, <<d, t>>, g, k, x)'
      BY <1>same, <1>new, <3>1, <3>5
    <3>7. <<d, t>> \in Origin(p)'
      BY <1>5, <3>1 DEF Origin
    <3> DEFINE y == <<d, t>>
    <3>8. y \in Origin(p)' /\ y[1] = d /\ Demand(p, y, g, k, x)'
      BY <3>6, <3>7
    <3> HIDE DEF y
    <3> QED
      BY <3>4, <3>6, <3>8
  <2> QED
    BY <1>old, <2>2, <2>3, <2>4, <2>5
<1> QED
  BY <1>10, <1>11, <1>12 DEF ForcedRun

\* No step breaks the invariant of forced runs.
LEMMA ForcedInvStep ==
  ASSUME TypeInv, ControlInv, ProjectInv, CacheInv, ExtractInv, CarefulInv, ForcedInv,
         [Next]_vars
  PROVE  ForcedInv'
<1>1. CASE UNCHANGED vars
  <2> SUFFICES ASSUME NEW q \in Proc PROVE ForcedRun(q)'
    BY DEF ForcedInv
  <2>1. /\ disk' = disk /\ cut' = cut /\ system' = system /\ project'[q] = project[q]
        /\ opts'[q] = opts[q] /\ outcome'[q] = outcome[q] /\ done'[q] = done[q]
        /\ stack'[q] = stack[q] /\ pc'[q] = pc[q] /\ begun'[q] = begun[q]
        /\ disturbed'[q] = disturbed[q]
    BY <1>1 DEF vars, shared, local, command, history
  <2>2. Forcing(q)' = Forcing(q)
    BY <2>1 DEF Forcing, Careful, Alone
  <2>4. \A d : Unpacking(q, d)' = Unpacking(q, d)
    BY <2>1, SamePlace
  <2>5. \A d : Ready(q, d)' = Ready(q, d)
    BY <2>1, <2>4 DEF Ready, Installed, Unpacked, Careful, Alone
  <2>3. ForcedRun(q)
    BY DEF ForcedInv
  <2> QED
    BY <2>1, <2>2, <2>3, <2>5, ZenonT(60)
       DEF ForcedRun, Origin, Demand, ToCome
<1>2. ASSUME NEW p \in Proc, Step(p) \/ Environment(p) PROVE ForcedRun(p)'
  <2>types. /\ p \in DOMAIN outcome /\ p \in DOMAIN project
    BY DEF TypeInv, TypeOK
  <2>run. ForcedRun(p) /\ Extraction(p)
    BY DEF ForcedInv, ExtractInv
  <2>same. ASSUME UNCHANGED <<command, stack, outcome, done>>, disturbed'[p] = disturbed[p],
                  begun[p] \subseteq begun'[p],
                  pc[p] \in {"install", "alternate"} => pc'[p] \in {"install", "alternate"}
           PROVE  ForcedRun(p)'
    <3>1. \A d \in Dep : Unpacking(p, d) => Unpacking(p, d)'
      BY <2>same DEF Unpacking, IsAt, AtLine, Left, LineAt, FileLines, Top
    <3> QED
      BY <1>2, <2>run, <2>same, <3>1, ForcedRunKept DEF command, ToCome
  <2>failed. ASSUME Stop(p, "failed") PROVE ForcedRun(p)'
    BY <2>failed, <2>types DEF Stop, ForcedRun, Forcing
  <2>gone. ASSUME Gone(p) PROVE ForcedRun(p)'
    BY <2>gone, <2>types DEF Gone, ForcedRun, Forcing
  <2>no. ASSUME project[p] = NoProject, UNCHANGED command PROVE ForcedRun(p)'
    BY <2>no DEF command, ForcedRun, Forcing
  <2>1. CASE retrieve(p)
    BY <2>1, ForcedRunRetrieve
  <2>2. CASE retrieveDependencies(p)
    BY <2>2, ForcedRunOpen
  <2>3. CASE parseFile(p)
    BY <2>3, ForcedRunParse
  <2>4. CASE invalidFile(p)
    BY <2>4, <2>failed, InvalidKept
  <2>5. CASE generateConditions(p)
    BY <2>5, ForcedRunReturn
  <2>6. CASE addArtefactRemote(p)
    <3>1. opts[p].remoteOnly /\ UNCHANGED command
      BY <2>6, Zenon DEF addArtefactRemote
    <3> QED
      BY <3>1 DEF ForcedRun, Forcing, command
  <2>7. CASE noAlternate(p)
    BY <2>7, <2>failed DEF noAlternate
  <2>8. CASE alreadyInstalled(p)
    <3>1. PICK i \in Left(p) :
            Visiting(p, i) /\ ~ToInstall(p, LineAt(p, i).dep) /\ GoPast(p, i)
      BY <2>8 DEF alreadyInstalled
    <3>2. UNCHANGED <<disk, cut, system, command, outcome, begun, disturbed>>
      BY <2>8 DEF alreadyInstalled, shared
    <3>3. PICK d \in Dep : d = LineAt(p, i).dep
      BY LineTypes DEF Line
    <3>4. Forcing(p) => Installed(d)' /\ Careful
      <4>1. SUFFICES ASSUME Forcing(p) PROVE Installed(d)' /\ Careful
        OBVIOUS
      <4>2. Careful /\ ~installDep(p, d, <<d, FirstRepo(p, d)>>) /\ pc[p] = "run"
        BY <3>1, <3>3, <4>1 DEF Forcing, ToInstall, Visiting
      <4>3. Installed(d)
        BY <4>2, NothingToInstall DEF CarefulInv
      <4> QED
        BY <3>2, <4>2, <4>3 DEF Installed, Unpacked
    <3> QED
      BY <3>1, <3>2, <3>3, <3>4, ForcedRunPast DEF Visiting
  <2>9. CASE startInstall(p)
    <3>1. /\ UNCHANGED <<command, stack, outcome, done, disturbed>> /\ pc[p] = "run"
          /\ \E d \in Dep : begun' = [begun EXCEPT ![p] = @ \union {d}]
      BY <2>9, LineTypes DEF startInstall, Visiting, Line
    <3>2. begun[p] \subseteq begun'[p]
      BY <3>1 DEF TypeInv, TypeOK
    <3> QED
      BY <3>1, <3>2, <2>same
  <2>10. CASE openEntry(p) \/ unlinkEntry(p)
    <3>1. UNCHANGED <<pc, command, stack, outcome, done, begun>> /\ \E d \in Dep : disturb(p, d)
      BY <2>10 DEF openEntry, unlinkEntry
    <3>2. disturbed'[p] = disturbed[p]
      BY <3>1 DEF disturb
    <3> QED
      BY <3>1, <3>2, <2>same
  <2>23. CASE writeEntry(p) \/ skipEntry(p)
    BY <2>23, <2>same DEF writeEntry, skipEntry, history
  <2>24. CASE writePart(p)
    BY <2>24, <2>same DEF writePart, local, command, history
  <2>11. CASE installSucceeds(p)
    <3>1. PICK i \in Left(p), repo \in {"primary", "alternate"} :
            /\ Installing(p, i, repo)
            /\ Delivered(p, LineAt(p, i).dep, repo)
            /\ system' = IF ByTool(LineAt(p, i).dep, repo)
                         THEN system \union {LineAt(p, i).dep} ELSE system
            /\ GoPast(p, i)
      BY <2>11 DEF installSucceeds
    <3>2. UNCHANGED <<disk, cut, command, outcome, begun, disturbed>> /\ system \subseteq system'
      BY <2>11 DEF installSucceeds
    <3>3. PICK d \in Dep : d = LineAt(p, i).dep
      BY LineTypes DEF Line
    <3>u. Unpacking(p, d)
      BY <3>1, <3>3 DEF Installing, Unpacking, IsAt
    <3>4. Forcing(p) => Installed(d)' /\ d \in begun[p]
      <4> SUFFICES ASSUME Forcing(p) PROVE Installed(d)' /\ d \in begun[p]
        OBVIOUS
      <4>1. d \in begun[p]
        BY <2>run, <3>u DEF Extraction
      <4>2. CASE ByTool(d, repo)
        BY <3>1, <3>3, <4>1, <4>2 DEF Installed, ByTool
      <4>3. CASE ~ByTool(d, repo)
        <5>1. Unpacked(d)
          BY <2>run, <3>1, <3>3, <3>u, <4>3, UnzippedIsComplete DEF Forcing
        <5> QED
          BY <3>2, <4>1, <5>1 DEF Installed, Unpacked
      <4> QED
        BY <4>2, <4>3
    <3> QED
      BY <3>1, <3>2, <3>3, <3>4, ForcedRunPast DEF Installing
  <2>12. CASE tryAlternate(p)
    BY <2>12, <2>same DEF tryAlternate, history, TypeInv, TypeOK
  <2>13. CASE installFails(p)
    BY <2>13, <2>failed DEF installFails
  <2>14. CASE stackOverflow(p)
    BY <2>14, <2>gone DEF stackOverflow
  <2>15. CASE removeEntry(p)
    BY <2>15, <2>same DEF removeEntry, local, command, history
  <2>16. CASE cleanDone(p)
    BY <2>16, <2>no DEF cleanDone, ControlInv
  <2>17. CASE cleanFails(p)
    BY <2>17, <2>failed DEF cleanFails
  <2>18. CASE flush(p)
    BY <2>18, <2>same, <2>gone DEF flush, history
  <2>19. CASE writeCache(p)
    BY <2>19, <2>gone DEF writeCache
  <2>20. CASE otherCommand(p)
    BY <2>20, <2>no DEF otherCommand, ControlInv
  <2>21. CASE clean(p)
    BY <2>21, <2>same DEF clean, history
  <2>22. CASE crash(p)
    BY <2>22, <2>gone DEF crash
  <2> QED
    BY <1>2, <2>1, <2>2, <2>3, <2>4, <2>5, <2>6, <2>7, <2>8, <2>9, <2>10, <2>11,
       <2>12, <2>13, <2>14, <2>15, <2>16, <2>17, <2>18, <2>19, <2>20, <2>21, <2>22,
       <2>23, <2>24
    DEF Step, Environment, extract
<1>3. CASE Next
  <2>1. PICK p \in Proc : Step(p) \/ Environment(p)
    BY <1>3 DEF Next
  <2>2. ForcedRun(p)'
    BY <1>2, <2>1
  <2>3. \A q \in Proc \ {p} : ForcedRun(q)'
    BY <2>1, ForcedRunOther
  <2> QED
    BY <2>2, <2>3 DEF ForcedInv
<1> QED
  BY <1>1, <1>3

\* What a project requires is reached from its files.
LEMMA RequiredIsReachable ==
  ASSUME NEW p \in Proc, NEW v \in Required(p)
  PROVE  v \in Reachable({u \in Visit : Needs(opts[p], project[p], "PACKAGE", u)},
                         NeedEdges(opts[p]))
<1>1. <<project[p], opts[p], v>> \in requires
  BY DEF Required
<1>2. PICK pr \in Project, op \in Options :
        <<project[p], opts[p], v>> \in
          {<<pr, op, u>> : u \in
             Reachable({u \in Visit : Needs(op, pr, "PACKAGE", u)}, NeedEdges(op))}
  BY <1>1 DEF requires
<1>3. PICK u \in Reachable({u \in Visit : Needs(op, pr, "PACKAGE", u)}, NeedEdges(op)) :
        <<project[p], opts[p], v>> = <<pr, op, u>>
  BY <1>2
<1>4. project[p] = pr /\ opts[p] = op /\ v = u
  BY <1>3
<1> QED
  BY <1>3, <1>4

\* When nothing is left to come, the visits done include the required ones.
LEMMA RequiredDone ==
  ASSUME TypeInv, ControlInv, ForcedInv, NEW p \in Proc, Succeeded(p), Forcing(p)
  PROVE  Required(p) \subseteq done[p]
<1>1. Forcing(p) /\ stack[p] = << >>
  BY DEF Succeeded, ControlInv
<1>2. \A w \in Origin(p), v \in Visit, f \in FileName :
        \A i \in DOMAIN Lists[w[1]][f] : Demand(p, w, f, i, v) => v \in done[p]
  <2>1. DOMAIN << >> = {}
    OBVIOUS
  <2>2. Range(<< >>) = {}
    BY <2>1 DEF Range
  <2> QED
    BY <1>1, <2>2 DEF ForcedInv, ForcedRun, ToCome
<1>3. \A w \in Origin(p), v \in Visit : Needs(opts[p], w[1], w[2], v) => v \in done[p]
  BY <1>2 DEF Needs, Demand
<1>4. ASSUME NEW u \in Visit, Needs(opts[p], project[p], "PACKAGE", u) PROVE u \in done[p]
  <2>1. <<project[p], "PACKAGE">> \in Origin(p)
    BY DEF Origin
  <2> QED
    BY <1>3, <1>4, <2>1
<1>5. ASSUME NEW e \in NeedEdges(opts[p]), e[1] \in done[p] PROVE e[2] \in done[p]
  <2>1. /\ e[1] \in Recursive /\ e[2] \in Visit
        /\ Needs(opts[p], e[1][1], e[1][2], e[2])
    BY <1>5 DEF NeedEdges
  <2>2. e[1] \in Origin(p)
    BY <1>5, <2>1 DEF Origin, Recursive
  <2> QED
    BY <1>3, <2>1, <2>2
<1>6. done[p] \in SUBSET Visit
  BY DEF TypeInv, TypeOK, Visit
<1>7. Reachable({u \in Visit : Needs(opts[p], project[p], "PACKAGE", u)},
                NeedEdges(opts[p])) \subseteq done[p]
  BY <1>4, <1>5, <1>6 DEF Reachable
<1> QED
  BY <1>7, RequiredIsReachable

\* The invariant holds at first ...
LEMMA IInvInit == Init => IInv
<1> SUFFICES ASSUME Init PROVE IInv
  OBVIOUS
<1>1. ControlInv
  BY DEF Init, ControlInv
<1>2. ProjectInv
  BY DEF Init, ProjectInv, Owner
<1>3. ForcedInv
  BY DEF Init, ForcedInv, ForcedRun, Forcing
<1>4. DiskInv
  BY DEF Init, DiskInv
<1>5. CacheInv
  BY CacheInvInit
<1>6. WholeInv
  <2>1. \A d \in Dep : Whole(d)
    BY ConstantsAssumption DEF Init, Whole, Owner
  <2> QED
    BY <2>1 DEF WholeInv
<1>7. ExtractInv
  BY DEF Init, ExtractInv, Extraction, Unzipped, Unpacking
<1> QED
  BY <1>1, <1>2, <1>3, <1>4, <1>5, <1>6, <1>7, TypeInvInit DEF IInv, CarefulInv

\* ... and every step keeps it.
LEMMA IInvStep == IInv /\ [Next]_vars => IInv'
<1> SUFFICES ASSUME IInv, [Next]_vars PROVE IInv'
  OBVIOUS
<1>1. CarefulInv'
  BY WholeInvStep DEF IInv, CarefulInv, Careful, Alone
<1>2. TypeInv' /\ ControlInv' /\ ProjectInv' /\ DiskInv' /\ CacheInv' /\ ExtractInv'
  BY TypeInvStep, ControlInvStep, ProjectInvStep, DiskInvStep, CacheInvStep, ExtractInvStep
     DEF IInv
<1>3. ForcedInv'
  BY ForcedInvStep DEF IInv
<1> QED
  BY <1>1, <1>2, <1>3 DEF IInv

\* A run that ends well leaves complete what it requires, if nothing disturbed it.
LEMMA Undisturbed ==
  ASSUME IInv, NEW p \in Proc, Succeeded(p), (opts[p].force /\ disturbed[p] = {}) \/ Careful
  PROVE  Forcing(p)
<1>1. Careful => disturbed[p] = {}
  BY DEF IInv, ExtractInv, Extraction
<1> QED
  BY <1>1 DEF Succeeded, Forcing

LEMMA DoneIsComplete ==
  ASSUME IInv, NEW p \in Proc, Succeeded(p), Forcing(p)
  PROVE  Complete(p)
<1> SUFFICES ASSUME NEW v \in Required(p) PROVE Installed(v[1])
  BY DEF Complete
<1>1. v \in done[p]
  BY RequiredDone DEF IInv
<1>2. pc[p] \notin {"install", "alternate"}
  BY DEF Succeeded, IInv, ControlInv
<1> QED
  BY <1>1, <1>2 DEF IInv, ForcedInv, ForcedRun, Ready, Unpacking

\* So with --force in every state.
LEMMA ForcedComplete == IInv => ForcedRunComplete
BY Undisturbed, DoneIsComplete DEF ForcedRunComplete

\* "install --force" that returns 0 leaves everything its project requires
\* complete, for every graph of dependencies and any number of processes, unless
\* another process unpacked into a package after this one had begun to install it.
THEOREM ForcedRunsComplete == Spec => []ForcedRunComplete
BY ForcedComplete, IInvInit, IInvStep, PTL DEF Spec

\* One command at a time that nothing interrupts leaves what it requires complete
\* also without --force: a lib or bin folder, or a cached url, then stands for a
\* complete package.
THEOREM SuccessesComplete ==
  ASSUME Careful
  PROVE  Spec => []SuccessComplete
<1>1. IInv => SuccessComplete
  BY Undisturbed, DoneIsComplete DEF SuccessComplete
<1> QED
  BY <1>1, IInvInit, IInvStep, PTL DEF Spec

----------------------------------------------------------------------------
(* Cycles *)

\* What visit u leads to in one step.
After(u, edges) == {e[2] : e \in {x \in edges : x[1] = u}}

\* The visits that lead to v.
Leading(v, edges) == {u \in Visit : v \in Reachable(After(u, edges), edges)}

\* What leads to one that leads to v leads to v.
LEMMA LeadingBackwards ==
  ASSUME NEW edges \in SUBSET (Visit \X Visit), NEW v, NEW e \in edges,
         e[2] \in Leading(v, edges)
  PROVE  e[1] \in Leading(v, edges)
<1>1. v \in Visit /\ e[1] \in Visit /\ e[2] \in Visit
  BY DEF Leading, Reachable
<1> SUFFICES ASSUME NEW S \in SUBSET Visit, After(e[1], edges) \subseteq S,
                    \A x \in edges : x[1] \in S => x[2] \in S
             PROVE  v \in S
  BY <1>1 DEF Leading, Reachable
<1>2. e[2] \in S
  BY DEF After
<1>3. After(e[2], edges) \subseteq S
  BY <1>2 DEF After
<1> QED
  BY <1>3 DEF Leading, Reachable

\* The visits that lead to one on a cycle go on for ever.
LEMMA CyclesAreEndless ==
  ASSUME NEW op, NEW v, <<op, v>> \in cycles
  PROVE  v \in Leading(v, NeedEdges(op)) /\ Endless(op, Leading(v, NeedEdges(op)))
<1> DEFINE E == NeedEdges(op)
           H == Leading(v, E)
<1>1. E \in SUBSET (Visit \X Visit)
  BY DEF NeedEdges, Recursive
<1>2. v \in H
  <2>1. PICK o \in Options :
          <<op, v>> \in {<<o, u>> : u \in {x \in Recursive : x \in Reachable(After(x, NeedEdges(o)), NeedEdges(o))}}
    BY DEF cycles, After
  <2>2. o = op /\ v \in Recursive /\ v \in Reachable(After(v, NeedEdges(o)), NeedEdges(o))
    BY <2>1
  <2> QED
    BY <2>2 DEF Leading, Recursive
<1>3. ASSUME NEW u \in H
      PROVE  u \in Recursive /\ \E x \in H : Needs(op, u[1], u[2], x)
  <2>1. PICK x \in H : x \in After(u, E)
    <3> SUFFICES ASSUME \A x \in After(u, E) : x \notin H PROVE FALSE
      OBVIOUS
    <3>1. Visit \ H \in SUBSET Visit /\ After(u, E) \subseteq Visit \ H
      BY <1>1 DEF After
    <3>2. \A e \in E : e[1] \in Visit \ H => e[2] \in Visit \ H
      BY <1>1, LeadingBackwards
    <3>3. v \in Visit \ H
      <4>1. v \in Reachable(After(u, E), E)
        BY <1>3 DEF Leading
      <4> HIDE DEF H, E
      <4> QED
        BY <3>1, <3>2, <4>1 DEF Reachable
    <3> QED
      BY <1>2, <3>3
  <2>2. PICK e \in E : e[1] = u /\ e[2] = x
    BY <2>1 DEF After
  <2> QED
    BY <2>1, <2>2 DEF NeedEdges
<1> QED
  BY <1>2, <1>3 DEF Endless

\* A run that leaves what it visits complete reads the lists of all that it visits;
\* from a cycle it never comes back.
LEMMA NoCycleDone ==
  ASSUME IInv, NEW p \in Proc, Succeeded(p), Forcing(p),
         NEW v \in Required(p), <<opts[p], v>> \in cycles
  PROVE  FALSE
<1> DEFINE E == NeedEdges(opts[p])
           H == Leading(v, E)
           roots == {u \in Visit : Needs(opts[p], project[p], "PACKAGE", u)}
<1>1. Forcing(p) /\ stack[p] = << >>
  BY DEF Succeeded, IInv, ControlInv
<1>2. v \in H /\ Endless(opts[p], H) /\ H \in SUBSET Visit
  BY CyclesAreEndless DEF Leading
<1>3. v \in Reachable(roots, E)
  BY RequiredIsReachable
<1>4. \E u \in H : Needs(opts[p], project[p], "PACKAGE", u)
  <2> SUFFICES ASSUME \A u \in H : u \notin roots PROVE FALSE
    BY <1>2
  <2>1. roots \subseteq Visit \ H /\ Visit \ H \in SUBSET Visit
    OBVIOUS
  <2>2. \A e \in E : e[1] \in Visit \ H => e[2] \in Visit \ H
    <3>1. E \in SUBSET (Visit \X Visit)
      BY DEF NeedEdges, Recursive
    <3> QED
      BY <3>1, LeadingBackwards
  <2> HIDE DEF E, H, roots
  <2>3. v \in Visit \ H
    BY <1>3, <2>1, <2>2 DEF Reachable
  <2> QED
    BY <1>2, <2>3
<1> HIDE DEF H
<1>5. PICK w \in Origin(p), u \in H, f \in FileName :
        \E i \in DOMAIN Lists[w[1]][f] : ToCome(p, w[1], f, i, u)
  BY <1>1, <1>2, <1>4 DEF IInv, ForcedInv, ForcedRun
<1>6. Range(<< >>) = {}
  <2>1. DOMAIN << >> = {}
    OBVIOUS
  <2> QED
    BY <2>1 DEF Range
<1> QED
  BY <1>1, <1>5, <1>6 DEF ToCome

\* A project one of whose required packages requires itself is never installed: the
\* recursion has no memory of where it was and ends with the native stack.
THEOREM CyclesNeverSucceed ==
  ASSUME Careful
  PROVE  Spec => []CycleNeverSucceeds
<1>1. IInv => CycleNeverSucceeds
  BY Undisturbed, NoCycleDone DEF CycleNeverSucceeds
<1> QED
  BY <1>1, IInvInit, IInvStep, PTL DEF Spec

----------------------------------------------------------------------------
(* Install implements Installer: each step of a process is, seen from the outside, a
   step of its command or no step at all. *)

\* What is seen of p's command.
Seen(p) == <<project[p], opts[p], outcome[p]>>

\* The mover alone changes its job and its result.
LEMMA JobOfMover ==
  ASSUME TypeInv, NEW p \in Proc, Step(p) \/ Environment(p)
  PROVE  /\ JobOf' = [JobOf EXCEPT ![p] = <<project'[p], opts'[p]>>]
         /\ ResultOf' = [ResultOf EXCEPT ![p] =
                           IF project'[p] = NoProject THEN "none" ELSE outcome'[p]]
<1>1. \A q \in Proc \ {p} : /\ project'[q] = project[q] /\ opts'[q] = opts[q]
                            /\ outcome'[q] = outcome[q]
  BY OthersUntouched
<1>2. JobOf' = [JobOf EXCEPT ![p] = <<project'[p], opts'[p]>>]
  BY <1>1 DEF JobOf
<1>3. ResultOf' = [ResultOf EXCEPT ![p] =
                     IF project'[p] = NoProject THEN "none" ELSE outcome'[p]]
  BY <1>1 DEF ResultOf
<1> QED
  BY <1>2, <1>3

\* A step that changes nothing of its command.
LEMMA SeenKept ==
  ASSUME TypeInv, NEW p \in Proc, Step(p) \/ Environment(p),
         \/ Seen(p)' = Seen(p)
         \/ project[p] = NoProject /\ project'[p] = NoProject /\ opts'[p] = opts[p]
  PROVE  UNCHANGED <<JobOf, ResultOf>>
<1>1. project'[p] = project[p] /\ opts'[p] = opts[p]
  BY DEF Seen
<1>2. JobOf[p] = <<project[p], opts[p]>>
  BY DEF JobOf
<1>3. ResultOf[p] = IF project[p] = NoProject THEN "none" ELSE outcome[p]
  BY DEF ResultOf
<1>4. ResultOf[p] = IF project'[p] = NoProject THEN "none" ELSE outcome'[p]
  BY <1>3 DEF Seen
<1>5. [JobOf EXCEPT ![p] = JobOf[p]] = JobOf
      /\ [ResultOf EXCEPT ![p] = ResultOf[p]] = ResultOf
  BY DEF JobOf, ResultOf
<1> QED
  BY <1>1, <1>2, <1>4, <1>5, JobOfMover

\* Steps that leave the folders and the tools' databases alone.
LEMMA InstalledKept ==
  ASSUME UNCHANGED <<disk, cut, system>> PROVE UNCHANGED InstalledDeps
BY DEF InstalledDeps, Installed, Unpacked

\* What an abstract process does, and what it is to be busy.
LEMMA BusyProcess ==
  ASSUME TypeInv, ControlInv, NEW p \in Proc
  PROVE  /\ JobOf[p] = Idle <=> project[p] = NoProject
         /\ project[p] # NoProject => JobOf[p] \in Project \X Options
         /\ project[p] # NoProject /\ outcome[p] = "none" => Abstract!Busy(p)
<1>1. JobOf[p] = <<project[p], opts[p]>>
  BY DEF JobOf
<1>2. project[p] = NoProject => opts[p] = NoOptions
  BY DEF ControlInv
<1>3. project[p] # NoProject => project[p] \in Project /\ opts[p] \in Options
  BY DEF ControlInv, TypeInv, TypeOK
<1>4. JobOf[p] = Idle <=> project[p] = NoProject
  BY <1>1, <1>2 DEF Idle
<1>5. project[p] # NoProject => ResultOf[p] = outcome[p]
  BY DEF ResultOf
<1> QED
  BY <1>1, <1>3, <1>4, <1>5 DEF Abstract!Busy

\* A command that fails.
LEMMA AbstractFail ==
  ASSUME TypeInv, ControlInv, NEW p \in Proc, Step(p) \/ Environment(p),
         Stop(p, "failed"), UNCHANGED <<disk, cut, system, command, begun, disturbed>>,
         outcome[p] = "none"
  PROVE  Abstract!Next \/ UNCHANGED Abstract!vars
<1>1. outcome'[p] = "failed" /\ project'[p] = project[p] /\ opts'[p] = opts[p]
  BY DEF Stop, command, TypeInv, TypeOK
<1>2. UNCHANGED InstalledDeps
  BY InstalledKept
<1>3. CASE project[p] = NoProject
  BY <1>1, <1>2, <1>3, SeenKept DEF Abstract!vars
<1>4. CASE project[p] # NoProject
  <2>1. ResultOf' = [ResultOf EXCEPT ![p] = "failed"]
    BY <1>1, <1>4, JobOfMover
  <2>2. JobOf' = JobOf
    <3>1. JobOf[p] = <<project[p], opts[p]>> /\ [JobOf EXCEPT ![p] = JobOf[p]] = JobOf
      BY DEF JobOf
    <3> QED
      BY <1>1, <3>1, JobOfMover
  <2>3. Abstract!Busy(p)
    BY <1>4, BusyProcess
  <2> QED
    BY <1>2, <2>1, <2>2, <2>3 DEF Abstract!Next, Abstract!Fail
<1> QED
  BY <1>3, <1>4

\* A process that ends.
LEMMA AbstractLeave ==
  ASSUME TypeInv, ControlInv, NEW p \in Proc, Extraction(p), Step(p) \/ Environment(p),
         Gone(p), UNCHANGED <<disk, cut, system>>
  PROVE  Abstract!Next \/ UNCHANGED Abstract!vars
<1>1. project'[p] = NoProject /\ opts'[p] = NoOptions /\ outcome'[p] = "none"
  BY DEF Gone, TypeInv, TypeOK
<1>2. UNCHANGED InstalledDeps
  BY InstalledKept
<1>3. CASE project[p] = NoProject
  <2>1. opts[p] = NoOptions
    BY <1>3 DEF ControlInv
  <2>2. begun[p] = {} /\ disturbed[p] = {}
    BY <1>3 DEF Extraction
  <2>3. UNCHANGED <<begun, disturbed>>
    BY <2>2 DEF Gone, TypeInv, TypeOK
  <2> QED
    BY <1>1, <1>2, <1>3, <2>1, <2>3, SeenKept DEF Abstract!vars
<1>4. CASE project[p] # NoProject
  <2>1. JobOf' = [JobOf EXCEPT ![p] = Idle] /\ ResultOf' = [ResultOf EXCEPT ![p] = "none"]
    BY <1>1, JobOfMover DEF Idle
  <2>2. JobOf[p] # Idle
    BY <1>4, BusyProcess
  <2>3. begun' = [begun EXCEPT ![p] = {}] /\ disturbed' = [disturbed EXCEPT ![p] = {}]
    BY DEF Gone
  <2> QED
    BY <1>2, <2>1, <2>2, <2>3 DEF Abstract!Next, Abstract!Leave
<1> QED
  BY <1>3, <1>4

\* A step that completes at most one package, of those begun.
LEMMA AbstractFinish ==
  ASSUME TypeInv, ControlInv, NEW p \in Proc, Step(p) \/ Environment(p),
         project[p] # NoProject, outcome[p] = "none", Seen(p)' = Seen(p),
         UNCHANGED <<begun, disturbed>>,
         NEW d \in begun[p], InstalledDeps' \in {InstalledDeps, InstalledDeps \union {d}}
  PROVE  Abstract!Next \/ UNCHANGED Abstract!vars
<1>1. UNCHANGED <<JobOf, ResultOf>>
  BY SeenKept
<1>2. Abstract!Busy(p)
  BY BusyProcess
<1> QED
  BY <1>1, <1>2 DEF Abstract!vars, Abstract!Next, Abstract!Finish

\* A package is begun.
LEMMA AbstractBegin ==
  ASSUME TypeInv, ControlInv, NEW p \in Proc, startInstall(p)
  PROVE  Abstract!Next
<1>1. /\ pc[p] = "run" /\ UNCHANGED <<disk, cut, system, command, outcome, disturbed>>
      /\ \E d \in Dep : begun' = [begun EXCEPT ![p] = @ \union {d}]
  BY LineTypes DEF startInstall, Visiting, Line, shared
<1>2. project[p] # NoProject /\ outcome[p] = "none"
  BY <1>1 DEF ControlInv
<1>3. UNCHANGED <<JobOf, ResultOf, InstalledDeps>> /\ Abstract!Busy(p)
  BY <1>1, <1>2, SeenKept, InstalledKept, BusyProcess DEF Seen, command, Step
<1> QED
  BY <1>1, <1>3 DEF Abstract!Next, Abstract!Begin

\* An entry of a package that p unpacks is opened or removed.
LEMMA AbstractRewrite ==
  ASSUME TypeInv, ControlInv, NEW p \in Proc, Extraction(p), openEntry(p) \/ unlinkEntry(p)
  PROVE  Abstract!Next
<1>1. UNCHANGED <<system, pc, command, outcome, begun>>
  BY DEF openEntry, unlinkEntry
<1>2. PICK d \in Dep :
        /\ Extracting(p, d)
        /\ disturb(p, d)
        /\ \E x \in Archive[d] : \/ /\ disk' = [disk EXCEPT ![d] = @ \union {x}]
                                   /\ cut' = cut \union {<<d, x>>}
                                \/ /\ disk' = [disk EXCEPT ![d] = @ \ {x}]
                                   /\ cut' = cut \ {<<d, x>>}
  BY DEF openEntry, unlinkEntry
<1>3. Unpacking(p, d) /\ d \in begun[p] /\ d \in Owner
  BY <1>2, ExtractingPackage DEF Extraction, Owner
<1>4. project[p] # NoProject /\ outcome[p] = "none"
  BY <1>3 DEF ControlInv, Unpacking
<1>5. UNCHANGED <<JobOf, ResultOf>> /\ Abstract!Busy(p)
  BY <1>1, <1>4, SeenKept, BusyProcess DEF Seen, command, Step, extract
<1>x. PICK x \in Archive[d] : \/ /\ disk' = [disk EXCEPT ![d] = @ \union {x}]
                                /\ cut' = cut \union {<<d, x>>}
                             \/ /\ disk' = [disk EXCEPT ![d] = @ \ {x}]
                                /\ cut' = cut \ {<<d, x>>}
  BY <1>2
<1>6. \A e \in Dep \ {d} : Installed(e)' <=> Installed(e)
  <2>1. \A e \in Dep \ {d} : disk'[e] = disk[e]
    BY <1>x DEF TypeInv, TypeOK, Owner
  <2>2. ASSUME NEW e \in Dep \ {d}, NEW y \in Archive[e]
        PROVE  <<e, y>> \in cut' <=> <<e, y>> \in cut
    <3>1. <<e, y>> # <<d, x>>
      OBVIOUS
    <3> QED
      BY <1>x, <3>1
  <2> QED
    BY <1>1, <2>1, <2>2 DEF Installed, Unpacked
<1>7. Installed(d)' => Installed(d)
  <2>1. <<d, x>> \in cut' \/ x \notin disk'[d]
    BY <1>x, <1>3 DEF TypeInv, TypeOK
  <2>2. ~Unpacked(d)'
    BY <2>1 DEF Unpacked
  <2> QED
    BY <1>1, <2>2 DEF Installed
<1>8. InstalledDeps' \in {InstalledDeps, InstalledDeps \ {d}}
  BY <1>6, <1>7 DEF InstalledDeps
<1> QED
  BY <1>1, <1>2, <1>3, <1>5, <1>8 DEF Abstract!Next, Abstract!Rewrite, disturb

\* A new command.
LEMMA AbstractStart ==
  ASSUME TypeInv, ControlInv, NEW p \in Proc, retrieve(p)
  PROVE  Abstract!Next
<1>1. PICK pr \in Project, o \in Options :
        /\ project' = [project EXCEPT ![p] = pr]
        /\ opts' = [opts EXCEPT ![p] = o]
        /\ outcome' = outcome \/ outcome' = [outcome EXCEPT ![p] = "failed"]
  BY DEF retrieve, Stop
<1>2. project[p] = NoProject /\ outcome[p] = "none"
  BY DEF retrieve, ControlInv
<1>3. /\ project'[p] = pr /\ opts'[p] = o /\ pr # NoProject
      /\ outcome'[p] \in {"none", "failed"}
  BY <1>1, <1>2, ConstantsAssumption DEF TypeInv, TypeOK
<1>4. JobOf' = [JobOf EXCEPT ![p] = <<pr, o>>]
  BY <1>3, JobOfMover DEF Environment
<1>5. ResultOf' = [ResultOf EXCEPT ![p] = outcome'[p]]
  BY <1>3, JobOfMover DEF Environment
<1>6. UNCHANGED <<InstalledDeps, begun, disturbed>>
  BY InstalledKept DEF retrieve, shared, history
<1>7. JobOf[p] = Idle
  BY <1>2, BusyProcess
<1> QED
  BY <1>3, <1>4, <1>5, <1>6, <1>7 DEF Abstract!Next, Abstract!Start

\* The last entry may complete the package.
LEMMA AbstractWrite ==
  ASSUME TypeInv, ControlInv, NEW p \in Proc, Extraction(p), writeEntry(p)
  PROVE  Abstract!Next \/ UNCHANGED Abstract!vars
<1>1. /\ open[p] # {} /\ cut' = cut \ open[p]
      /\ UNCHANGED <<disk, system, pc, command, outcome, begun, disturbed>>
  BY DEF writeEntry, history
<1>2. PICK c \in open[p] : TRUE
  BY <1>1
<1>3. \A e \in open[p] : Unpacking(p, e[1]) /\ e \in Dep \X Part
  BY ExtractingPackage DEF Extraction, TypeInv, TypeOK
<1>4. PICK d \in Dep : d = c[1] /\ Unpacking(p, d)
  BY <1>2, <1>3
<1>5. \A e \in open[p] : e[1] = d
  BY <1>3, <1>4, OnePackage DEF Unpacking
<1>6. \A f \in Dep \ {d} : Installed(f)' <=> Installed(f)
  BY <1>1, <1>5 DEF Installed, Unpacked
<1>7. Installed(d) => Installed(d)'
  BY <1>1 DEF Installed, Unpacked
<1>8. InstalledDeps' \in {InstalledDeps, InstalledDeps \union {d}}
  BY <1>6, <1>7 DEF InstalledDeps
<1>9. project[p] # NoProject /\ outcome[p] = "none" /\ d \in begun[p]
  BY <1>4 DEF ControlInv, Unpacking, Extraction
<1>10. Seen(p)' = Seen(p)
  BY <1>1 DEF Seen, command
<1> QED
  BY <1>1, <1>8, <1>9, <1>10, AbstractFinish DEF Step, extract

\* A tool that succeeds installs the package of the line.
LEMMA AbstractInstalled ==
  ASSUME TypeInv, ControlInv, NEW p \in Proc, Extraction(p), installSucceeds(p)
  PROVE  Abstract!Next \/ UNCHANGED Abstract!vars
<1>1. PICK i \in Left(p), repo \in {"primary", "alternate"} :
        /\ AtLine(p, i)
        /\ pc[p] \in {"install", "alternate"}
        /\ system' = IF ByTool(LineAt(p, i).dep, repo)
                     THEN system \union {LineAt(p, i).dep} ELSE system
  BY DEF installSucceeds, Installing
<1>2. PICK d \in Dep : d = LineAt(p, i).dep
  BY LineTypes DEF Line
<1>3. system' \in {system, system \union {d}}
  BY <1>1, <1>2
<1>4. project[p] # NoProject /\ outcome[p] = "none"
  BY <1>1 DEF ControlInv
<1>5. UNCHANGED <<disk, cut, command, outcome, begun, disturbed>>
  BY DEF installSucceeds
<1>6. \A e \in Dep \ {d} : Installed(e)' <=> Installed(e)
  BY <1>3, <1>5 DEF Installed, Unpacked
<1>7. Installed(d) => Installed(d)'
  BY <1>3, <1>5 DEF Installed, Unpacked
<1>8. InstalledDeps' \in {InstalledDeps, InstalledDeps \union {d}}
  BY <1>6, <1>7 DEF InstalledDeps
<1>9. Seen(p)' = Seen(p)
  BY <1>5 DEF Seen, command
<1>10. d \in begun[p]
  BY <1>1, <1>2 DEF Extraction, Unpacking, IsAt
<1> QED
  BY <1>4, <1>5, <1>8, <1>9, <1>10, AbstractFinish DEF Step

\* A clean takes packages away while nobody installs.
LEMMA AbstractRemove ==
  ASSUME TypeInv, ControlInv, NEW p \in Proc, removeEntry(p)
  PROVE  Abstract!Next \/ UNCHANGED Abstract!vars
<1>1. pc[p] = "clean" /\ UNCHANGED <<system, local>>
  BY DEF removeEntry
<1>2. \A q \in Proc : project[q] = NoProject
  BY <1>1 DEF ControlInv
<1>3. \A q \in Proc : JobOf[q] = Idle
  BY <1>2, BusyProcess
<1>4. UNCHANGED <<JobOf, ResultOf, begun, disturbed>>
  BY <1>1, SeenKept DEF Seen, local, command, history, Step
<1>5. CASE UNCHANGED <<disk, cut>>
  BY <1>1, <1>4, <1>5, InstalledKept DEF Abstract!vars
<1>6. CASE \E d \in Dep : \E x \in disk[d] :
             disk' = [disk EXCEPT ![d] = @ \ {x}] /\ cut' = cut \ {<<d, x>>}
  <2>1. PICK d \in Dep : \E x \in disk[d] :
          disk' = [disk EXCEPT ![d] = @ \ {x}] /\ cut' = cut \ {<<d, x>>}
    BY <1>6
  <2>2. PICK x \in disk[d] : disk' = [disk EXCEPT ![d] = @ \ {x}] /\ cut' = cut \ {<<d, x>>}
    BY <2>1
  <2>3. \A e \in Dep \ {d} : disk'[e] = disk[e]
    BY <2>2 DEF TypeInv, TypeOK
  <2>4. \A e \in Dep \ {d} : Installed(e)' <=> Installed(e)
    BY <1>1, <2>2, <2>3 DEF Installed, Unpacked
  <2>5. disk'[d] = disk[d] \ {x}
    BY <2>2 DEF TypeInv, TypeOK, Owner
  <2>6. Installed(d)' => Installed(d)
    BY <1>1, <2>2, <2>5 DEF Installed, Unpacked
  <2>7. CASE Installed(d) /\ ~Installed(d)'
    <3>1. d \in InstalledDeps /\ InstalledDeps' = InstalledDeps \ {d}
      BY <2>4, <2>7 DEF InstalledDeps
    <3> QED
      BY <1>3, <1>4, <3>1 DEF Abstract!Next, Abstract!Remove
  <2>8. CASE Installed(d) <=> Installed(d)'
    <3>1. UNCHANGED InstalledDeps
      BY <2>4, <2>8 DEF InstalledDeps
    <3> QED
      BY <1>4, <3>1 DEF Abstract!vars
  <2> QED
    BY <2>6, <2>7, <2>8
<1> QED
  BY <1>5, <1>6 DEF removeEntry

\* The last call returns: with everything there that a forced install needs.
LEMMA AbstractReturn ==
  ASSUME TypeInv, ControlInv, IInv', NEW p \in Proc, generateConditions(p)
  PROVE  Abstract!Next \/ UNCHANGED Abstract!vars
<1>1. /\ pc[p] = "run" /\ UNCHANGED <<disk, cut, system, command, begun, disturbed>>
      /\ Stop(p, "ok") \/ UNCHANGED outcome
  BY DEF generateConditions, history
<1>2. project[p] # NoProject /\ outcome[p] = "none"
  BY <1>1 DEF ControlInv
<1>3. UNCHANGED InstalledDeps
  BY <1>1, InstalledKept
<1>4. CASE UNCHANGED outcome
  <2>1. Seen(p)' = Seen(p)
    BY <1>1, <1>4 DEF Seen, command
  <2> QED
    BY <1>1, <1>3, <2>1, SeenKept DEF Abstract!vars, Step
<1>5. CASE Stop(p, "ok")
  <2>1. outcome'[p] = "ok" /\ project'[p] = project[p] /\ opts'[p] = opts[p]
    BY <1>1, <1>5 DEF Stop, command, TypeInv, TypeOK
  <2>2. ForcedRunComplete'
    BY ForcedComplete, PTL
  <2>3. JobOf[p] = <<project[p], opts[p]>> /\ JobOf[p] \in Project \X Options
    BY <1>2, BusyProcess DEF JobOf
  <2>4. ASSUME disturbed[p] = {}, NEW d \in NeedOf[JobOf[p]] PROVE d \in InstalledDeps
    <3>1. /\ d \in Dep /\ opts[p].force /\ ~opts[p].remoteOnly
          /\ \E t \in FileType : <<project[p], opts[p], <<d, t>>>> \in requires
      BY <2>3, <2>4 DEF NeedOf
    <3>2. PICK t \in FileType : <<project[p], opts[p], <<d, t>>>> \in requires
      BY <3>1
    <3>3. Succeeded(p)' /\ opts'[p].force /\ disturbed'[p] = {}
      BY <1>1, <1>2, <2>1, <2>4, <3>1 DEF Succeeded
    <3>4. <<d, t>> \in Required(p)'
      BY <2>1, <3>1, <3>2 DEF Required, Visit
    <3>5. Installed(d)'
      BY <2>2, <3>3, <3>4 DEF ForcedRunComplete, Complete
    <3> QED
      BY <1>1, <3>1, <3>5 DEF InstalledDeps, Installed, Unpacked
  <2>5. ResultOf' = [ResultOf EXCEPT ![p] = "ok"]
    BY <1>2, <2>1, JobOfMover DEF Step
  <2>6. JobOf' = JobOf
    <3>1. [JobOf EXCEPT ![p] = JobOf[p]] = JobOf
      BY DEF JobOf
    <3> QED
      BY <2>1, <2>3, <3>1, JobOfMover DEF Step
  <2>7. Abstract!Busy(p)
    BY <1>2, BusyProcess
  <2> QED
    BY <1>1, <1>3, <2>4, <2>5, <2>6, <2>7 DEF Abstract!Next, Abstract!Succeed
<1> QED
  BY <1>1, <1>4, <1>5

\* Every step of Install is a step of Installer, or none.
LEMMA AbstractStep ==
  ASSUME IInv, IInv', [Next]_vars
  PROVE  Abstract!Next \/ UNCHANGED Abstract!vars
<1> USE DEF IInv
<1>1. CASE UNCHANGED vars
  BY <1>1 DEF vars, shared, local, command, history, Abstract!vars, JobOf, ResultOf,
     InstalledDeps, Installed, Unpacked
<1>2. CASE Next
  <2> PICK p \in Proc : Step(p) \/ Environment(p)
    BY <1>2 DEF Next
  <2>own. Extraction(p)
    BY DEF ExtractInv
  <2>same. ASSUME UNCHANGED <<disk, cut, system, command, outcome, begun, disturbed>>
           PROVE  Abstract!Next \/ UNCHANGED Abstract!vars
    BY <2>same, SeenKept, InstalledKept DEF Seen, command, Abstract!vars
  <2>other. ASSUME pc[p] \in {"idle", "clean"},
                   UNCHANGED <<disk, cut, system, command, begun, disturbed>>
            PROVE  Abstract!Next \/ UNCHANGED Abstract!vars
    <3>1. project[p] = NoProject
      BY <2>other DEF ControlInv
    <3> QED
      BY <2>other, <3>1, SeenKept, InstalledKept DEF command, Abstract!vars
  <2>fails. ASSUME Stop(p, "failed"),
                   UNCHANGED <<disk, cut, system, command, begun, disturbed>>,
                   pc[p] \in {"run", "install", "alternate"}
            PROVE  Abstract!Next \/ UNCHANGED Abstract!vars
    <3>1. outcome[p] = "none"
      BY <2>fails DEF ControlInv
    <3> QED
      BY <2>fails, <3>1, AbstractFail
  <2>1. CASE retrieve(p)
    BY <2>1, AbstractStart
  <2>2. CASE retrieveDependencies(p)
    BY <2>2, <2>same DEF retrieveDependencies, shared, history
  <2>3. CASE parseFile(p)
    BY <2>3, <2>same, ParsedKept DEF shared, history
  <2>4. CASE invalidFile(p)
    BY <2>4, <2>fails, InvalidKept DEF shared, history
  <2>5. CASE generateConditions(p)
    BY <2>5, AbstractReturn
  <2>6. CASE addArtefactRemote(p)
    <3>1. /\ UNCHANGED <<disk, cut, system, command, begun, disturbed>> /\ pc[p] = "run"
          /\ UNCHANGED outcome \/ Stop(p, "failed")
      BY <2>6, Zenon DEF addArtefactRemote, history
    <3> QED
      BY <3>1, <2>same, <2>fails
  <2>7. CASE noAlternate(p)
    BY <2>7, <2>fails DEF noAlternate, shared, history
  <2>8. CASE alreadyInstalled(p)
    BY <2>8, <2>same DEF alreadyInstalled, shared
  <2>9. CASE startInstall(p)
    BY <2>9, AbstractBegin
  <2>10. CASE openEntry(p) \/ unlinkEntry(p)
    BY <2>10, <2>own, AbstractRewrite
  <2>11. CASE installSucceeds(p)
    BY <2>11, <2>own, AbstractInstalled
  <2>12. CASE tryAlternate(p)
    BY <2>12, <2>same DEF tryAlternate, shared, history
  <2>13. CASE installFails(p)
    BY <2>13, <2>fails DEF installFails, shared, history
  <2>14. CASE stackOverflow(p)
    BY <2>14, <2>own, AbstractLeave DEF stackOverflow, shared
  <2>15. CASE removeEntry(p)
    BY <2>15, AbstractRemove
  <2>16. CASE cleanDone(p)
    BY <2>16, <2>other DEF cleanDone, history
  <2>17. CASE cleanFails(p)
    BY <2>17, <2>other DEF cleanFails, shared, history
  <2>18. CASE flush(p)
    BY <2>18, <2>own, <2>same, AbstractLeave DEF flush, files, history
  <2>19. CASE writeCache(p)
    BY <2>19, <2>own, AbstractLeave DEF writeCache, files
  <2>20. CASE otherCommand(p)
    BY <2>20, <2>other DEF otherCommand, shared, history
  <2>21. CASE clean(p)
    BY <2>21, <2>same DEF clean, shared, history
  <2>22. CASE crash(p)
    BY <2>22, <2>own, AbstractLeave DEF crash, shared
  <2>23. CASE writeEntry(p)
    BY <2>23, <2>own, AbstractWrite
  <2>24. CASE skipEntry(p)
    BY <2>24, <2>same DEF skipEntry, shared, history
  <2>25. CASE writePart(p)
    BY <2>25, <2>same DEF writePart, files, local, command, history
  <2> QED
    BY <2>1, <2>2, <2>3, <2>4, <2>5, <2>6, <2>7, <2>8, <2>9, <2>10, <2>11, <2>12,
       <2>13, <2>14, <2>15, <2>16, <2>17, <2>18, <2>19, <2>20, <2>21, <2>22,
       <2>23, <2>24, <2>25
    DEF Step, Environment, extract
<1> QED
  BY <1>1, <1>2

\* The first state of install is one of the installer.
LEMMA AbstractInit == Init => Abstract!Init
<1> SUFFICES ASSUME Init PROVE Abstract!Init
  OBVIOUS
<1>1. JobOf = [p \in Proc |-> Idle] /\ ResultOf = [p \in Proc |-> "none"]
  BY DEF Init, JobOf, ResultOf, Idle
<1>2. \A d \in Dep : disk[d] = {} /\ d \notin system
  BY ConstantsAssumption DEF Init, Owner
<1>3. InstalledDeps = {}
  BY <1>2 DEF InstalledDeps, Installed, Unpacked
<1>4. begun = [p \in Proc |-> {}] /\ disturbed = [p \in Proc |-> {}]
  BY DEF Init
<1> QED
  BY <1>1, <1>3, <1>4 DEF Abstract!Init

\* The whole program, processes interleaved and stopped at any point, implements the
\* installer in which an undisturbed forced command succeeds only when everything it
\* needs is installed, and a package that some command installs stops being complete
\* only while one that has begun it unpacks it, which disturbs all others that have.
THEOREM InstallImplementsInstaller == Spec => ImplementsInstaller
<1>1. IInv /\ IInv' /\ [Next]_vars => [Abstract!Next]_Abstract!vars
  BY AbstractStep
<1> QED
  BY <1>1, AbstractInit, IInvInit, IInvStep, PTL DEF Spec, ImplementsInstaller, Abstract!Spec
==============================================================================
