------------------------- MODULE CommandLineProofs -------------------------
(***************************************************************************)
(* What commands run with: a generator that is known, and what was once    *)
(* asked of the profile they read.                                         *)
(***************************************************************************)
EXTENDS CommandLine, TLAPS

----------------------------------------------------------------------------
(* Functions *)

\* Over(f, g) is f where f is defined, and g elsewhere.
LEMMA OverValues ==
  ASSUME NEW f, NEW g
  PROVE  /\ DOMAIN Over(f, g) = DOMAIN f \union DOMAIN g
         /\ \A x \in DOMAIN f : Over(f, g)[x] = f[x]
         /\ \A x \in DOMAIN g \ DOMAIN f : Over(f, g)[x] = g[x]
BY DEF Over

\* One key set over g.
LEMMA OverOne ==
  ASSUME NEW x, NEW v, NEW g
  PROVE  /\ DOMAIN Over(One(x, v), g) = DOMAIN g \union {x}
         /\ Over(One(x, v), g)[x] = v
         /\ \A y \in DOMAIN g \ {x} : Over(One(x, v), g)[y] = g[y]
BY DEF Over, One

\* The empty profile has no key.
LEMMA NoneIsEmpty == DOMAIN None = {}
BY DEF None

----------------------------------------------------------------------------
(* Options *)

\* A key is a command and an option.
LEMMA KeysArePairs ==
  ASSUME NEW k \in Key
  PROVE  k = <<k[1], k[2]>>
BY DEF Key, Options, Bundling, Building, Profiling, Initialising, Installing, Looking, Running,
   Packaging

\* No command declares an option by the name of a general one.
LEMMA GeneralNames ==
  ASSUME NEW k \in Key
  PROVE  k[1] = None <=> k[2] \in General
<1>1. CASE k \in Options(None, General)
  BY <1>1 DEF Options
<1>2. CASE k \in Bundling
  BY <1>2 DEF Bundling, Options, General, None
<1>3. CASE k \in Building
  BY <1>3 DEF Building, Options, General, None
<1>4. CASE k \in Profiling
  BY <1>4 DEF Profiling, Options, General, None
<1>5. CASE k \in Initialising
  BY <1>5 DEF Initialising, Options, General, None
<1>6. CASE k \in Installing
  BY <1>6 DEF Installing, Options, General, None
<1>7. CASE k \in Looking
  BY <1>7 DEF Looking, Options, General, None
<1>8. CASE k \in Running
  BY <1>8 DEF Running, Options, General, None
<1>9. CASE k \in Packaging
  BY <1>9 DEF Packaging, Options, General, None
<1>10. CASE k \in Options(<<"parse">>, {"file"})
  BY <1>10 DEF Options, General, None
<1> QED
  BY <1>1, <1>2, <1>3, <1>4, <1>5, <1>6, <1>7, <1>8, <1>9, <1>10 DEF Key

\* A general option is a member of CmdOptions of its own.
LEMMA GeneralMembers ==
  ASSUME NEW k \in Key, k[1] = None
  PROVE  k \in Members /\ KeysOf[k] = {k}
<1>1. k[2] \in General /\ k[2] \notin Owned
  BY GeneralNames DEF General, Owned
<1>2. Member(k) = k
  BY <1>1, KeysArePairs DEF Member
<1>3. ASSUME NEW l \in Key, Member(l) = k PROVE l = k
  <2>1. CASE l[2] \in Owned
    BY <2>1, <1>3 DEF Member
  <2>2. CASE l[2] \notin Owned
    <3>1. <<None, l[2]>> = k
      BY <2>2, <1>3 DEF Member
    <3>2. l[2] = k[2] /\ l[1] = None
      BY <3>1, <1>1, GeneralNames
    <3> QED
      BY <3>2, KeysArePairs
  <2> QED
    BY <2>1, <2>2
<1> QED
  BY <1>2, <1>3 DEF Members, KeysOf

\* A subcommand is one of a command.
LEMMA CommandPaths ==
  ASSUME NEW p \in Path, p # None
  PROVE  <<p[1]>> \in Path
<1> DEFINE Twos == {<<"info", "pkg_systemfile">>, <<"profile", "init">>, <<"profile", "display">>,
                    <<"init", "vcpkg">>, <<"init", "artifactpkg">>, <<"init", "wizards">>,
                    <<"init", "brew">>, <<"remote", "listfile">>, <<"remote", "add">>,
                    <<"remote", "list">>, <<"package", "compress">>}
<1>1. p \in Twos \/ p = <<p[1]>>
  <2>1. CASE p \in {k[1] : k \in Key}
    <3>1. PICK k \in Key : p = k[1]
      BY <2>1
    <3> QED
      BY <3>1 DEF Key, Options, Bundling, Building, Profiling, Initialising, Installing, Looking,
         Running, Packaging
  <2> QED
    BY <2>1 DEF Path
<1>2. <<"info">> \in Path /\ <<"init">> \in Path /\ <<"package">> \in Path
  <2>1. /\ <<<<"info">>, "file">> \in Key /\ <<<<"init">>, "--tag">> \in Key
        /\ <<<<"package">>, "--mode">> \in Key
    BY DEF Key, Options, Building, Initialising, Packaging
  <2> QED
    BY <2>1 DEF Path
<1>3. <<"profile">> \in Path /\ <<"remote">> \in Path
  BY DEF Path
<1> QED
  BY <1>1, <1>2, <1>3

\* What a command line gives are declared options.
LEMMA GivenKeys ==
  ASSUME NEW i \in Parsed
  PROVE  DOMAIN Given(i) \subseteq Key
<1>1. /\ i.path \in Path \ {None} /\ DOMAIN i.head \subseteq General
      /\ DOMAIN i.tail \subseteq UNION {Declared[q] : q \in Scope(i.path)}
  BY DEF Parsed, Parses
<1>2. DOMAIN Given(i) = {<<None, o>> : o \in DOMAIN i.head}
                         \union {KeyOf(i.path, o) : o \in DOMAIN i.tail}
  BY DEF Given, Keyed
<1>3. ASSUME NEW q \in Path, NEW o \in Declared[q] PROVE <<q, o>> \in Key
  BY <1>3, KeysArePairs DEF Declared
<1>4. \A o \in DOMAIN i.head : <<None, o>> \in Key
  BY <1>1 DEF Key, Options
<1>5. ASSUME NEW o \in DOMAIN i.tail PROVE KeyOf(i.path, o) \in Key
  <2>1. PICK q \in Scope(i.path) : o \in Declared[q]
    BY <1>1
  <2>2. q \in Path /\ q \in {i.path, <<i.path[1]>>, None}
    BY DEF Scope
  <2> QED
    BY <1>1, <1>3, <2>1, <2>2, CommandPaths DEF KeyOf
<1> QED
  BY <1>2, <1>4, <1>5

\* A general option that the command line does not give is the profile's.
LEMMA ProfileSettings ==
  ASSUME NEW cli, NEW prof, NEW dflt, NEW k \in Key, k[1] = None,
         k \notin DOMAIN cli, k \in DOMAIN prof
  PROVE  Settings(cli, prof, dflt)[k] = prof[k]
<1>1. k \in Members /\ KeysOf[k] = {k}
  BY GeneralMembers
<1>2. KeysOf[k] \intersect DOMAIN cli = {} /\ KeysOf[k] \intersect DOMAIN prof = {k}
  BY <1>1
<1>3. LastOf({k}) = k
  <2>1. \E l \in {k} : \A j \in {k} : Place(j) <= Place(l)
    <3>1. Place(k) \in Int
      BY DEF Place, Order
    <3> QED
      BY <3>1
  <2> QED
    BY <2>1 DEF LastOf
<1> QED
  BY <1>1, <1>2, <1>3 DEF Settings

----------------------------------------------------------------------------
(* Commands *)

\* The defaults depend on the machine and the version only.
LEMMA DefaultsKept ==
  ASSUME UNCHANGED <<host, version>> PROVE UNCHANGED Defaults
BY DEF host, Defaults, Default, Root

\* A process has parsed the command it is in.
GoodProc(r) ==
  /\ r = [pc |-> r.pc, inv |-> r.inv, profile |-> r.profile]
  /\ r.pc \in {"open", "write", "run", "idle", "refused", "done"}
  /\ r.pc \in {"open", "write", "run"} => r.inv \in Parsed
ProcInv == DOMAIN proc = Process /\ \A p \in Process : GoodProc(proc[p])

KnownInv == ProcInv /\ GeneratorKnown

\* The mover's next state; the others stay.
LEMMA Moved ==
  ASSUME ProcInv, NEW p \in Process, NEW s, To(p, s)
  PROVE  /\ DOMAIN proc' = Process
         /\ proc'[p] = [pc |-> s, inv |-> proc[p].inv, profile |-> proc[p].profile]
         /\ \A q \in Process \ {p} : proc'[q] = proc[q]
BY DEF ProcInv, GoodProc, To

\* The mover begins a command, with the profile that it reads.
LEMMA Gone ==
  ASSUME ProcInv, NEW p \in Process, NEW i, NEW s, Go(p, i, s)
  PROVE  /\ DOMAIN proc' = Process
         /\ i \in Parsed => proc'[p] = [pc |-> s, inv |-> i, profile |-> ProfileOf(i)]
         /\ i \notin Parsed => proc'[p] = [pc |-> s, inv |-> i, profile |-> None]
         /\ \A q \in Process \ {p} : proc'[q] = proc[q]
BY DEF ProcInv, Go, Idle

\* The mover's record alone is in question.
LEMMA ProcInvMove ==
  ASSUME ProcInv, NEW p \in Process, DOMAIN proc' = Process, GoodProc(proc'[p]),
         \A q \in Process \ {p} : proc'[q] = proc[q]
  PROVE  ProcInv'
<1>1. ASSUME NEW q \in Process PROVE GoodProc(proc'[q])
  <2>1. CASE q # p
    BY <2>1 DEF ProcInv
  <2> QED
    BY <2>1
<1> QED
  BY <1>1 DEF ProcInv, GoodProc

\* A command that was accepted runs with options that are valid.
Known(q) == Runs(q) => At(Set(q), "--generator") \in generatorTypeMap

\* What a running process looks up stays known while others move.
LEMMA KnownKept ==
  ASSUME ProcInv, UNCHANGED <<host, version>>, NEW q \in Process, Known(q),
         proc'[q] = proc[q] \/ proc'[q].pc # "run"
  PROVE  Known(q)'
<1>1. UNCHANGED Defaults
  BY DefaultsKept
<1> QED
  BY <1>1 DEF Known, Runs, Set, Effective, At

\* A command that was accepted knows its generator.
LEMMA KnownStart ==
  ASSUME ProcInv, NEW p \in Process, NEW i \in Invocation, NEW s,
         Accepted(i), Go(p, i, s)
  PROVE  Known(p)'
<1>1. i \in Parsed /\ At(Effective(i, ProfileOf(i)), "--generator") \in Valid.generator
  BY DEF Accepted, Validates
<1>2. proc'[p] = [pc |-> s, inv |-> i, profile |-> ProfileOf(i)]
  BY <1>1, Gone
<1>3. UNCHANGED Defaults
  BY DefaultsKept DEF Go
<1>4. Valid.generator = generatorTypeMap
  BY DEF Valid, generatorTypeMap
<1>5. proc'[p].inv = i /\ proc'[p].profile = ProfileOf(i)
  BY <1>2
<1> QED
  BY <1>1, <1>3, <1>4, <1>5 DEF Known, Set, Effective, At

\* At first no command runs.
LEMMA KnownInvInit == Init => KnownInv
<1> SUFFICES ASSUME Init PROVE KnownInv
  OBVIOUS
<1>1. \A p \in Process : proc[p] = [pc |-> "idle", inv |-> <<>>, profile |-> None]
  BY DEF Init, Idle
<1>2. DOMAIN proc = Process
  BY DEF Init
<1> QED
  BY <1>1, <1>2 DEF KnownInv, ProcInv, GoodProc, GeneratorKnown, Runs

\* No step makes a process look up what it has not validated.
LEMMA KnownInvStep == KnownInv /\ [Next]_vars => KnownInv'
<1> SUFFICES ASSUME KnownInv, [Next]_vars PROVE KnownInv'
  OBVIOUS
<1> USE DEF KnownInv
<1>known. \A q \in Process : Known(q)
  BY DEF GeneratorKnown, Known
<1>goal. ASSUME ProcInv', \A q \in Process : Known(q)' PROVE KnownInv'
  BY <1>goal DEF GeneratorKnown, Known
<1>1. CASE UNCHANGED vars
  <2>1. ProcInv'
    BY <1>1 DEF vars, ProcInv, GoodProc
  <2>2. \A q \in Process : Known(q)'
    BY <1>1, <1>known, KnownKept DEF vars, host
  <2> QED
    BY <2>1, <2>2, <1>goal
<1>2. CASE edit \/ upgrade
  <2>1. \A q \in Process : proc'[q] = [pc |-> "idle", inv |-> <<>>, profile |-> None]
    BY <1>2 DEF edit, upgrade, Idle
  <2>2. DOMAIN proc' = Process
    BY <1>2 DEF edit, upgrade
  <2>3. ProcInv'
    BY <2>1, <2>2 DEF ProcInv, GoodProc
  <2>4. \A q \in Process : Known(q)'
    BY <2>1 DEF Known, Runs
  <2> QED
    BY <2>3, <2>4, <1>goal
<1>3. ASSUME NEW p \in Process,
             \/ parseArguments(p) \/ refuse(p) \/ displayProfile(p) \/ initProfile(p)
             \/ openProfile(p) \/ openFails(p) \/ writeConfigurationFile(p) \/ kill(p)
      PROVE  KnownInv'
  <2>1. UNCHANGED <<host, version>>
    BY <1>3 DEF parseArguments, refuse, displayProfile, initProfile, Go, openProfile, openFails,
       writeConfigurationFile, kill
  <2>2. CASE parseArguments(p) \/ displayProfile(p) \/ initProfile(p)
    <3>1. PICK i \in Invocation, s \in {"run", "open"} : Accepted(i) /\ Go(p, i, s)
      BY <2>2 DEF parseArguments, displayProfile, initProfile
    <3>2. i \in Parsed
      BY <3>1 DEF Accepted
    <3>3. ProcInv'
      <4>1. proc'[p] = [pc |-> s, inv |-> i, profile |-> ProfileOf(i)]
        BY <3>1, <3>2, Gone
      <4>2. GoodProc(proc'[p])
        BY <3>2, <4>1 DEF GoodProc
      <4> QED
        BY <3>1, <4>2, Gone, ProcInvMove
    <3>4. ASSUME NEW q \in Process PROVE Known(q)'
      <4>1. CASE q = p
        BY <3>1, <4>1, KnownStart
      <4>2. CASE q # p
        BY <2>1, <3>1, <4>2, <1>known, Gone, KnownKept
      <4> QED
        BY <4>1, <4>2
    <3> QED
      BY <3>3, <3>4, <1>goal
  <2>3. CASE refuse(p)
    <3>1. PICK i \in Invocation : Go(p, i, "refused")
      BY <2>3 DEF refuse
    <3>2. proc'[p].pc = "refused" /\ GoodProc(proc'[p])
      <4>1. \E f : proc'[p] = [pc |-> "refused", inv |-> i, profile |-> f]
        BY <3>1, Gone
      <4> QED
        BY <4>1 DEF GoodProc
    <3>3. ProcInv'
      BY <3>1, <3>2, Gone, ProcInvMove
    <3>4. ASSUME NEW q \in Process PROVE Known(q)'
      <4>1. proc'[q] = proc[q] \/ proc'[q].pc # "run"
        BY <3>1, <3>2, Gone
      <4> QED
        BY <2>1, <4>1, <1>known, KnownKept
    <3> QED
      BY <3>3, <3>4, <1>goal
  <2>4. CASE openProfile(p) \/ openFails(p) \/ writeConfigurationFile(p)
    <3>1. PICK s \in {"write", "done"} : To(p, s)
      BY <2>4 DEF openProfile, openFails, writeConfigurationFile
    <3>2. proc[p].pc \in {"open", "write"}
      BY <2>4 DEF openProfile, openFails, writeConfigurationFile
    <3>3. proc'[p].pc = s /\ GoodProc(proc'[p])
      <4>1. proc'[p] = [pc |-> s, inv |-> proc[p].inv, profile |-> proc[p].profile]
        BY <3>1, Moved
      <4>2. proc[p].inv \in Parsed
        BY <3>2 DEF ProcInv, GoodProc
      <4> QED
        BY <4>1, <4>2 DEF GoodProc
    <3>4. ProcInv'
      BY <3>1, <3>3, Moved, ProcInvMove
    <3>5. ASSUME NEW q \in Process PROVE Known(q)'
      <4>1. proc'[q] = proc[q] \/ proc'[q].pc # "run"
        BY <3>1, <3>3, Moved
      <4> QED
        BY <2>1, <4>1, <1>known, KnownKept
    <3> QED
      BY <3>4, <3>5, <1>goal
  <2>5. CASE kill(p)
    <3>1. proc' = [proc EXCEPT ![p] = Idle]
      BY <2>5 DEF kill
    <3>2. ProcInv'
      BY <3>1 DEF ProcInv, GoodProc, Idle
    <3>3. ASSUME NEW q \in Process PROVE Known(q)'
      <4>1. proc'[q] = proc[q] \/ proc'[q].pc # "run"
        BY <3>1 DEF ProcInv, Idle
      <4> QED
        BY <2>1, <4>1, <1>known, KnownKept
    <3> QED
      BY <3>2, <3>3, <1>goal
  <2> QED
    BY <1>3, <2>2, <2>3, <2>4, <2>5
<1> QED
  BY <1>1, <1>2, <1>3 DEF Next

\* No command meets a generator without a file, wherever its name came from: the
\* command line, a profile made or edited by hand, the default.
THEOREM GeneratorsAreKnown == Spec => []GeneratorKnown
<1>1. KnownInv => GeneratorKnown
  BY DEF KnownInv
<1> QED
  BY <1>1, KnownInvInit, KnownInvStep, PTL DEF Spec

----------------------------------------------------------------------------
(* What is asked of a profile *)

\* Commands run one at a time.  A command that starts while another has its
\* profile open reads an empty one.
Alone == \A p, q \in Process : p = q

\* The profile has the settings that were asked for and that are written as they are.
Holds(prof, w) ==
  \A k \in DOMAIN w :
    k[1] = None /\ w[k] \notin DOMAIN Altered => k \in DOMAIN prof /\ prof[k] = w[k]

Askable(w) == DOMAIN w \subseteq {k \in Key : k[2] # "--profile"}

\* A profile that is being written is empty for a moment.
Emptied(n) == \E p \in Process : proc[p].pc = "write" /\ Target(proc[p].inv, Set(p)) = n

WishInv ==
  /\ DOMAIN wish \subseteq DOMAIN profiles
  /\ \A n : Emptied(n) => n \in DOMAIN profiles
  /\ \A n \in DOMAIN wish : Askable(wish[n]) /\ (Holds(profiles[n], wish[n]) \/ Emptied(n))

\* So has the profile that a process has read.
ReadInv ==
  \A p \in Process :
    proc[p].pc \in {"open", "write", "run"} => Holds(proc[p].profile, WishOf(Reads(proc[p].inv)))

IInv == KnownInv /\ WishInv /\ ReadInv

\* A profile of which nothing was asked holds it.
LEMMA NothingAsked ==
  ASSUME NEW prof
  PROVE  Askable(None) /\ Holds(prof, None)
BY NoneIsEmpty DEF Askable, Holds

\* What was asked of a profile is what a command line can ask.
LEMMA WishesAskable ==
  ASSUME WishInv, NEW n
  PROVE  Askable(WishOf(n))
BY NothingAsked DEF WishInv, WishOf

\* What a process reads holds what is asked, when nothing writes.
LEMMA ReadHolds ==
  ASSUME WishInv, NEW i, \A p \in Process : proc[p].pc # "write"
  PROVE  Holds(ProfileOf(i), WishOf(Reads(i)))
<1>1. CASE Reads(i) \in DOMAIN wish
  <2>1. Reads(i) \in DOMAIN profiles /\ Holds(profiles[Reads(i)], wish[Reads(i)])
    BY <1>1 DEF WishInv, Emptied
  <2> QED
    BY <1>1, <2>1 DEF ProfileOf, WishOf
<1>2. CASE Reads(i) \notin DOMAIN wish
  BY <1>2, NothingAsked DEF WishOf
<1> QED
  BY <1>1, <1>2

\* A profile that is written holds what was asked of the one read and what the
\* command line gives.
LEMMA WrittenHolds ==
  ASSUME NEW i \in Parsed, NEW s, NEW prof, NEW w, Askable(w), Holds(prof, w)
  PROVE  Askable(Over(Asked(i), w)) /\ Holds(Written(i, s, prof), Over(Asked(i), w))
<1> DEFINE W == Over(Asked(i), w)
           T == Written(i, s, prof)
<1>1. DOMAIN Asked(i) = {k \in DOMAIN Given(i) : k[1] = None /\ k[2] # "--profile"}
      /\ \A k \in DOMAIN Asked(i) : Asked(i)[k] = Given(i)[k]
  BY DEF Asked
<1>2. DOMAIN W = DOMAIN Asked(i) \union DOMAIN w
  BY OverValues
<1>3. DOMAIN Asked(i) \subseteq {k \in Key : k[2] # "--profile"}
  BY <1>1, GivenKeys
<1>4. Askable(W)
  BY <1>2, <1>3 DEF Askable
<1>5. ASSUME NEW k \in DOMAIN W, k[1] = None, W[k] \notin DOMAIN Altered
      PROVE  k \in DOMAIN T /\ T[k] = W[k]
  <2>1. k \in Key /\ k[2] # "--profile" /\ k[1] # <<"run">>
    BY <1>4, <1>5 DEF Askable, None
  <2>2. CASE k \in DOMAIN Asked(i)
    <3>1. k \in DOMAIN Given(i) /\ W[k] = Given(i)[k]
      BY <1>1, <2>2, OverValues
    <3> QED
      BY <1>5, <2>1, <3>1 DEF Written
  <2>3. CASE k \notin DOMAIN Asked(i)
    <3>1. k \in DOMAIN w /\ W[k] = w[k]
      <4>1. k \in DOMAIN w \ DOMAIN Asked(i)
        BY <1>2, <1>5, <2>3
      <4> QED
        BY <4>1 DEF Over
    <3>2. k \notin DOMAIN Given(i)
      BY <1>1, <1>5, <2>1, <2>3
    <3>3. k \in DOMAIN prof /\ prof[k] = w[k]
      BY <1>5, <3>1 DEF Holds
    <3> QED
      BY <1>5, <2>1, <3>1, <3>2, <3>3 DEF Written
  <2> QED
    BY <2>2, <2>3
<1>6. Holds(T, W)
  BY <1>5 DEF Holds
<1> QED
  BY <1>4, <1>6

\* At first nothing was asked of any profile.
LEMMA IInvInit == Init => IInv
<1> SUFFICES ASSUME Init PROVE IInv
  OBVIOUS
<1>1. wish = None /\ \A p \in Process : proc[p] = Idle
  BY DEF Init
<1>2. WishInv
  <2>1. \A n : ~Emptied(n)
    BY <1>1 DEF Emptied, Idle
  <2> QED
    BY <1>1, <2>1, NoneIsEmpty DEF WishInv
<1>3. ReadInv
  BY <1>1 DEF ReadInv, Idle
<1> QED
  BY <1>2, <1>3, KnownInvInit DEF IInv, KnownInv

\* Every step keeps what was asked, one command at a time.
LEMMA IInvStep == ASSUME Alone, IInv, [Next]_vars PROVE IInv'
<1> USE DEF IInv
<1>proc. ProcInv /\ KnownInv'
  BY KnownInvStep DEF KnownInv
<1>only. \A p, q \in Process : p = q
  BY DEF Alone
<1>1. CASE UNCHANGED vars
  <2>1. WishInv' /\ ReadInv'
    BY <1>1, DefaultsKept DEF vars, host, WishInv, ReadInv, Emptied, Set, Effective, Target, At,
       WishOf
  <2> QED
    BY <1>proc, <2>1
<1>2. CASE upgrade
  <2>1. /\ UNCHANGED <<profiles, wish>> /\ \A q \in Process : proc'[q].pc = "idle"
        /\ \A q \in Process : proc[q].pc # "write"
    BY <1>2 DEF upgrade, Idle
  <2>2. WishInv'
    BY <2>1 DEF WishInv, Emptied
  <2>3. ReadInv'
    BY <2>1 DEF ReadInv
  <2> QED
    BY <1>proc, <2>2, <2>3
<1>3. CASE edit
  <2> PICK n \in DOMAIN profiles, e \in Edit :
        /\ \A p \in Process : proc[p].pc \notin {"open", "write"}
        /\ profiles' = Over(One(n, Over(One(e[1], e[2]), profiles[n])), profiles)
        /\ wish' = Over(One(n, Over(One(e[1], e[2]), WishOf(n))), wish)
        /\ proc' = [p \in Process |-> Idle]
    BY <1>3 DEF edit
  <2> DEFINE P == Over(One(e[1], e[2]), profiles[n])
             W == Over(One(e[1], e[2]), WishOf(n))
  <2>1. Askable(W)
    <3>1. DOMAIN W = DOMAIN WishOf(n) \union {e[1]}
      BY DEF Over, One
    <3> QED
      BY <3>1, WishesAskable, EditAssumption DEF Askable
  <2>2. Holds(profiles[n], WishOf(n))
    BY NothingAsked DEF WishInv, WishOf, Emptied
  <2>3. Holds(P, W)
    <3>1. /\ DOMAIN W = DOMAIN WishOf(n) \union {e[1]} /\ W[e[1]] = e[2]
          /\ \A k \in DOMAIN WishOf(n) \ {e[1]} : W[k] = WishOf(n)[k]
      BY DEF Over, One
    <3>2. /\ DOMAIN P = DOMAIN profiles[n] \union {e[1]} /\ P[e[1]] = e[2]
          /\ \A k \in DOMAIN profiles[n] \ {e[1]} : P[k] = profiles[n][k]
      BY DEF Over, One
    <3> HIDE DEF P, W
    <3>3. ASSUME NEW k \in DOMAIN W, k[1] = None, W[k] \notin DOMAIN Altered
          PROVE  k \in DOMAIN P /\ P[k] = W[k]
      <4>1. CASE k = e[1]
        BY <3>1, <3>2, <4>1
      <4>2. CASE k # e[1]
        BY <2>2, <3>1, <3>2, <3>3, <4>2 DEF Holds
      <4> QED
        BY <4>1, <4>2
    <3> QED
      BY <3>3 DEF Holds
  <2>4. /\ DOMAIN profiles' = DOMAIN profiles \union {n} /\ profiles'[n] = P
        /\ \A m \in DOMAIN profiles \ {n} : profiles'[m] = profiles[m]
    BY DEF Over, One
  <2>5. /\ DOMAIN wish' = DOMAIN wish \union {n} /\ wish'[n] = W
        /\ \A m \in DOMAIN wish \ {n} : wish'[m] = wish[m]
    BY DEF Over, One
  <2> HIDE DEF P, W
  <2>6. WishInv'
    <3>1. \A m : ~Emptied(m) /\ ~Emptied(m)'
      BY DEF Emptied, Idle
    <3> QED
      BY <2>1, <2>3, <2>4, <2>5, <3>1 DEF WishInv
  <2>7. ReadInv'
    BY DEF ReadInv, Idle
  <2> QED
    BY <1>proc, <2>6, <2>7
<1>4. ASSUME NEW p \in Process,
             \/ parseArguments(p) \/ refuse(p) \/ displayProfile(p) \/ initProfile(p)
             \/ openProfile(p) \/ openFails(p) \/ writeConfigurationFile(p) \/ kill(p)
      PROVE  WishInv' /\ ReadInv'
  <2>same. UNCHANGED <<host, version>> /\ UNCHANGED Defaults
    <3>1. UNCHANGED <<host, version>>
      BY <1>4 DEF parseArguments, refuse, displayProfile, initProfile, Go, openProfile, openFails,
         writeConfigurationFile, kill
    <3> QED
      BY <3>1, DefaultsKept
  <2> DEFINE i == proc[p].inv
             n == Target(proc[p].inv, Set(p))
  <2>1. CASE parseArguments(p) \/ displayProfile(p) \/ initProfile(p)
    <3>1. PICK j \in Invocation, s \in {"run", "open"} : Accepted(j) /\ Go(p, j, s)
      BY <2>1 DEF parseArguments, displayProfile, initProfile
    <3>2. proc[p].pc # "write"
      BY <2>1 DEF parseArguments, displayProfile, initProfile, Ready
    <3>3. proc'[p] = [pc |-> s, inv |-> j, profile |-> ProfileOf(j)]
      <4>1. j \in Parsed
        BY <3>1 DEF Accepted
      <4> QED
        BY <1>proc, <3>1, <4>1, Gone
    <3>4. UNCHANGED <<profiles, wish>>
      BY <3>1 DEF Go
    <3>5. \A q \in Process : proc[q].pc # "write" /\ proc'[q].pc # "write"
      BY <3>2, <3>3, <1>only
    <3>6. WishInv'
      BY <3>4, <3>5 DEF WishInv, Emptied
    <3>7. Holds(ProfileOf(j), WishOf(Reads(j)))
      BY <3>5, ReadHolds
    <3>8. ReadInv'
      BY <3>3, <3>4, <3>7, <1>only DEF ReadInv, WishOf
    <3> QED
      BY <3>6, <3>8
  <2>2. CASE refuse(p)
    <3>1. PICK j \in Invocation : Go(p, j, "refused")
      BY <2>2 DEF refuse
    <3>2. proc'[p].pc = "refused" /\ proc[p].pc # "write" /\ UNCHANGED <<profiles, wish>>
      <4>1. \E f : proc'[p] = [pc |-> "refused", inv |-> j, profile |-> f]
        BY <1>proc, <3>1, Gone
      <4> QED
        BY <2>2, <3>1, <4>1 DEF refuse, Ready, Go
    <3>3. \A q \in Process : proc[q].pc # "write" /\ proc'[q].pc = "refused"
      BY <3>2, <1>only
    <3> QED
      BY <3>2, <3>3 DEF WishInv, Emptied, ReadInv
  <2>3. CASE openProfile(p)
    <3>1. /\ proc[p].pc = "open" /\ UNCHANGED wish
          /\ profiles' = Over(One(n, None), profiles) /\ To(p, "write")
      BY <2>3 DEF openProfile
    <3>2. proc'[p] = [pc |-> "write", inv |-> i, profile |-> proc[p].profile]
      BY <1>proc, <3>1, Moved
    <3>3. Target(proc'[p].inv, Set(p)') = n
      BY <2>same, <3>2 DEF Target, At, Set, Effective
    <3>4. /\ DOMAIN profiles' = DOMAIN profiles \union {n}
          /\ \A m \in DOMAIN profiles \ {n} : profiles'[m] = profiles[m]
      BY <3>1 DEF Over, One
    <3>5. \A m : ~Emptied(m)
      BY <3>1, <1>only DEF Emptied
    <3> PICK c : c = n
      OBVIOUS
    <3>6. \A m : Emptied(m)' <=> m = c
      BY <3>2, <3>3, <1>only DEF Emptied
    <3> HIDE DEF n
    <3>7. WishInv'
      BY <3>1, <3>4, <3>5, <3>6 DEF WishInv
    <3>8. ReadInv'
      BY <3>1, <3>2, <1>only DEF ReadInv, WishOf
    <3> QED
      BY <3>7, <3>8
  <2>4. CASE openFails(p)
    <3>1. proc[p].pc = "open" /\ UNCHANGED <<profiles, wish>> /\ To(p, "done")
      BY <2>4 DEF openFails
    <3>2. proc'[p].pc = "done"
      <4>1. proc'[p] = [pc |-> "done", inv |-> i, profile |-> proc[p].profile]
        BY <1>proc, <3>1, Moved
      <4> QED
        BY <4>1
    <3>3. \A q \in Process : proc[q].pc = "open" /\ proc'[q].pc = "done"
      BY <3>1, <3>2, <1>only
    <3> QED
      BY <3>1, <3>3 DEF WishInv, Emptied, ReadInv
  <2>5. CASE writeConfigurationFile(p)
    <3> DEFINE T == Written(i, Set(p), proc[p].profile)
               W == Over(Asked(i), WishOf(Reads(i)))
    <3>1. /\ proc[p].pc = "write" /\ To(p, "done")
          /\ profiles' = Over(One(n, T), profiles) /\ wish' = Over(One(n, W), wish)
      BY <2>5 DEF writeConfigurationFile
    <3>2. i \in Parsed /\ Holds(proc[p].profile, WishOf(Reads(i)))
      BY <1>proc, <3>1 DEF ProcInv, GoodProc, ReadInv
    <3>3. Askable(W) /\ Holds(T, W)
      BY <3>2, WishesAskable, WrittenHolds
    <3>4. proc'[p].pc = "done"
      <4>1. proc'[p] = [pc |-> "done", inv |-> i, profile |-> proc[p].profile]
        BY <1>proc, <3>1, Moved
      <4> QED
        BY <4>1
    <3>5. /\ DOMAIN profiles' = DOMAIN profiles \union {n} /\ profiles'[n] = T
          /\ \A m \in DOMAIN profiles \ {n} : profiles'[m] = profiles[m]
      BY <3>1 DEF Over, One
    <3>6. /\ DOMAIN wish' = DOMAIN wish \union {n} /\ wish'[n] = W
          /\ \A m \in DOMAIN wish \ {n} : wish'[m] = wish[m]
      BY <3>1 DEF Over, One
    <3>7. \A m : Emptied(m) => m = n
      BY <1>only DEF Emptied
    <3> HIDE DEF n, T, W
    <3>8. \A m : ~Emptied(m)'
      BY <3>4, <1>only DEF Emptied
    <3>9. WishInv'
      BY <3>3, <3>5, <3>6, <3>7, <3>8 DEF WishInv
    <3>10. ReadInv'
      BY <3>4, <1>only DEF ReadInv
    <3> QED
      BY <3>9, <3>10
  <2>6. CASE kill(p)
    <3>1. /\ proc[p].pc \in {"open", "write"} /\ UNCHANGED profiles
          /\ wish' = IF proc[p].pc = "open" THEN wish ELSE Over(One(n, None), wish)
          /\ proc' = [proc EXCEPT ![p] = Idle]
      BY <2>6 DEF kill
    <3>2. proc'[p].pc = "idle"
      BY <1>proc, <3>1 DEF ProcInv, Idle
    <3>3. ReadInv'
      BY <3>2, <1>only DEF ReadInv
    <3>over. \A m : ~Emptied(m)'
      BY <3>2, <1>only DEF Emptied
    <3>4. CASE proc[p].pc = "open"
      <4>1. \A m : ~Emptied(m)
        BY <3>4, <1>only DEF Emptied
      <4>2. WishInv'
        BY <3>1, <3>4, <3>over, <4>1 DEF WishInv
      <4> QED
        BY <3>3, <4>2
    <3>5. CASE proc[p].pc = "write"
      <4>1. /\ DOMAIN wish' = DOMAIN wish \union {n} /\ wish'[n] = None
            /\ \A m \in DOMAIN wish \ {n} : wish'[m] = wish[m]
        BY <3>1, <3>5 DEF Over, One
      <4>2. \A m : Emptied(m) => m = n
        BY <1>only DEF Emptied
      <4> HIDE DEF n
      <4>3. WishInv'
        <5>1. n \in DOMAIN profiles
          BY <3>5 DEF WishInv, Emptied, n
        <5> QED
          BY <3>1, <3>over, <4>1, <4>2, <5>1, NothingAsked DEF WishInv
      <4> QED
        BY <3>3, <4>3
    <3> QED
      BY <3>1, <3>4, <3>5
  <2> QED
    BY <1>4, <2>1, <2>2, <2>3, <2>4, <2>5, <2>6
<1> QED
  BY <1>proc, <1>1, <1>2, <1>3, <1>4 DEF Next

\* What was asked of a profile once holds in every later command that reads it,
\* from the command line, by hand, or copied from another profile.
THEOREM SettingsAreKept ==
  ASSUME Alone
  PROVE  Spec => []Kept
<1>1. ASSUME IInv PROVE Kept
  <2> SUFFICES ASSUME NEW p \in Process, Runs(p), NEW k \in DOMAIN WishOf(Reads(proc[p].inv)),
                      k[1] = None, ~Says(p, k),
                      wish[Reads(proc[p].inv)][k] \notin DOMAIN Altered
               PROVE  Set(p)[k] = wish[Reads(proc[p].inv)][k]
    BY DEF Kept
  <2> DEFINE n == Reads(proc[p].inv)
  <2>1. n \in DOMAIN wish /\ WishOf(n) = wish[n]
    BY NoneIsEmpty DEF WishOf
  <2>2. k \in Key
    BY <1>1, WishesAskable DEF IInv, Askable
  <2>3. k \in DOMAIN proc[p].profile /\ proc[p].profile[k] = wish[n][k]
    BY <1>1, <2>1 DEF IInv, ReadInv, Holds, Runs
  <2>4. k \notin DOMAIN Given(proc[p].inv)
    BY DEF Says
  <2>5. Set(p)[k] = proc[p].profile[k]
    BY <2>2, <2>3, <2>4, ProfileSettings DEF Set, Effective
  <2> QED
    BY <2>3, <2>5
<1> QED
  BY <1>1, IInvInit, IInvStep, PTL DEF Spec
=============================================================================
