--------------------------- MODULE MCHttpRetrieve ---------------------------
(***************************************************************************)
(* Servers for module HttpRetrieve.                                        *)
(***************************************************************************)
EXTENDS HttpRetrieve, TLC

At(s, r) == [scheme |-> s, rest |-> r]
A(s, l) == [status |-> s, location |-> l, short |-> FALSE]
To(u) == {u}
Ok == {A("ok", NoLocation), [A("ok", NoLocation) EXCEPT !.short = TRUE]}

First == At("https", <<"x", "/", "x">>)
Second == At("http", <<"x", ":", "x", "/", "x">>)
Third == At("https", <<"x", "/", "x", "/">>)
Broken == At("http", <<"x">>)

\* The first server may send on to the second, that one to the third; one answer has
\* no location, another a url that is none.
ServerAnswers ==
  (First :> (Ok \union {A("moved", To(Second)), A("moved", NoLocation), A("notfound", NoLocation)}))
  @@ (Second :> (Ok \union {A("moved", To(Third)), A("moved", To(Broken)), A("notfound", NoLocation),
                            A("error", NoLocation)}))
  @@ (Third :> (Ok \union {A("notfound", To(First))}))

\* Every url of up to five characters behind the scheme.
AllRests == UNION {[1..n -> {"x", ":", "/"}] : n \in 0..5}
AllUrls == {At(s, r) : s \in {"http", "https"}, r \in AllRests}
AllAnswers == ServerAnswers @@ [u \in AllUrls |-> {A("ok", NoLocation)}]
============================================================================
