--------------------------- MODULE PublicUrlProofs ---------------------------
(***************************************************************************)
(* Proofs about PublicUrl, for any hosts and sizes: what each client builds *)
(* is a function of the location and the sizes alone, and the functions     *)
(* agree where they should.                                                 *)
(***************************************************************************)
EXTENDS PublicUrl, SequenceTheorems, TLAPS

\* The URL a method of a client assembles.
Assembled(lang, method) ==
  [base |-> Normalize(Base(lang, method)), query |-> Query(lang, method)]

\* The location stays as it was, and each method that was called returned what
\* it assembles from it.
IndInv ==
  /\ url \in Texts /\ publicUrl \in Texts \cup {Empty, Missing}
  /\ built = [l \in Langs |-> [m \in Methods |-> built[l][m]]]
  /\ \A l \in Langs, m \in Methods : Built(l, m) => built[l][m] = Assembled(l, m)

-----------------------------------------------------------------------------
(* Locations and URLs.                                                      *)

\* The URL of a location is absolute, at the location's host, and keeps its
\* scheme.
LEMMA NormalizeFields ==
  ASSUME NEW t \in Texts
  PROVE  /\ Normalize(t).scheme \in Schemes /\ Normalize(t).host = t.host
         /\ t.host \in Hosts
         /\ t.scheme \in {"none", Normalize(t).scheme}
  BY DEF Normalize, Texts, Schemes

\* The two functions of the core that make a URL of a location are one.
LEMMA SameScheme ==
  ASSUME NEW t \in Texts
  PROVE  Normalize(t) = FileUrl(t)
<1> DEFINE n == IF t.slashes > 0 THEN t.slashes - 1 ELSE 0
           base == [t EXCEPT !.slashes = n]
<1>1. n \in 0 .. 1
  BY DEF Texts
<1>2. /\ t = [scheme |-> t.scheme, host |-> t.host, slashes |-> t.slashes]
      /\ t.scheme \in {"none", "http", "https"}
  BY DEF Texts, Schemes
<1>3. /\ FileUrl(t) = IF base.scheme \in Schemes THEN base
                      ELSE [base EXCEPT !.scheme = "http"]
      /\ Normalize(t) = [t EXCEPT !.slashes = n,
                           !.scheme = IF t.scheme = "none" THEN "http" ELSE t.scheme]
  BY <1>2 DEF FileUrl, Normalize
<1> HIDE DEF n
<1>4. base = [scheme |-> t.scheme, host |-> t.host, slashes |-> n]
  BY <1>2
<1>5. CASE t.scheme = "none"
  <2>1. Normalize(t) = [scheme |-> "http", host |-> t.host, slashes |-> n]
    BY <1>2, <1>3, <1>5
  <2>2. FileUrl(t) = [scheme |-> "http", host |-> t.host, slashes |-> n]
    BY <1>3, <1>4, <1>5 DEF Schemes
  <2> QED
    BY <2>1, <2>2
<1>6. CASE t.scheme # "none"
  <2>1. Normalize(t) = [scheme |-> t.scheme, host |-> t.host, slashes |-> n]
    BY <1>2, <1>3, <1>6
  <2>2. FileUrl(t) = [scheme |-> t.scheme, host |-> t.host, slashes |-> n]
    BY <1>2, <1>3, <1>4, <1>6 DEF Schemes
  <2> QED
    BY <2>1, <2>2
<1> QED
  BY <1>5, <1>6

\* The location a client builds from is one of the two in the reply.
LEMMA BaseIsListed ==
  ASSUME IndInv, NEW l \in Langs, NEW m \in Methods, publicUrl # Empty
  PROVE  Base(l, m) \in Texts /\ Base(l, m) \in {url, publicUrl}
<1>1. publicUrl = Missing \/ publicUrl \in Texts
  BY DEF IndInv
<1>2. Base(l, m) = url \/ (Base(l, m) = publicUrl /\ publicUrl # Missing)
  BY Zenon DEF Base
<1> QED
  BY <1>1, <1>2 DEF IndInv

\* The base and the query of what a method assembles.
LEMMA AssembledFields ==
  ASSUME NEW l, NEW m
  PROVE  /\ Assembled(l, m).base = Normalize(Base(l, m))
         /\ Assembled(l, m).query = Query(l, m)
<1> DEFINE b == Normalize(Base(l, m))
           q == Query(l, m)
<1>1. Assembled(l, m) = [base |-> b, query |-> q]
  BY DEF Assembled
<1> HIDE DEF b, q
<1>2. Assembled(l, m).base = b /\ Assembled(l, m).query = q
  BY <1>1
<1> QED
  BY <1>2 DEF b, q

\* Of dimensions that are not zero every client writes both.
LEMMA ResizedQuery ==
  ASSUME NEW l \in Langs, width # 0, height # 0
  PROVE  /\ l # "go" => Query(l, "resized")
                          = << <<"width", width>>, <<"height", height>> >>
         /\ Params(Query(l, "resized"))
              = {<<"width", width>>, <<"height", height>>}
<1> DEFINE w == <<"width", width>>
           h == <<"height", height>>
<1>1. Query(l, "resized") = IF l = "go" THEN <<h>> \o <<w>> ELSE <<w>> \o <<h>>
  BY DEF Query, Param
<1> HIDE DEF w, h
<1>2. \A x, y : <<x>> \o <<y>> = <<x, y>>
  <2> SUFFICES ASSUME NEW x, NEW y PROVE <<x>> \o <<y>> = <<x, y>>
    OBVIOUS
  <2>1. /\ <<x>> \in Seq({x, y}) /\ <<y>> \in Seq({x, y}) /\ <<x, y>> \in Seq({x, y})
        /\ Len(<<x>>) = 1 /\ Len(<<y>>) = 1 /\ Len(<<x, y>>) = 2
    OBVIOUS
  <2>2. <<x>> \o <<y>> \in Seq({x, y}) /\ Len(<<x>> \o <<y>>) = 2
    BY <2>1
  <2>3. /\ (<<x>> \o <<y>>)[1] = <<x>>[1] /\ (<<x>> \o <<y>>)[2] = <<y>>[1]
        /\ <<x>>[1] = x /\ <<y>>[1] = y /\ <<x, y>>[1] = x /\ <<x, y>>[2] = y
    BY <2>1
  <2>4. \A i \in 1 .. 2 : (<<x>> \o <<y>>)[i] = <<x, y>>[i]
    BY <2>3
  <2> QED
    BY <2>1, <2>2, <2>4, SeqEqual
<1>3. \A x, y : Params(<<x, y>>) = {x, y}
  <2> SUFFICES ASSUME NEW x, NEW y PROVE Params(<<x, y>>) = {x, y}
    OBVIOUS
  <2>1. DOMAIN <<x, y>> = {1, 2} /\ <<x, y>>[1] = x /\ <<x, y>>[2] = y
    OBVIOUS
  <2> QED
    BY <2>1 DEF Params
<1> QED
  BY <1>1, <1>2, <1>3 DEF w, h

-----------------------------------------------------------------------------
(* The invariant.                                                           *)

LEMMA InitInv == Init => IndInv
  BY DEF Init, IndInv, Built

LEMMA StepInv == IndInv /\ [Next]_vars => IndInv'
<1> SUFFICES ASSUME IndInv, [Next]_vars PROVE IndInv'
  OBVIOUS
<1>0. ASSUME UNCHANGED <<url, publicUrl, width, height>>, NEW l, NEW m
      PROVE  Assembled(l, m)' = Assembled(l, m)
  BY <1>0 DEF Assembled, Base, Query, Param
<1>1. ASSUME NEW lang \in Langs, NEW method \in Methods, Build(lang, method)
      PROVE  IndInv'
  <2>1. /\ built' = [built EXCEPT ![lang][method] = Assembled(lang, method)]
        /\ UNCHANGED <<url, publicUrl, width, height>>
    BY <1>1 DEF Build, Assembled
  <2>2. built' = [l \in Langs |-> [m \in Methods |-> built'[l][m]]]
    BY <2>1 DEF IndInv
  <2>3. ASSUME NEW l \in Langs, NEW m \in Methods, Built(l, m)'
        PROVE  built'[l][m] = Assembled(l, m)'
    <3>1. Assembled(l, m)' = Assembled(l, m)
      BY <1>0, <2>1
    <3>2. CASE l = lang /\ m = method
      BY <2>1, <3>1, <3>2 DEF IndInv
    <3>3. CASE l # lang \/ m # method
      <4>1. built'[l][m] = built[l][m]
        BY <2>1, <3>3 DEF IndInv
      <4> QED
        BY <2>3, <3>1, <4>1 DEF IndInv, Built
    <3> QED
      BY <3>2, <3>3
  <2> QED
    BY <2>1, <2>2, <2>3 DEF IndInv
<1>2. CASE UNCHANGED vars
  BY <1>0, <1>2 DEF vars, IndInv, Built
<1> QED
  BY <1>1, <1>2 DEF Next

\* What a method returned stays what it assembles from the reply.
THEOREM Invariance == Spec => []IndInv
  BY InitInv, StepInv, PTL DEF Spec

-----------------------------------------------------------------------------
(* Theorems.                                                                *)

\* The URLs of a resized image ask one place for one image, and Rust's and Java's
\* are the same text.
THEOREM ClientsAgree == Spec => []ResizedUrlsAgree
<1>1. IndInv => ResizedUrlsAgree
  <2> SUFFICES ASSUME IndInv, width # 0, height # 0, publicUrl # Empty,
                      NEW l \in Langs, NEW m \in Langs,
                      Built(l, "resized"), Built(m, "resized")
               PROVE  LET u == built[l]["resized"]
                          v == built[m]["resized"]
                      IN  /\ u.base = v.base /\ Params(u.query) = Params(v.query)
                          /\ {l, m} \subseteq {"rust", "java"} => u = v
    BY DEF ResizedUrlsAgree
  <2>1. /\ built[l]["resized"] = Assembled(l, "resized")
        /\ built[m]["resized"] = Assembled(m, "resized")
    BY DEF IndInv, Methods
  <2>2. Base(l, "resized") = Base(m, "resized")
    BY DEF Base, PreferPublic
  <2>3. Assembled(l, "resized").base = Assembled(m, "resized").base
    BY <2>2, AssembledFields
  <2>4. Params(Assembled(l, "resized").query) = Params(Assembled(m, "resized").query)
    BY AssembledFields, ResizedQuery
  <2>5. ASSUME {l, m} \subseteq {"rust", "java"}
        PROVE  Assembled(l, "resized") = Assembled(m, "resized")
    <3>1. Query(l, "resized") = Query(m, "resized")
      BY <2>5, ResizedQuery
    <3> QED
      BY <2>2, <3>1 DEF Assembled
  <2> QED
    BY <2>1, <2>3, <2>4, <2>5
<1> QED
  BY Invariance, <1>1, PTL

\* A URL has one scheme and a host the masters named.
THEOREM Absolute == Spec => []UrlIsAbsolute
<1>1. IndInv => UrlIsAbsolute
  <2> SUFFICES ASSUME IndInv, NEW l \in Langs, NEW m \in Methods, Built(l, m),
                      publicUrl # Empty
               PROVE  LET base == built[l][m].base IN
                      /\ base.scheme \in Schemes /\ base.host \in Hosts
                      /\ \E t \in {url, publicUrl} :
                           t.host = base.host /\ t.scheme \in {"none", base.scheme}
    BY DEF UrlIsAbsolute
  <2>1. built[l][m].base = Normalize(Base(l, m))
    BY AssembledFields DEF IndInv
  <2> QED
    BY <2>1, BaseIsListed, NormalizeFields
<1> QED
  BY Invariance, <1>1, PTL

\* Without a public host, the URL is the one the core reads the file from.
THEOREM ReadsFromItsUrl == Spec => []UrlIsWhereTheCoreReads
<1>1. IndInv => UrlIsWhereTheCoreReads
  <2> SUFFICES ASSUME IndInv, publicUrl = Missing,
                      NEW l \in Langs, NEW m \in Methods, Built(l, m)
               PROVE  built[l][m].base = FileUrl(url)
    BY DEF UrlIsWhereTheCoreReads
  <2>1. built[l][m] = Assembled(l, m) /\ url \in Texts
    BY DEF IndInv
  <2>2. Base(l, m) = url
    BY Zenon DEF Base
  <2> QED
    BY <2>1, <2>2, AssembledFields, SameScheme
<1> QED
  BY Invariance, <1>1, PTL
=============================================================================
