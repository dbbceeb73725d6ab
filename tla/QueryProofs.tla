---------------------------- MODULE QueryProofs -----------------------------
(***************************************************************************)
(* What an operation on a database can rely on: the connections it is given *)
(* are protected as the options say (ConnectionAttempts), the handle it    *)
(* took stays open for the drain period (DrainWindow), and its error keeps *)
(* its origin, cause and reason on the way from the driver to the client   *)
(* of the RPC (ErrorPath).  One part for each, with an inductive invariant *)
(* of its own, for every value of the constants.                           *)
(***************************************************************************)
EXTENDS ErrorPath, ConnectionAttempts, DrainWindow, SequenceTheorems,
        WellFoundedInduction, TLAPS

-----------------------------------------------------------------------------
(* Chains                                                                  *)

LEMMA MinOf ==
  ASSUME NEW T \in SUBSET Nat, T # {}
  PROVE  Min(T) \in T /\ \A y \in T : Min(T) <= y
<1>1. PICK x \in T : \A y \in T : ~(<<y, x>> \in OpToRel(<, Nat))
  BY NatLessThanWellFounded, WFMin
<1>2. \A y \in T : ~(y < x)
  BY <1>1 DEF OpToRel
<1>3. \A y \in T : x <= y
  BY <1>2
<1> QED BY <1>3 DEF Min

LEMMA MinIs ==
  ASSUME NEW T \in SUBSET Nat, NEW x \in T, \A y \in T : x <= y
  PROVE  Min(T) = x
<1>1. Min(T) \in T /\ Min(T) <= x
  BY MinOf
<1>2. x \in Nat /\ Min(T) \in Nat /\ x <= Min(T)
  BY <1>1
<1> QED BY <1>1, <1>2

(* errors.As finds a link of the kind if there is one, and the first.      *)
LEMMA FirstPlace ==
  ASSUME NEW e \in Seq(Links), NEW kind, Has(e, kind)
  PROVE  /\ FirstAt(e, kind) \in DOMAIN e
         /\ First(e, kind).is = kind
         /\ First(e, kind) \in Links
<1>1. Places(e, kind) \in SUBSET Nat /\ Places(e, kind) # {}
  BY DEF Places, Has
<1>2. FirstAt(e, kind) \in Places(e, kind)
  BY <1>1, MinOf DEF FirstAt
<1>3. FirstAt(e, kind) \in DOMAIN e /\ e[FirstAt(e, kind)].is = kind
  BY <1>2 DEF Places
<1>4. First(e, kind) \in Links
  BY <1>3 DEF First
<1> QED BY <1>3, <1>4 DEF First

(* t ends in s, by its links.                                              *)
EndsIn(t, s) ==
  /\ Len(s) <= Len(t)
  /\ \A i \in 1..Len(s) : t[Len(t) - Len(s) + i] = s[i]

LEMMA SuffixByLinks ==
  ASSUME NEW s \in Seq(Links), NEW t \in Seq(Links)
  PROVE  IsSuffix(s, t) <=> EndsIn(t, s)
<1> DEFINE m == Len(s)  n == Len(t)  a == Reverse(s)  b == Reverse(t)
<1>1. m \in Nat /\ n \in Nat
  OBVIOUS
<1>2. /\ a \in Seq(Links) /\ Len(a) = m
      /\ \A i \in 1..m : a[i] = s[(m - i) + 1]
  BY DEF Reverse
<1>3. /\ b \in Seq(Links) /\ Len(b) = n
      /\ \A i \in 1..n : b[i] = t[(n - i) + 1]
  BY DEF Reverse
<1> HIDE DEF a, b
<1>4. IsSuffix(s, t) <=> m <= n /\ SubSeq(a, 1, m) = SubSeq(b, 1, m)
  BY <1>2, <1>3 DEF IsSuffix, IsPrefix, a, b
<1>5. ASSUME m <= n
      PROVE  SubSeq(a, 1, m) = SubSeq(b, 1, m) <=> \A i \in 1..m : a[i] = b[i]
  <2>1. \A i \in 1..m : a[i] \in Links /\ b[i] \in Links
    BY <1>1, <1>2, <1>3, <1>5
  <2>2. /\ SubSeq(a, 1, m) \in Seq(Links) /\ Len(SubSeq(a, 1, m)) = m
        /\ \A i \in 1..m : SubSeq(a, 1, m)[i] = a[i]
    BY <1>1, <2>1, SubSeqProperties
  <2>3. /\ SubSeq(b, 1, m) \in Seq(Links) /\ Len(SubSeq(b, 1, m)) = m
        /\ \A i \in 1..m : SubSeq(b, 1, m)[i] = b[i]
    BY <1>1, <2>1, SubSeqProperties
  <2>4. SubSeq(a, 1, m) = SubSeq(b, 1, m) => \A i \in 1..m : a[i] = b[i]
    BY <2>2, <2>3
  <2>5. (\A i \in 1..m : a[i] = b[i]) => SubSeq(a, 1, m) = SubSeq(b, 1, m)
    BY <2>2, <2>3, SeqEqual
  <2> QED BY <2>4, <2>5
<1>6. ASSUME m <= n
      PROVE  (\A i \in 1..m : a[i] = b[i])
               <=> (\A i \in 1..m : t[n - m + i] = s[i])
  <2>1. ASSUME \A i \in 1..m : a[i] = b[i], NEW i \in 1..m
        PROVE  t[n - m + i] = s[i]
    <3>1. (m - i) + 1 \in 1..m
      BY <1>1
    <3>2. PICK j \in 1..m : j = (m - i) + 1
      BY <3>1
    <3>3. j \in 1..n /\ (m - j) + 1 = i /\ (n - j) + 1 = n - m + i
      BY <1>1, <1>6, <3>2
    <3>4. a[j] = s[(m - j) + 1] /\ b[j] = t[(n - j) + 1]
      BY <1>2, <1>3, <3>3
    <3> QED BY <2>1, <3>3, <3>4
  <2>2. ASSUME \A i \in 1..m : t[n - m + i] = s[i], NEW i \in 1..m
        PROVE  a[i] = b[i]
    <3>1. (m - i) + 1 \in 1..m /\ i \in 1..n
      BY <1>1, <1>6
    <3>2. t[n - m + ((m - i) + 1)] = s[(m - i) + 1]
      BY <2>2, <3>1
    <3>3. n - m + ((m - i) + 1) = (n - i) + 1
      BY <1>1
    <3> QED BY <1>2, <1>3, <3>1, <3>2, <3>3
  <2> QED BY <2>1, <2>2
<1> QED BY <1>4, <1>5, <1>6 DEF EndsIn

(* What is put in front of a chain hides nothing of it.                    *)
LEMMA Prepended ==
  ASSUME NEW e \in Seq(Links), NEW x \in Links
  PROVE  /\ <<x>> \o e \in Seq(Links) /\ Len(<<x>> \o e) = Len(e) + 1
         /\ (<<x>> \o e)[1] = x
         /\ \A i \in 1..Len(e) : (<<x>> \o e)[i + 1] = e[i]
         /\ DOMAIN (<<x>> \o e) = 1..(Len(e) + 1) /\ DOMAIN e = 1..Len(e)
         /\ Len(e) \in Nat /\ <<x>> \o e # <<>>
  OBVIOUS

LEMMA PrependedPlaces ==
  ASSUME NEW e \in Seq(Links), NEW x \in Links, NEW kind
  PROVE  Places(<<x>> \o e, kind)
           = {i + 1 : i \in Places(e, kind)}
               \cup (IF x.is = kind THEN {1} ELSE {})
<1> DEFINE f == <<x>> \o e
<1>1. /\ f[1] = x
      /\ \A i \in 1..Len(e) : f[i + 1] = e[i]
      /\ DOMAIN f = 1..(Len(e) + 1) /\ DOMAIN e = 1..Len(e)
      /\ Len(e) \in Nat
  BY Prepended
<1> HIDE DEF f
<1>2. \A i \in 1..(Len(e) + 1) : i = 1 \/ (i - 1 \in 1..Len(e) /\ (i - 1) + 1 = i)
  BY <1>1
<1>3. \A i \in 1..Len(e) : i + 1 \in 1..(Len(e) + 1)
  BY <1>1
<1>4. 1 \in 1..(Len(e) + 1)
  BY <1>1
<1>5. ASSUME NEW i \in Places(f, kind)
      PROVE  i \in {j + 1 : j \in Places(e, kind)}
                      \cup (IF x.is = kind THEN {1} ELSE {})
  <2>1. i \in 1..(Len(e) + 1) /\ f[i].is = kind
    BY <1>1, <1>5 DEF Places
  <2>2. CASE i = 1
    BY <1>1, <2>1, <2>2
  <2>3. CASE i # 1
    <3>1. i - 1 \in 1..Len(e) /\ (i - 1) + 1 = i
      BY <1>2, <2>1, <2>3
    <3>2. e[i - 1].is = kind
      BY <1>1, <2>1, <3>1
    <3> QED BY <1>1, <3>1, <3>2 DEF Places
  <2> QED BY <2>2, <2>3
<1>6. ASSUME NEW i \in Places(e, kind) PROVE i + 1 \in Places(f, kind)
  BY <1>1, <1>3, <1>6 DEF Places
<1>7. x.is = kind => 1 \in Places(f, kind)
  BY <1>1, <1>4 DEF Places
<1>8. Places(f, kind) = {i + 1 : i \in Places(e, kind)}
                          \cup (IF x.is = kind THEN {1} ELSE {})
  BY <1>5, <1>6, <1>7
<1> QED BY <1>8 DEF f

LEMMA PrependKeeps ==
  ASSUME NEW e \in Seq(Links), NEW x \in Links, NEW kind, kind # x.is
  PROVE  /\ Has(<<x>> \o e, kind) <=> Has(e, kind)
         /\ Has(e, kind) => First(<<x>> \o e, kind) = First(e, kind)
<1> DEFINE f == <<x>> \o e
<1>1. Places(f, kind) = {i + 1 : i \in Places(e, kind)}
  BY PrependedPlaces
<1>2. Places(e, kind) \subseteq 1..Len(e) /\ Len(e) \in Nat
  BY DEF Places
<1>3. \A i \in 1..Len(e) : f[i + 1] = e[i]
  BY Prepended
<1> HIDE DEF f
<1>4. ASSUME Has(e, kind) PROVE First(f, kind) = First(e, kind)
  <2>1. PICK k : k = FirstAt(e, kind)
    OBVIOUS
  <2>2. /\ k \in Places(e, kind)
        /\ \A i \in Places(e, kind) : k <= i
    BY <1>2, <1>4, <2>1, MinOf DEF FirstAt, Has
  <2>3. k + 1 \in Places(f, kind) /\ Places(f, kind) \in SUBSET Nat
    BY <1>1, <1>2, <2>2
  <2>4. \A j \in Places(f, kind) : k + 1 <= j
    BY <1>1, <1>2, <2>2
  <2>5. FirstAt(f, kind) = k + 1
    BY <2>3, <2>4, MinIs DEF FirstAt
  <2> QED BY <1>2, <1>3, <2>1, <2>2, <2>5 DEF First
<1>5. Has(f, kind) <=> Has(e, kind)
  BY <1>1 DEF Has
<1> QED BY <1>4, <1>5 DEF f

LEMMA PrependEnds ==
  ASSUME NEW e \in Seq(Links), NEW x \in Links, NEW s \in Seq(Links),
         EndsIn(e, s)
  PROVE  EndsIn(<<x>> \o e, s)
<1> DEFINE f == <<x>> \o e
<1>1. /\ Len(f) = Len(e) + 1 /\ Len(e) \in Nat /\ Len(s) \in Nat
      /\ \A i \in 1..Len(e) : f[i + 1] = e[i]
  BY Prepended
<1> HIDE DEF f
<1>2. Len(s) <= Len(e)
  BY DEF EndsIn
<1>3. ASSUME NEW i \in 1..Len(s) PROVE f[Len(f) - Len(s) + i] = s[i]
  <2>1. Len(e) - Len(s) + i \in 1..Len(e)
    BY <1>1, <1>2
  <2>2. PICK j \in 1..Len(e) : j = Len(e) - Len(s) + i
    BY <2>1
  <2>3. e[j] = s[i]
    BY <2>2 DEF EndsIn
  <2>4. Len(f) - Len(s) + i = j + 1
    BY <1>1, <2>2
  <2> QED BY <1>1, <2>3, <2>4
<1>4. Len(s) <= Len(f)
  BY <1>1, <1>2
<1> QED BY <1>3, <1>4 DEF EndsIn, f

-----------------------------------------------------------------------------
(* Errors                                                                  *)

Own == Reasons \cup {"own"}

LEMMA LinkTypes ==
  /\ Text \in Links /\ NoRows \in Links
  /\ \A c \in Codes : Pg(c) \in Links
  /\ \A r \in Reasons : Sentinel(r) \in Links
  /\ \A place \in {"query", "data", "service"} : Link("origin", place) \in Links
  /\ \A info \in {<<>>, <<"own">>} :
       [Link("connect", "") EXCEPT !.info = info] \in Links
<1>1. <<>> \in Seq(Own) /\ <<"own">> \in Seq(Own)
  BY DEF Own
<1> QED BY <1>1 DEF Own, Links, Link, Text, NoRows, Pg, Sentinel

LEMMA LinkKinds ==
  /\ Text.is = "text" /\ NoRows.is = "norows"
  /\ \A c : Pg(c).is = "pg" /\ Pg(c).tag = c
  /\ \A r : Sentinel(r).is = "sentinel" /\ Sentinel(r).tag = r
  /\ \A place : /\ Link("origin", place).is = "origin"
                /\ Link("origin", place).tag = place
  BY DEF Link, Text, NoRows, Pg, Sentinel

(* A chain of one link.                                                    *)
LEMMA OneLink ==
  \A x \in Links :
    /\ <<x>> \in Seq(Links) /\ <<x>> # Nil /\ <<x>>[1] = x
    /\ \A kind : /\ Has(<<x>>, kind) <=> x.is = kind
                 /\ Places(<<x>>, kind) \subseteq {1}
<1> SUFFICES ASSUME NEW x \in Links
    PROVE  /\ <<x>> \in Seq(Links) /\ <<x>> # Nil /\ <<x>>[1] = x
           /\ \A kind : /\ Has(<<x>>, kind) <=> x.is = kind
                        /\ Places(<<x>>, kind) \subseteq {1}
  OBVIOUS
<1>1. <<x>> \in Seq(Links) /\ <<x>> # Nil /\ <<x>>[1] = x /\ DOMAIN <<x>> = {1}
  BY DEF Nil
<1> QED BY <1>1 DEF Has, Places

(* Callers declare plain errors and sentinels.                             *)
LEMMA OwnedErrors ==
  ASSUME NEW e \in Owned
  PROVE  /\ e \in Seq(Links) /\ e # Nil
         /\ \A kind : Has(e, kind) => kind \in {"text", "sentinel"}
         /\ \A i \in Places(e, "sentinel") : e[i].tag \in Reasons
<1>1. CASE e = <<Text>>
  <2> PICK x \in Links : e = <<x>> /\ x.is = "text"
    BY <1>1, LinkTypes, LinkKinds
  <2>1. /\ e \in Seq(Links) /\ e # Nil
        /\ \A kind : Has(e, kind) <=> kind = "text"
    BY OneLink
  <2>2. Places(e, "sentinel") = {}
    BY <2>1 DEF Has
  <2> QED BY <2>1, <2>2
<1>2. CASE \E r \in Reasons : e = <<Sentinel(r)>>
  <2> PICK r \in Reasons : e = <<Sentinel(r)>>
    BY <1>2
  <2> PICK x \in Links : x = Sentinel(r)
    BY LinkTypes
  <2>1. x.is = "sentinel" /\ x.tag = r
    BY LinkKinds
  <2>2. /\ e \in Seq(Links) /\ e # Nil /\ e[1] = x
        /\ \A kind : Has(e, kind) <=> kind = "sentinel"
        /\ Places(e, "sentinel") \subseteq {1}
    BY <2>1, OneLink
  <2> QED BY <2>1, <2>2
<1> QED BY <1>1, <1>2 DEF Owned

Bare == {<<NoRows>>, <<Text>>} \cup {<<Pg(c)>> : c \in Codes}

LEMMA BareErrors ==
  ASSUME NEW e \in Bare
  PROVE  /\ e \in Seq(Links)
         /\ \A kind : Has(e, kind) => kind \in {"text", "norows", "pg"}
         /\ ~(Has(e, "norows") /\ Has(e, "pg"))
<1>1. CASE e = <<Text>> \/ e = <<NoRows>>
  <2> PICK x \in Links : e = <<x>> /\ x.is \in {"text", "norows"}
    BY <1>1, LinkTypes, LinkKinds
  <2>1. e \in Seq(Links) /\ \A kind : Has(e, kind) <=> kind = x.is
    BY OneLink
  <2> QED BY <2>1
<1>2. CASE \E c \in Codes : e = <<Pg(c)>>
  <2> PICK c \in Codes : e = <<Pg(c)>>
    BY <1>2
  <2> PICK x \in Links : x = Pg(c)
    BY LinkTypes
  <2>1. e \in Seq(Links) /\ \A kind : Has(e, kind) <=> kind = "pg"
    BY LinkKinds, OneLink
  <2> QED BY <2>1
<1> QED BY <1>1, <1>2 DEF Bare

(* A query returns no sentinel and no connect error, not both of pgx's     *)
(* errors, and at most one place, which is not the data layer's.           *)
LEMMA QueryErrors ==
  ASSUME NEW e \in DriverErrors
  PROVE  /\ e \in Seq(Links)
         /\ ~Has(e, "sentinel") /\ ~Has(e, "connect")
         /\ ~(Has(e, "norows") /\ Has(e, "pg"))
         /\ Has(e, "origin") => /\ Places(e, "origin") = {1}
                                /\ e[1].tag = "query"
<1>1. CASE e = Nil
  BY <1>1 DEF Nil, Has, Places
<1>2. CASE e \in Bare
  BY <1>2, BareErrors
<1>3. CASE \E b \in Bare : e = <<Text>> \o b
  <2> PICK b \in Bare : e = <<Text>> \o b
    BY <1>3
  <2>1. \A kind : kind # "text" => (Has(e, kind) <=> Has(b, kind))
    BY BareErrors, LinkTypes, LinkKinds, PrependKeeps
  <2>2. e \in Seq(Links)
    BY BareErrors, LinkTypes, Prepended
  <2> QED BY <2>1, <2>2, BareErrors
<1>4. CASE \E b \in Bare : e = <<Link("origin", "query")>> \o b
  <2> PICK b \in Bare : e = <<Link("origin", "query")>> \o b
    BY <1>4
  <2> PICK x \in Links : x = Link("origin", "query")
    BY LinkTypes
  <2>1. \A kind : kind # "origin" => (Has(e, kind) <=> Has(b, kind))
    BY BareErrors, LinkKinds, PrependKeeps
  <2>2. e \in Seq(Links) /\ e[1] = x
    BY BareErrors, Prepended
  <2>3. Places(b, "origin") = {} /\ b \in Seq(Links)
    BY BareErrors DEF Has
  <2>4. Places(e, "origin") = {1}
    BY <2>3, PrependedPlaces, LinkKinds
  <2>5. x.tag = "query"
    BY LinkKinds
  <2> QED BY <2>1, <2>2, <2>4, <2>5, BareErrors
<1> QED BY <1>1, <1>2, <1>3, <1>4 DEF DriverErrors, Bare

(* Neither context, places nor connect errors change the reason.           *)
LEMMA PutInFront ==
  ASSUME NEW e \in Seq(Links), NEW x \in Links,
         x.is \in {"text", "origin", "connect"}
  PROVE  /\ ReasonOf(<<x>> \o e) = ReasonOf(e)
         /\ \A kind \in {"norows", "pg", "sentinel"} :
              Has(<<x>> \o e, kind) <=> Has(e, kind)
         /\ \A i \in DOMAIN (<<x>> \o e) :
              (<<x>> \o e)[i] = x \/ \E j \in DOMAIN e : (<<x>> \o e)[i] = e[j]
<1> DEFINE f == <<x>> \o e
<1>1. /\ f[1] = x
      /\ \A i \in 1..Len(e) : f[i + 1] = e[i]
      /\ DOMAIN f = 1..(Len(e) + 1) /\ DOMAIN e = 1..Len(e)
      /\ Len(e) \in Nat
  BY Prepended
<1>2. \A kind \in {"norows", "pg", "sentinel"} :
        /\ Has(f, kind) <=> Has(e, kind)
        /\ Has(e, kind) => First(f, kind) = First(e, kind)
  BY PrependKeeps
<1> HIDE DEF f
<1>3. ASSUME NEW i \in DOMAIN f, i # 1 PROVE \E j \in DOMAIN e : f[i] = e[j]
  <2>1. i - 1 \in 1..Len(e) /\ (i - 1) + 1 = i
    BY <1>1, <1>3
  <2> QED BY <1>1, <2>1
<1> QED BY <1>1, <1>2, <1>3 DEF ReasonOf, f

(* Here adds at most the place, and leaves an error that has one alone.    *)
LEMMA HereKeeps ==
  ASSUME NEW e \in Seq(Links), NEW place \in {"data", "service"}
  PROVE  LET f == HereAt(place, e)
         IN  /\ f \in Seq(Links)
             /\ f = Nil <=> e = Nil
             /\ ReasonOf(f) = ReasonOf(e)
             /\ \A kind \in {"norows", "pg"} : Has(f, kind) <=> Has(e, kind)
             /\ \A i \in DOMAIN f :
                  f[i].is = "origin" \/ \E j \in DOMAIN e : f[i] = e[j]
             /\ \A s \in Seq(Links) : EndsIn(e, s) => EndsIn(f, s)
             /\ Has(e, "origin") => f = e
             /\ e # Nil /\ ~Has(e, "origin") =>
                  Places(f, "origin") = {1} /\ f[1].tag = place
<1>1. CASE e = Nil \/ Has(e, "origin")
  BY <1>1 DEF HereAt
<1>2. CASE e # Nil /\ ~Has(e, "origin")
  <2> PICK x \in Links : x = Link("origin", place)
    BY LinkTypes
  <2>1. x.is = "origin" /\ x.tag = place
    BY LinkKinds
  <2>2. HereAt(place, e) = <<x>> \o e
    BY <1>2 DEF HereAt
  <2>3. /\ <<x>> \o e \in Seq(Links) /\ <<x>> \o e # Nil
        /\ (<<x>> \o e)[1] = x
    BY Prepended DEF Nil
  <2>4. /\ ReasonOf(<<x>> \o e) = ReasonOf(e)
        /\ \A kind \in {"norows", "pg"} : Has(<<x>> \o e, kind) <=> Has(e, kind)
        /\ \A i \in DOMAIN (<<x>> \o e) :
             (<<x>> \o e)[i] = x \/ \E j \in DOMAIN e : (<<x>> \o e)[i] = e[j]
    BY <2>1, PutInFront
  <2>5. Places(<<x>> \o e, "origin") = {1}
    BY <1>2, <2>1, PrependedPlaces DEF Has
  <2>6. \A s \in Seq(Links) : EndsIn(e, s) => EndsIn(<<x>> \o e, s)
    BY PrependEnds
  <2> QED BY <1>2, <2>1, <2>2, <2>3, <2>4, <2>5, <2>6
<1> QED BY <1>1, <1>2

LEMMA SameKinds ==
  ASSUME NEW e \in Seq(Links), NEW f \in Seq(Links), Len(f) = Len(e),
         \A i \in 1..Len(e) : f[i].is = e[i].is /\ f[i].tag = e[i].tag
  PROVE  /\ \A kind : Places(f, kind) = Places(e, kind)
         /\ ReasonOf(f) = ReasonOf(e)
<1>1. DOMAIN f = DOMAIN e /\ DOMAIN e = 1..Len(e)
  OBVIOUS
<1>2. \A kind : Places(f, kind) = Places(e, kind)
  BY <1>1 DEF Places
<1>3. FirstAt(f, "sentinel") = FirstAt(e, "sentinel")
  BY <1>2 DEF FirstAt
<1>4. CASE Has(e, "sentinel")
  <2>1. FirstAt(e, "sentinel") \in DOMAIN e
    BY <1>4, FirstPlace
  <2> QED BY <1>1, <1>2, <1>3, <1>4, <2>1 DEF ReasonOf, Has, First
<1>5. CASE ~Has(e, "sentinel")
  BY <1>2, <1>5 DEF ReasonOf, Has
<1> QED BY <1>2, <1>4, <1>5

(* The interceptor adds a reason to the connect error, if it has none, and *)
(* does nothing else.                                                      *)
LEMMA AttachKeeps ==
  ASSUME NEW e \in Seq(Links), NEW r \in Reasons \cup {"UNSPECIFIED"}
  PROVE  LET f == attachErrorInfo(e, r)
         IN  /\ f \in Seq(Links) /\ Len(f) = Len(e)
             /\ \A i \in 1..Len(e) :
                  /\ f[i].is = e[i].is /\ f[i].tag = e[i].tag
                  /\ e[i].is # "connect" => f[i] = e[i]
                  /\ f[i].info \in {e[i].info, <<r>>}
             /\ r # "UNSPECIFIED" /\ Has(e, "connect") =>
                  First(f, "connect").info # <<>>
<1> DEFINE k == FirstAt(e, "connect")
<1>1. CASE r = "UNSPECIFIED" \/ ~Has(e, "connect")
  <2>1. attachErrorInfo(e, r) = e
    BY <1>1 DEF attachErrorInfo
  <2> QED BY <1>1, <2>1
<1>2. CASE r # "UNSPECIFIED" /\ Has(e, "connect")
  <2>1. k \in 1..Len(e) /\ e[k] \in Links /\ e[k].is = "connect"
    BY <1>2, FirstPlace DEF First
  <2>2. CASE e[k].info # <<>>
    <3>1. attachErrorInfo(e, r) = e
      BY <1>2, <2>2 DEF attachErrorInfo, ConnectAt
    <3> QED BY <2>2, <3>1 DEF First
  <2>3. CASE e[k].info = <<>>
    <3>1. Append(e[k].info, r) = <<r>> /\ <<r>> \in Seq(Reasons \cup {"own"})
      BY <1>2, <2>3
    <3>2. PICK x : x = [e[k] EXCEPT !.info = <<r>>]
      OBVIOUS
    <3>3. /\ x \in Links /\ x.is = "connect" /\ x.tag = e[k].tag
          /\ x.info = <<r>> /\ <<r>> # <<>>
      BY <2>1, <3>1, <3>2 DEF Links
    <3>4. attachErrorInfo(e, r) = [e EXCEPT ![k] = x]
      BY <1>2, <2>3, <3>1, <3>2 DEF attachErrorInfo, ConnectAt
    <3>5. PICK f : f = [e EXCEPT ![k] = x]
      OBVIOUS
    <3>6. /\ f \in Seq(Links) /\ Len(f) = Len(e)
          /\ \A i \in 1..Len(e) : f[i] = IF i = k THEN x ELSE e[i]
      BY <2>1, <3>3, <3>5, ExceptSeq
    <3>7. \A i \in 1..Len(e) : f[i].is = e[i].is /\ f[i].tag = e[i].tag
      BY <2>1, <3>3, <3>6
    <3>8. FirstAt(f, "connect") = k
      BY <3>6, <3>7, SameKinds DEF FirstAt
    <3> QED BY <2>1, <3>3, <3>4, <3>5, <3>6, <3>7, <3>8 DEF First
  <2> QED BY <2>2, <2>3
<1> QED BY <1>1, <1>2

LEMMA AttachEnds ==
  ASSUME NEW e \in Seq(Links), NEW r \in Reasons \cup {"UNSPECIFIED"},
         NEW s \in Seq(Links), ~Has(s, "connect"), EndsIn(e, s)
  PROVE  EndsIn(attachErrorInfo(e, r), s)
<1> PICK f : f = attachErrorInfo(e, r)
  OBVIOUS
<1>1. /\ f \in Seq(Links) /\ Len(f) = Len(e)
      /\ \A i \in 1..Len(e) : e[i].is # "connect" => f[i] = e[i]
  BY AttachKeeps
<1>2. Len(s) \in Nat /\ Len(e) \in Nat /\ Len(s) <= Len(e)
  BY DEF EndsIn
<1>3. ASSUME NEW i \in 1..Len(s) PROVE f[Len(f) - Len(s) + i] = s[i]
  <2>1. Len(e) - Len(s) + i \in 1..Len(e)
    BY <1>2
  <2>2. e[Len(e) - Len(s) + i] = s[i]
    BY DEF EndsIn
  <2>3. s[i].is # "connect"
    BY DEF Has, Places
  <2> QED BY <1>1, <2>1, <2>2, <2>3
<1> QED BY <1>1, <1>2, <1>3 DEF EndsIn

-----------------------------------------------------------------------------
(* The invariant                                                           *)

\* Until dbutil answers there is nothing but what the driver has returned.
Before ==
  stage \in {"call", "data"} => counted = <<>> /\ (stage = "data" => err = raised)

\* There is one place, and one below the data layer is the driver error's.
Located ==
  Answered /\ err # Nil =>
    \E k \in DOMAIN err :
      /\ Places(err, "origin") = {k}
      /\ err[k].tag \in {"query", "data"}
      /\ err[k].tag = "query" => Has(raised, "origin") /\ EndsIn(err, raised)

\* The same as CauseKeptOrHidden, link by link.
Caused ==
  Answered =>
    IF via = "MustHandleError"
    THEN handler.callback # "wraps" => ~Has(err, "pg") /\ ~Has(err, "norows")
    ELSE ~handled => EndsIn(err, raised)

\* What reason the error has is settled when dbutil answers: it is what is
\* counted, and all that is attached to any connect error on the way.
Reasoned ==
  Answered =>
    /\ \A i \in Places(err, "sentinel") : err[i].tag \in Reasons
    /\ \A i \in DOMAIN counted : counted[i] = ReasonOf(err)
    /\ Has(raised, "pg") /\ Mapped(raised) =>
         ReasonOf(err) = ReasonOf(handler.maps[Code(raised)])
    /\ \A i \in Places(err, "connect") :
         err[i].info \in {<<>>, <<"own">>, <<ReasonOf(err)>>}

\* An interceptor has been there, and has left its mark.
Attached ==
  stage \in {"intercepted", "client"} /\ Has(err, "connect") =>
    /\ counted # <<>>
    /\ ReasonOf(err) # "UNSPECIFIED" => First(err, "connect").info # <<>>

PathInv ==
  TypeOK /\ Before /\ Located /\ Caused /\ Reasoned /\ Attached /\ VerdictStays

-----------------------------------------------------------------------------
(* The answer of dbutil                                                    *)

\* What the data layer gets for e from one of dbutil's functions.
Sound(function, e, answer) ==
  /\ answer.err \in Owned \cup {Nil, e, <<Text>> \o e}
  /\ answer.handled \in BOOLEAN
  /\ Has(e, "pg") /\ Mapped(e) => answer.err = handler.maps[Code(e)]
  /\ IF function = "MustHandleError"
     THEN handler.callback # "wraps" =>
            ~Has(answer.err, "pg") /\ ~Has(answer.err, "norows")
     ELSE ~answer.handled => EndsIn(answer.err, e)
  /\ e # Nil /\ answer.err = Nil =>
       \/ Has(e, "norows") /\ handler.callback = "returns nil"
       \/ Has(e, "pg") /\ Mapped(e) /\ handler.maps[Code(e)] = Nil
  /\ e = Nil /\ answer.err # Nil => function = "WrapError"

LEMMA HandlerParts ==
  ASSUME handler \in Handlers
  PROVE  /\ \A c \in DOMAIN handler.maps : handler.maps[c] \in Owned \cup {Nil}
         /\ handler.override \in Owned \cup {Nil}
         /\ handler.callback \in Callbacks
         /\ handler.fixed \in Owned \cup {Nil}
  BY DEF Handlers

LEMMA EndsInItself ==
  ASSUME NEW e \in Seq(Links)
  PROVE  EndsIn(e, e) /\ EndsIn(<<Text>> \o e, e)
<1>1. Len(e) \in Nat /\ \A i \in 1..Len(e) : Len(e) - Len(e) + i = i
  OBVIOUS
<1>2. EndsIn(e, e)
  BY <1>1 DEF EndsIn
<1> QED BY <1>2, PrependEnds, LinkTypes

\* Nothing of pgx is in an error that callers declare, or in none.
LEMMA OwnedHides ==
  \A e \in Owned \cup {Nil} : ~Has(e, "pg") /\ ~Has(e, "norows")
<1>1. ~Has(Nil, "pg") /\ ~Has(Nil, "norows")
  BY DEF Nil, Has, Places
<1> QED BY <1>1, OwnedErrors

(* What is said of missing rows, whichever of the handler's ways applies.  *)
LEMMA NoRowsSound ==
  ASSUME handler \in Handlers, NEW e \in DriverErrors, Has(e, "norows"),
         NEW override \in Owned \cup {Nil},
         NEW function, NEW fallback \in {e, <<Text>>},
         fallback = <<Text>> <=> function = "MustHandleError"
  PROVE  Sound(function, e, NoRowsAnswer(e, override, fallback))
<1> DEFINE a == NoRowsAnswer(e, override, fallback)
<1>1. e \in Seq(Links) /\ ~Has(e, "pg") /\ e # Nil
  BY QueryErrors DEF Nil, Has, Places
<1>2. <<Text>> \in Owned /\ Nil \notin Owned
  BY OwnedErrors DEF Owned
<1>3. CASE override # Nil
  <2>1. a.err = override /\ a.handled = TRUE
    BY <1>3 DEF NoRowsAnswer, Answer
  <2> HIDE DEF a
  <2> QED BY <1>1, <1>3, <2>1, OwnedHides DEF Sound, a
<1>4. CASE override = Nil /\ handler.callback # "none"
  <2>1. a.err = CallbackAnswer(e) /\ a.handled = TRUE
    BY <1>4 DEF NoRowsAnswer, Answer
  <2>2. \/ handler.callback = "returns nil" /\ a.err = Nil
        \/ handler.callback = "wraps" /\ a.err = <<Text>> \o e
        \/ handler.callback = "own" /\ a.err = <<Text>>
    BY <1>4, <2>1, HandlerParts DEF CallbackAnswer, Callbacks
  <2>3. <<Text>> \o e # Nil
    BY <1>1, Prepended, LinkTypes DEF Nil
  <2> HIDE DEF a
  <2> QED BY <1>1, <1>2, <2>1, <2>2, <2>3, OwnedHides DEF Sound, a
<1>5. CASE override = Nil /\ handler.callback = "none" /\ handler.fixed # Nil
  <2>1. a.err = handler.fixed /\ a.handled = TRUE
    BY <1>5 DEF NoRowsAnswer, Answer
  <2> HIDE DEF a
  <2> QED BY <1>1, <1>5, <2>1, OwnedHides, HandlerParts DEF Sound, a
<1>6. CASE override = Nil /\ handler.callback = "none" /\ handler.fixed = Nil
  <2>1. a.err = fallback /\ a.handled = FALSE
    BY <1>6 DEF NoRowsAnswer, Answer
  <2> HIDE DEF a
  <2> QED BY <1>1, <1>2, <2>1, OwnedHides, EndsInItself DEF Sound, a
<1> QED BY <1>3, <1>4, <1>5, <1>6

(* What is said of an SQLSTATE, mapped or not.                             *)
LEMMA PgSound ==
  ASSUME handler \in Handlers, NEW e \in DriverErrors, Has(e, "pg"),
         NEW function, NEW fallback \in {e, <<Text>>},
         fallback = <<Text>> <=> function = "MustHandleError"
  PROVE  Sound(function, e, PgAnswer(e, fallback))
<1> DEFINE a == PgAnswer(e, fallback)
<1>1. e \in Seq(Links) /\ ~Has(e, "norows") /\ e # Nil
  BY QueryErrors DEF Nil, Has, Places
<1>2. <<Text>> \in Owned /\ Nil \notin Owned
  BY OwnedErrors DEF Owned
<1>3. CASE Mapped(e)
  <2>1. a.err = handler.maps[Code(e)] /\ a.handled = TRUE
    BY <1>3 DEF PgAnswer, Answer
  <2>2. a.err \in Owned \cup {Nil}
    BY <1>3, <2>1, HandlerParts DEF Mapped
  <2> HIDE DEF a
  <2> QED BY <1>1, <1>3, <2>1, <2>2, OwnedHides DEF Sound, a
<1>4. CASE ~Mapped(e)
  <2>1. a.err = fallback /\ a.handled = FALSE
    BY <1>4 DEF PgAnswer, Answer
  <2> HIDE DEF a
  <2> QED BY <1>1, <1>2, <1>4, <2>1, OwnedHides, EndsInItself DEF Sound, a
<1> QED BY <1>3, <1>4

LEMMA EachSound ==
  ASSUME handler \in Handlers, NEW e \in DriverErrors
  PROVE  /\ Sound("HandleError", e, handleError(e, handler.override))
         /\ Sound("MustHandleError", e, mustHandleError(e, handler.override))
         /\ LET answer == handleError(e, Nil)
            IN  Sound("WrapError", e,
                      IF answer.handled THEN answer
                      ELSE Answer(Wrapped(e), FALSE))
<1> USE HandlerParts
<1>1. /\ e \in Seq(Links) /\ ~(Has(e, "norows") /\ Has(e, "pg"))
      /\ Has(e, "norows") \/ Has(e, "pg") => e # <<Text>>
  BY QueryErrors, OwnedHides DEF Owned
<1>2. ASSUME NEW function \in {"HandleError", "WrapError"},
             NEW override \in Owned \cup {Nil}
      PROVE  Sound(function, e, handleError(e, override))
  <2>1. CASE Has(e, "norows")
    BY <1>1, <2>1, NoRowsSound DEF handleError
  <2>2. CASE ~Has(e, "norows") /\ Has(e, "pg")
    BY <1>1, <2>2, PgSound DEF handleError
  <2>3. CASE ~Has(e, "norows") /\ ~Has(e, "pg")
    BY <1>1, <2>3, EndsInItself DEF handleError, Answer, Sound
  <2> QED BY <2>1, <2>2, <2>3
<1>3. Sound("MustHandleError", e, mustHandleError(e, handler.override))
  <2>1. CASE Has(e, "norows")
    BY <2>1, NoRowsSound DEF mustHandleError
  <2>2. CASE ~Has(e, "norows") /\ Has(e, "pg")
    BY <2>2, PgSound DEF mustHandleError
  <2>3. CASE ~Has(e, "norows") /\ ~Has(e, "pg")
    BY <1>1, <2>3 DEF mustHandleError, Answer, Sound
  <2> QED BY <2>1, <2>2, <2>3
<1>4. ASSUME ~handleError(e, Nil).handled
      PROVE  Sound("WrapError", e, Answer(Wrapped(e), FALSE))
  <2>1. ~(Has(e, "pg") /\ Mapped(e))
    BY <1>1, <1>4 DEF handleError, PgAnswer, Answer
  <2>2. <<Text>> \o e # Nil
    BY <1>1, Prepended, LinkTypes DEF Nil
  <2> QED BY <1>1, <2>1, <2>2, EndsInItself DEF Answer, Wrapped, Sound
<1> QED BY <1>2, <1>3, <1>4

-----------------------------------------------------------------------------
(* The steps                                                               *)

LEMMA AnswerShape ==
  ASSUME NEW e \in DriverErrors, NEW a \in Owned \cup {Nil, e, <<Text>> \o e}
  PROVE  /\ a \in Seq(Links)
         /\ Places(a, "connect") = {}
         /\ \A i \in Places(a, "sentinel") : a[i].tag \in Reasons
         /\ Has(a, "origin") =>
              /\ Has(e, "origin") /\ EndsIn(a, e)
              /\ \E k \in DOMAIN a : Places(a, "origin") = {k} /\ a[k].tag = "query"
<1>1. CASE a \in Owned \cup {Nil}
  <2>1. Nil \in Seq(Links) /\ \A kind : Places(Nil, kind) = {}
    BY DEF Nil, Places
  <2> QED BY <1>1, <2>1, OwnedErrors DEF Has
<1>2. CASE a = e
  <2>1. Has(e, "origin") => 1 \in DOMAIN e
    BY QueryErrors DEF Places
  <2> QED BY <1>2, <2>1, QueryErrors, EndsInItself DEF Has
<1>3. CASE a = <<Text>> \o e
  <2> PICK x \in Links : x = Text
    BY LinkTypes
  <2>1. x.is = "text" /\ e \in Seq(Links)
    BY LinkKinds, QueryErrors
  <2>2. /\ a \in Seq(Links)
        /\ \A i \in 1..Len(e) : a[i + 1] = e[i]
        /\ DOMAIN a = 1..(Len(e) + 1) /\ DOMAIN e = 1..Len(e) /\ Len(e) \in Nat
    BY <1>3, <2>1, Prepended
  <2>3. \A kind : kind # "text" => Places(a, kind) = {i + 1 : i \in Places(e, kind)}
    BY <1>3, <2>1, PrependedPlaces
  <2>4. Places(a, "connect") = {} /\ Places(a, "sentinel") = {}
    BY <2>3, QueryErrors DEF Has
  <2>5. CASE ~Has(e, "origin")
    <3>1. Places(a, "origin") = {}
      BY <2>3, <2>5 DEF Has
    <3> QED BY <2>2, <2>4, <3>1 DEF Has
  <2>6. CASE Has(e, "origin")
    <3>1. Places(e, "origin") = {1} /\ e[1].tag = "query"
      BY <2>6, QueryErrors
    <3>2. 1 \in 1..Len(e) /\ 2 = 1 + 1 /\ 2 \in 1..(Len(e) + 1)
      BY <2>2, <3>1 DEF Places
    <3>3. a[2] = e[1] /\ 2 \in DOMAIN a
      BY <2>2, <3>2
    <3>4. Places(a, "origin") = {2}
      <4>1. Places(a, "origin") = {i + 1 : i \in {1}}
        BY <2>3, <3>1
      <4> QED BY <4>1, <3>2
    <3>5. EndsIn(a, e)
      BY <1>3, <2>1, EndsInItself
    <3> QED BY <2>2, <2>4, <2>6, <3>1, <3>3, <3>4, <3>5
  <2> QED BY <2>5, <2>6
<1> QED BY <1>1, <1>2, <1>3

\* An error with no reason it does not declare.
LEMMA ReasonType ==
  ASSUME NEW e \in Seq(Links), \A i \in Places(e, "sentinel") : e[i].tag \in Reasons
  PROVE  ReasonOf(e) \in Reasons \cup {"UNSPECIFIED"}
<1>1. CASE Has(e, "sentinel")
  <2>1. FirstAt(e, "sentinel") \in Places(e, "sentinel")
    BY <1>1, FirstPlace DEF Places, First
  <2> QED BY <1>1, <2>1 DEF ReasonOf, First
<1>2. CASE ~Has(e, "sentinel")
  BY <1>2 DEF ReasonOf
<1> QED BY <1>1, <1>2

(* Whatever dbutil answers, if it is sound, the invariant holds of it.     *)
LEMMA ReturnStep ==
  ASSUME PathInv, NEW function \in {"HandleError", "WrapError", "MustHandleError"},
         NEW answer, Return(function, answer), Sound(function, err, answer)
  PROVE  PathInv'
<1> PICK e : e = raised
  OBVIOUS
<1> PICK a : a = answer.err
  OBVIOUS
<1>1. /\ e \in DriverErrors /\ err = e /\ counted = <<>>
      /\ a \in Owned \cup {Nil, e, <<Text>> \o e}
      /\ UNCHANGED <<handler, raised, counted>>
      /\ via' = function /\ handled' = answer.handled /\ stage' = "service"
  BY DEF PathInv, TypeOK, Before, Return, Sound
<1>2. e \in Seq(Links) /\ a \in Seq(Links)
  BY <1>1, QueryErrors, AnswerShape
<1>3. PICK f \in Seq(Links) : f = HereAt("data", a)
  BY <1>2, HereKeeps
<1>4. err' = f
  BY <1>3 DEF Return
<1>5. /\ f = Nil <=> a = Nil
      /\ ReasonOf(f) = ReasonOf(a)
      /\ \A kind \in {"norows", "pg"} : Has(f, kind) <=> Has(a, kind)
      /\ \A i \in DOMAIN f :
           f[i].is = "origin" \/ \E j \in DOMAIN a : f[i] = a[j]
      /\ EndsIn(a, e) => EndsIn(f, e)
      /\ Has(a, "origin") => f = a
      /\ a # Nil /\ ~Has(a, "origin") =>
           Places(f, "origin") = {1} /\ f[1].tag = "data"
  BY <1>2, <1>3, HereKeeps
<1>6. /\ Places(a, "connect") = {}
      /\ \A i \in Places(a, "sentinel") : a[i].tag \in Reasons
      /\ Has(a, "origin") =>
           /\ Has(e, "origin") /\ EndsIn(a, e)
           /\ \E k \in DOMAIN a : Places(a, "origin") = {k} /\ a[k].tag = "query"
  BY <1>1, AnswerShape
<1>7. /\ Places(f, "connect") = {}
      /\ \A i \in Places(f, "sentinel") : f[i].tag \in Reasons
  BY <1>5, <1>6 DEF Places
<1>8. TypeOK'
  BY <1>1, <1>4 DEF PathInv, TypeOK, Sound
<1>9. Before'
  BY <1>1 DEF Before
<1>10. Located'
  <2> SUFFICES ASSUME f # Nil
      PROVE  \E k \in DOMAIN f :
               /\ Places(f, "origin") = {k}
               /\ f[k].tag \in {"query", "data"}
               /\ f[k].tag = "query" => Has(e, "origin") /\ EndsIn(f, e)
    BY <1>1, <1>4 DEF Located
  <2>1. CASE Has(a, "origin")
    BY <1>5, <1>6, <2>1
  <2>2. CASE ~Has(a, "origin")
    <3>1. Places(f, "origin") = {1} /\ f[1].tag = "data" /\ 1 \in DOMAIN f
      BY <1>5, <2>2 DEF Places
    <3> QED BY <3>1
  <2> QED BY <2>1, <2>2
<1>11. Caused'
  BY <1>1, <1>4, <1>5 DEF Caused, Sound
<1>12. Reasoned'
  <2>1. \A i \in DOMAIN counted' : counted'[i] = ReasonOf(f)
    BY <1>1
  <2>2. Has(e, "pg") /\ Mapped(e) => ReasonOf(f) = ReasonOf(handler.maps[Code(e)])
    BY <1>1, <1>5 DEF Sound
  <2>3. Mapped(raised)' <=> Mapped(e)
    BY <1>1 DEF Mapped
  <2> QED BY <1>1, <1>4, <1>7, <2>1, <2>2, <2>3 DEF Reasoned
<1>13. Attached'
  BY <1>1 DEF Attached
<1>14. VerdictStays'
  BY <1>1, <1>4, <1>5 DEF VerdictStays, Sound, Mapped
<1> QED BY <1>8, <1>9, <1>10, <1>11, <1>12, <1>13, <1>14 DEF PathInv

(* A layer puts a link in front that is not about the cause.               *)
LEMMA WrapStep ==
  ASSUME PathInv, Answered, err # Nil,
         NEW x \in Links, x.is \in {"text", "connect"},
         x.info \in {<<>>, <<"own">>},
         err' = <<x>> \o err, stage' = "service",
         UNCHANGED <<handler, raised, via, handled, counted>>
  PROVE  PathInv'
<1> PICK e \in Seq(Links) : e = err
  BY DEF PathInv, TypeOK
<1> PICK f : f = <<x>> \o e
  OBVIOUS
<1>1. /\ f \in Seq(Links) /\ f # Nil /\ err' = f /\ f[1] = x
      /\ \A i \in 1..Len(e) : f[i + 1] = e[i]
      /\ DOMAIN f = 1..(Len(e) + 1) /\ DOMAIN e = 1..Len(e) /\ Len(e) \in Nat
  BY Prepended DEF Nil
<1>2. \A kind : kind # x.is => Places(f, kind) = {i + 1 : i \in Places(e, kind)}
  BY PrependedPlaces
<1>3. /\ ReasonOf(f) = ReasonOf(e)
      /\ \A kind \in {"norows", "pg", "sentinel"} : Has(f, kind) <=> Has(e, kind)
      /\ \A i \in DOMAIN f : f[i] = x \/ \E j \in DOMAIN e : f[i] = e[j]
  BY PutInFront
<1>4. raised \in Seq(Links)
  BY QueryErrors DEF PathInv, TypeOK
<1>5. EndsIn(e, raised) => EndsIn(f, raised)
  BY <1>4, PrependEnds
<1>6. TypeOK'
  BY <1>1 DEF PathInv, TypeOK
<1>7. Before' /\ Attached'
  BY DEF Before, Attached
<1>8. Located'
  <2>1. PICK k \in DOMAIN e :
          /\ Places(e, "origin") = {k}
          /\ e[k].tag \in {"query", "data"}
          /\ e[k].tag = "query" => Has(raised, "origin") /\ EndsIn(e, raised)
    BY DEF PathInv, Located
  <2>2. f[k + 1] = e[k] /\ k + 1 \in DOMAIN f
    BY <1>1
  <2>3. Places(f, "origin") = {k + 1}
    <3>1. Places(f, "origin") = {i + 1 : i \in {k}}
      BY <1>2, <2>1
    <3> QED BY <3>1
  <2> QED BY <1>1, <1>5, <2>1, <2>2, <2>3 DEF Located
<1>9. Caused'
  BY <1>1, <1>3, <1>5 DEF PathInv, Caused, Answered
<1>10. Reasoned'
  <2>1. /\ \A i \in Places(e, "sentinel") : e[i].tag \in Reasons
        /\ \A i \in DOMAIN counted : counted[i] = ReasonOf(e)
        /\ Has(raised, "pg") /\ Mapped(raised) =>
             ReasonOf(e) = ReasonOf(handler.maps[Code(raised)])
        /\ \A i \in Places(e, "connect") :
             e[i].info \in {<<>>, <<"own">>, <<ReasonOf(e)>>}
    BY DEF PathInv, Reasoned
  <2>2. \A i \in Places(f, "sentinel") : f[i].tag \in Reasons
    BY <1>3, <2>1 DEF Places
  <2>3. \A i \in Places(f, "connect") :
          f[i].info \in {<<>>, <<"own">>, <<ReasonOf(e)>>}
    BY <1>3, <2>1 DEF Places
  <2>4. Mapped(raised)' <=> Mapped(raised)
    BY DEF Mapped
  <2> QED BY <1>1, <1>3, <2>1, <2>2, <2>3, <2>4 DEF Reasoned
<1>11. VerdictStays'
  BY <1>1 DEF PathInv, VerdictStays, Answered
<1> QED BY <1>6, <1>7, <1>8, <1>9, <1>10, <1>11 DEF PathInv

(* An interceptor counts the reason, and marks the connect error.          *)
LEMMA InterceptStep == PathInv /\ Intercept => PathInv'
<1> SUFFICES ASSUME PathInv, Intercept PROVE PathInv'
  OBVIOUS
<1>1. /\ Answered /\ err # Nil /\ stage' = "intercepted"
      /\ UNCHANGED <<handler, raised, via, handled>>
  BY DEF Intercept, Answered
<1> PICK e \in Seq(Links) : e = err
  BY DEF PathInv, TypeOK
<1> PICK r : r = ReasonOf(e)
  OBVIOUS
<1> PICK f : f = attachErrorInfo(e, r)
  OBVIOUS
<1>2. /\ \A i \in Places(e, "sentinel") : e[i].tag \in Reasons
      /\ \A i \in DOMAIN counted : counted[i] = r
      /\ Has(raised, "pg") /\ Mapped(raised) =>
           r = ReasonOf(handler.maps[Code(raised)])
      /\ \A i \in Places(e, "connect") : e[i].info \in {<<>>, <<"own">>, <<r>>}
  BY <1>1 DEF PathInv, Reasoned
<1>3. r \in Reasons \cup {"UNSPECIFIED"}
  BY <1>2, ReasonType
<1>4. /\ f \in Seq(Links) /\ Len(f) = Len(e)
      /\ \A i \in 1..Len(e) :
           /\ f[i].is = e[i].is /\ f[i].tag = e[i].tag
           /\ e[i].is # "connect" => f[i] = e[i]
           /\ f[i].info \in {e[i].info, <<r>>}
      /\ r # "UNSPECIFIED" /\ Has(e, "connect") =>
           First(f, "connect").info # <<>>
  BY <1>3, AttachKeeps
<1>5. /\ \A kind : Places(f, kind) = Places(e, kind)
      /\ ReasonOf(f) = r
      /\ DOMAIN f = 1..Len(e) /\ DOMAIN e = 1..Len(e)
  BY <1>4, SameKinds
<1>6. err' = f /\ f # Nil
  BY <1>1, <1>4 DEF Intercept, Nil
<1>7. /\ counted' \in Seq(Reasons \cup {"UNSPECIFIED"}) /\ counted' # <<>>
      /\ \A i \in DOMAIN counted' : counted'[i] = r
  <2>1. counted' = Append(counted, r) /\ counted \in Seq(Reasons \cup {"UNSPECIFIED"})
    BY DEF Intercept, PathInv, TypeOK
  <2> QED BY <1>2, <1>3, <2>1
<1>8. EndsIn(e, raised) => EndsIn(f, raised)
  <2>1. raised \in Seq(Links) /\ ~Has(raised, "connect")
    BY QueryErrors DEF PathInv, TypeOK
  <2> QED BY <1>3, <2>1, AttachEnds
<1>9. TypeOK'
  BY <1>1, <1>4, <1>6, <1>7 DEF PathInv, TypeOK
<1>10. Before'
  BY <1>1 DEF Before
<1>11. Located'
  <2>1. PICK k \in DOMAIN e :
          /\ Places(e, "origin") = {k}
          /\ e[k].tag \in {"query", "data"}
          /\ e[k].tag = "query" => Has(raised, "origin") /\ EndsIn(e, raised)
    BY <1>1 DEF PathInv, Located
  <2> QED BY <1>1, <1>4, <1>5, <1>6, <1>8, <2>1 DEF Located
<1>12. Caused'
  BY <1>1, <1>5, <1>6, <1>8 DEF PathInv, Caused, Has
<1>13. Reasoned'
  <2>1. \A i \in Places(f, "sentinel") : f[i].tag \in Reasons
    BY <1>2, <1>4, <1>5 DEF Places
  <2>2. \A i \in Places(f, "connect") : f[i].info \in {<<>>, <<"own">>, <<r>>}
    BY <1>2, <1>4, <1>5 DEF Places
  <2>3. Mapped(raised)' <=> Mapped(raised)
    BY <1>1 DEF Mapped
  <2> QED BY <1>1, <1>2, <1>5, <1>6, <1>7, <2>1, <2>2, <2>3 DEF Reasoned
<1>14. Attached'
  BY <1>1, <1>4, <1>5, <1>6, <1>7 DEF Attached, Has
<1>15. VerdictStays'
  BY <1>1, <1>6 DEF PathInv, VerdictStays
<1> QED BY <1>9, <1>10, <1>11, <1>12, <1>13, <1>14, <1>15 DEF PathInv

LEMMA PathStep == PathInv /\ [Next]_vars => PathInv'
<1> SUFFICES ASSUME PathInv, [Next]_vars PROVE PathInv'
  OBVIOUS
<1>1. ASSUME NEW e \in DriverErrors, Query(e) PROVE PathInv'
  <2>1. /\ UNCHANGED <<handler, via, handled, counted>> /\ stage' = "data"
        /\ raised' = e /\ err' = e /\ e \in Seq(Links) /\ counted = <<>>
    BY <1>1, QueryErrors DEF Query, PathInv, Before
  <2>2. TypeOK' /\ Before'
    BY <2>1 DEF PathInv, TypeOK, Before
  <2>3. ~Answered'
    BY <2>1 DEF Answered
  <2> QED BY <2>1, <2>2, <2>3 DEF PathInv, Located, Caused, Reasoned, Attached,
                                  VerdictStays
<1>2. CASE HandleError \/ MustHandleError \/ WrapError
  <2>1. handler \in Handlers /\ err \in DriverErrors
    BY <1>2 DEF HandleError, MustHandleError, WrapError, Return, PathInv, TypeOK,
                Before
  <2>2. CASE HandleError
    BY <2>1, <2>2, EachSound, ReturnStep DEF HandleError
  <2>3. CASE MustHandleError
    BY <2>1, <2>3, EachSound, ReturnStep DEF MustHandleError
  <2>4. CASE WrapError
    BY <2>1, <2>4, EachSound, ReturnStep DEF WrapError
  <2> QED BY <1>2, <2>2, <2>3, <2>4
<1>3. CASE Propagate
  <2>1. /\ Answered /\ err # Nil /\ stage' = "service"
        /\ UNCHANGED <<handler, raised, via, handled, counted>>
    BY <1>3 DEF Propagate, Answered
  <2>2. ASSUME err' = <<Text>> \o err PROVE PathInv'
    BY <2>1, <2>2, WrapStep, LinkTypes DEF Text, Link
  <2>3. ASSUME err' = HereAt("service", err) PROVE PathInv'
    <3>1. err' = err
      BY <2>1, <2>3 DEF PathInv, Located, HereAt, Has
    <3>2. Before' /\ Attached' /\ TypeOK'
      BY <2>1, <3>1 DEF PathInv, TypeOK, Before, Attached
    <3>3. Located' /\ Caused'
      BY <2>1, <3>1 DEF PathInv, Located, Caused
    <3>4. Reasoned' /\ VerdictStays'
      BY <2>1, <3>1 DEF PathInv, Reasoned, VerdictStays, Mapped
    <3> QED BY <3>2, <3>3, <3>4 DEF PathInv
  <2>4. ASSUME NEW info \in {<<>>, <<"own">>},
               err' = <<[Link("connect", "") EXCEPT !.info = info]>> \o err
        PROVE  PathInv'
    <3>1. PICK x \in Links : x = [Link("connect", "") EXCEPT !.info = info]
      BY LinkTypes
    <3>2. x.is = "connect" /\ x.info = info
      BY <3>1 DEF Link
    <3> QED BY <2>1, <2>4, <3>1, <3>2, WrapStep
  <2> QED BY <1>3, <2>2, <2>3, <2>4 DEF Propagate
<1>4. CASE Intercept
  BY <1>4, InterceptStep
<1>5. CASE Deliver
  <2>1. /\ UNCHANGED <<handler, raised, via, handled, err, counted>>
        /\ stage' = "client" /\ Answered
        /\ stage = "intercepted" \/ err = Nil
    BY <1>5 DEF Deliver, Answered
  <2>2. TypeOK' /\ Before'
    BY <2>1 DEF PathInv, TypeOK, Before
  <2>3. Located' /\ Caused'
    BY <2>1 DEF PathInv, Located, Caused
  <2>4. Reasoned' /\ VerdictStays'
    BY <2>1 DEF PathInv, Reasoned, VerdictStays, Mapped
  <2>5. Attached'
    BY <2>1 DEF PathInv, Attached, Has, Places, Nil
  <2> QED BY <2>2, <2>3, <2>4, <2>5 DEF PathInv
<1>6. CASE UNCHANGED vars
  <2>1. UNCHANGED <<handler, raised, via, handled, err, counted, stage>>
    BY <1>6 DEF vars
  <2>2. TypeOK' /\ Before' /\ Attached'
    BY <2>1 DEF PathInv, TypeOK, Before, Attached
  <2>3. Located' /\ Caused'
    BY <2>1 DEF PathInv, Located, Caused, Answered
  <2>4. Reasoned' /\ VerdictStays'
    BY <2>1 DEF PathInv, Reasoned, VerdictStays, Mapped, Answered
  <2> QED BY <2>2, <2>3, <2>4 DEF PathInv
<1> QED BY <1>1, <1>2, <1>3, <1>4, <1>5, <1>6 DEF Next

LEMMA PathInvariant == Spec => []PathInv
<1>1. Init => PathInv
  <2> SUFFICES ASSUME Init PROVE PathInv
    OBVIOUS
  <2>1. TypeOK
    <3>1. raised \in DriverErrors /\ err \in Seq(Links)
      BY EmptySeq DEF Init, DriverErrors, Nil
    <3>2. counted \in Seq(Reasons \cup {"UNSPECIFIED"})
      BY EmptySeq DEF Init
    <3> QED BY <3>1, <3>2 DEF Init, TypeOK
  <2> QED BY <2>1 DEF Init, PathInv, Before, Located, Caused, Reasoned, Attached,
                      VerdictStays, Answered
<1> QED BY <1>1, PathStep, PTL DEF Spec

-----------------------------------------------------------------------------

(* Every chain on the way is one of links, for any codes and reasons.      *)
THEOREM PathTypeCorrect == Spec => []TypeOK
<1>1. PathInv => TypeOK
  BY DEF PathInv
<1> QED BY <1>1, PathInvariant, PTL

(* However many layers call Here, the place that is reported is the one    *)
(* where the error entered the kit.                                        *)
THEOREM OriginKept == Spec => []OriginIsInnermost
<1>1. PathInv => OriginIsInnermost
  <2> SUFFICES ASSUME PathInv, Answered, err # Nil
      PROVE  /\ \E i \in DOMAIN err : Places(err, "origin") = {i}
             /\ First(err, "origin").tag =
                  IF IsSuffix(raised, err) /\ Has(raised, "origin")
                  THEN "query" ELSE "data"
    BY DEF OriginIsInnermost
  <2>1. PICK k \in DOMAIN err :
          /\ Places(err, "origin") = {k}
          /\ err[k].tag \in {"query", "data"}
          /\ err[k].tag = "query" => Has(raised, "origin") /\ EndsIn(err, raised)
    BY DEF PathInv, Located
  <2>2. err \in Seq(Links) /\ raised \in DriverErrors /\ raised \in Seq(Links)
    BY QueryErrors DEF PathInv, TypeOK
  <2>3. First(err, "origin") = err[k]
    <3>1. FirstAt(err, "origin") \in {k}
      BY <2>1, <2>2, FirstPlace DEF Has, First, Places
    <3> QED BY <3>1 DEF First
  <2>4. EndsIn(err, raised) /\ Has(raised, "origin") => err[k].tag = "query"
    <3> SUFFICES ASSUME EndsIn(err, raised), Has(raised, "origin")
        PROVE  err[k].tag = "query"
      OBVIOUS
    <3>1. /\ 1 \in 1..Len(raised) /\ raised[1].is = "origin"
          /\ raised[1].tag = "query"
      BY <2>2, QueryErrors DEF Places
    <3>2. PICK j : j = Len(err) - Len(raised) + 1
      OBVIOUS
    <3>3. err[j] = raised[1] /\ j \in DOMAIN err
      BY <2>2, <3>1, <3>2 DEF EndsIn
    <3> QED BY <2>1, <3>1, <3>3 DEF Places
  <2> QED BY <2>1, <2>2, <2>3, <2>4, SuffixByLinks
<1> QED BY <1>1, PathInvariant, PTL

(* However many interceptors and connect errors there are, the client gets *)
(* the declared reason that was counted, once.                             *)
THEOREM ReasonReachesClient == Spec => []ClientLearnsReason
<1>1. PathInv => ClientLearnsReason
  <2> SUFFICES ASSUME PathInv, stage \in {"intercepted", "client"},
                      Has(err, "connect")
      PROVE  LET info == First(err, "connect").info
             IN  /\ Len(info) <= 1
                 /\ Last(counted) # "UNSPECIFIED" =>
                      info \in {<<Last(counted)>>, <<"own">>}
    BY DEF ClientLearnsReason
  <2> PICK r : r = ReasonOf(err)
    OBVIOUS
  <2>1. /\ \A i \in DOMAIN counted : counted[i] = r
        /\ \A i \in Places(err, "connect") : err[i].info \in {<<>>, <<"own">>, <<r>>}
        /\ counted # <<>> /\ (r # "UNSPECIFIED" => First(err, "connect").info # <<>>)
        /\ err \in Seq(Links) /\ counted \in Seq(Reasons \cup {"UNSPECIFIED"})
    BY DEF PathInv, TypeOK, Reasoned, Attached, Answered
  <2>2. First(err, "connect").info \in {<<>>, <<"own">>, <<r>>}
    BY <2>1, FirstPlace DEF Places, First
  <2>3. Last(counted) = r
    <3>1. Len(counted) \in DOMAIN counted
      BY <2>1
    <3> QED BY <2>1, <3>1 DEF Last
  <2>4. Len(<<>>) <= 1 /\ Len(<<"own">>) <= 1 /\ Len(<<r>>) <= 1
    OBVIOUS
  <2> QED BY <2>1, <2>2, <2>3, <2>4
<1> QED BY <1>1, PathInvariant, PTL

(* A mapped SQLSTATE is counted under its reason by every interceptor.     *)
THEOREM MappingCounted == Spec => []MappingDecidesReason
<1>1. PathInv => MappingDecidesReason
  <2>1. PathInv /\ ~Answered => counted = <<>>
    BY DEF PathInv, TypeOK, Before, Answered
  <2>2. \A i \in DOMAIN <<>> : FALSE
    OBVIOUS
  <2> QED BY <2>1, <2>2 DEF PathInv, Reasoned, MappingDecidesReason
<1> QED BY <1>1, PathInvariant, PTL

(* MustHandleError hides a PgError and an ErrNoRows from each layer above,  *)
(* and the other functions keep it within reach of all of them, but for    *)
(* what an application's own handlers do.                                  *)
THEOREM CauseSafe == Spec => []CauseKeptOrHidden
<1>1. PathInv => CauseKeptOrHidden
  <2>1. PathInv => err \in Seq(Links) /\ raised \in Seq(Links)
    BY QueryErrors DEF PathInv, TypeOK
  <2> QED BY <2>1, SuffixByLinks DEF PathInv, Caused, CauseKeptOrHidden
<1> QED BY <1>1, PathInvariant, PTL

(* No failure becomes a success that the application has not asked for.    *)
THEOREM VerdictKept == Spec => []VerdictStays
<1>1. PathInv => VerdictStays
  BY DEF PathInv
<1> QED BY <1>1, PathInvariant, PTL

-----------------------------------------------------------------------------
(* The protection of a connection                                          *)

\* plan was tried up to its n-th attempt: those before failed, and the n-th
\* one failed too or is the connection.
Progress(plan, n) ==
  /\ Len(attempts) = Len(plan) - n
  /\ \A i \in 1..Len(attempts) : attempts[i] = plan[n + i]
  /\ dialled \subseteq {plan[i].host : i \in 1..n}
  /\ \/ /\ outcome \in {"dialling", "refused"}
        /\ \A i \in 1..n : ~Succeeds(plan[i])
     \/ /\ outcome \in Protections /\ n > 0
        /\ Succeeds(plan[n]) /\ plan[n].tls = outcome
        /\ \A i \in 1..(n - 1) : ~Succeeds(plan[i])

\* Nothing is tried but the attempts of the options, in their order.
Planned ==
  /\ outcome \in {"building", "invalid"} => dialled = {}
  /\ outcome = "invalid" => Attempts = {}
  /\ outcome = "refused" => attempts = <<>>
  /\ outcome \notin {"building", "invalid"} =>
       \E plan \in Attempts : \E n \in 0..Len(plan) : Progress(plan, n)

DialInv == DialTypeOK /\ Planned

\* The attempts a connection can make.
Dials == [host : {Host, DefaultHost}, tls : Protections, roots : Roots]

(* All attempts are at the configured host.                                *)
LEMMA AttemptTypes ==
  /\ Plain \in Dials /\ Unverified \in Dials
  /\ \A t \in Protections, r \in Roots : Attempt(t, r) \in Dials
  /\ \A c \in CAs : RootsOf(c) \in Roots
  BY DEF Plain, Unverified, Attempt, Dials, Protections, Roots, CAs, RootsOf

LEMMA ConfigTypes ==
  ASSUME options \in Options, options.client = "postgres", Mode # "unknown"
  PROVE  TLSConfigs \in Seq(Dials)
<1>1. options.mode \in Modes /\ options.ca \in CAs
  BY DEF Options
<1>2. Effective \in {"disable", "allow", "prefer", "require", "verify-ca",
                     "verify-full"}
  BY <1>1 DEF Effective, Mode, Modes
<1>3. /\ Attempt("chain", RootsOf(options.ca)) \in Dials
      /\ Attempt("full", RootsOf(options.ca)) \in Dials
  BY <1>1, AttemptTypes DEF Protections
<1> QED BY <1>2, <1>3, AttemptTypes DEF TLSConfigs

LEMMA PlanTypes ==
  ASSUME options \in Options, NEW plan \in Attempts
  PROVE  plan \in Seq(Dials)
<1>1. options.ca \in CAs
  BY DEF Options
<1>2. /\ Attempt("full", RootsOf(options.ca)) \in Dials
      /\ Attempt("full", "ca") \in Dials /\ Attempt("full", "system") \in Dials
  BY <1>1, AttemptTypes DEF Protections, Roots
<1>3. CASE options.client = "postgres"
  <2>1. plan = TLSConfigs /\ Mode # "unknown"
    BY <1>3 DEF Attempts, PostgresAttempts
  <2> QED BY <2>1, <1>3, ConfigTypes
<1>4. CASE options.client = "redis"
  <2>0. \A d \in Dials : <<d>> \in Seq(Dials)
    OBVIOUS
  <2>1. plan = <<Plain>> \/ plan = <<Unverified>>
        \/ plan = <<Attempt("full", RootsOf(options.ca))>>
    BY <1>4 DEF Attempts, RedisAttempts
  <2> QED BY <2>0, <2>1, <1>2, AttemptTypes, Zenon
<1>5. CASE options.client = "otlp"
  <2>0. \A d \in Dials : <<d>> \in Seq(Dials)
    OBVIOUS
  <2>1. plan = <<Plain>> \/ plan = <<Unverified>>
        \/ plan = <<Attempt("full", "ca")>> \/ plan = <<Attempt("full", "system")>>
    BY <1>5 DEF Attempts, OtlpAttempts, OtlpVerified
  <2> QED BY <2>0, <2>1, <1>2, AttemptTypes, Zenon
<1> QED BY <1>3, <1>4, <1>5 DEF Options

(* Neither the plan nor what comes of an attempt changes on the way.       *)
LEMMA SamePlan ==
  ASSUME UNCHANGED <<options, server>>
  PROVE  Attempts' = Attempts /\ \A a : Succeeds(a)' <=> Succeeds(a)
<1>1. Attempts' = Attempts
  BY DEF Attempts, PostgresAttempts, RedisAttempts, OtlpAttempts, OtlpVerified,
         TLSConfigs, Effective, Mode
<1>2. \A a : Succeeds(a)' <=> Succeeds(a)
  BY DEF Succeeds, Chains
<1> QED BY <1>1, <1>2

LEMMA DialStart == DialInit => DialInv
  BY DEF DialInit, DialInv, DialTypeOK, Planned, Protections

LEMMA BuildStep == DialInv /\ Build => DialInv'
<1> SUFFICES ASSUME DialInv, Build PROVE DialInv'
  OBVIOUS
<1>0. options \in Options /\ dialled = {}
  BY DEF DialInv, DialTypeOK, Planned, Build
<1>1. Attempts' = Attempts
  BY SamePlan DEF Build
<1>2. CASE Attempts = {}
  <2>1. DialTypeOK'
    BY <1>2 DEF DialInv, DialTypeOK, Build
  <2>2. Planned'
    BY <1>0, <1>1, <1>2 DEF Planned, Build
  <2> QED BY <2>1, <2>2 DEF DialInv
<1>3. CASE Attempts # {}
  <2>0. attempts' \in Attempts /\ outcome' = "dialling" /\ dialled' = {}
    BY <1>0, <1>3 DEF Build
  <2>1. PICK plan \in Attempts : plan = attempts'
    BY <2>0
  <2>2. plan \in Seq(Dials)
    BY <1>0, PlanTypes
  <2>3. DialTypeOK'
    BY <2>0, <2>1, <2>2 DEF DialInv, DialTypeOK, Build, Dials
  <2>4. Progress(plan, 0)'
    BY <2>0, <2>1, <2>2 DEF Progress
  <2>5. Planned'
    BY <2>0, <2>1, <2>2, <2>4, <1>1 DEF Planned
  <2> QED BY <2>3, <2>5 DEF DialInv
<1> QED BY <1>2, <1>3

LEMMA DialStep == DialInv /\ Dial => DialInv'
<1> SUFFICES ASSUME DialInv, Dial PROVE DialInv'
  OBVIOUS
<1> DEFINE a == Head(attempts)
<1>0. /\ options \in Options /\ attempts \in Seq(Dials) /\ attempts # <<>>
      /\ outcome = "dialling" /\ UNCHANGED <<options, server>>
  BY DEF DialInv, DialTypeOK, Dial, Dials
<1>1. Attempts' = Attempts /\ \A x : Succeeds(x)' <=> Succeeds(x)
  BY <1>0, SamePlan
<1>2. PICK plan \in Attempts : \E n \in 0..Len(plan) : Progress(plan, n)
  BY <1>0 DEF DialInv, Planned
<1>3. PICK n \in 0..Len(plan) : Progress(plan, n)
  BY <1>2
<1>4. plan \in Seq(Dials) /\ Len(plan) \in Nat
  BY <1>0, PlanTypes
<1>5. /\ a \in Dials /\ a = attempts[1] /\ Len(attempts) > 0
      /\ Len(attempts') = Len(attempts) - 1
      /\ attempts' \in Seq(Dials)
      /\ \A i \in 1..Len(attempts') : attempts'[i] = attempts[i + 1]
  BY <1>0 DEF Dial
<1>6. n + 1 \in 0..Len(plan) /\ a = plan[n + 1]
  BY <1>3, <1>4, <1>5 DEF Progress
<1>7. \A i \in 1..n : ~Succeeds(plan[i])
  BY <1>0, <1>3 DEF Progress, Protections
<1>8. outcome' = IF Succeeds(a) THEN a.tls ELSE "dialling"
  BY DEF Dial
<1>9. a.tls \in Protections /\ a.host \in {Host, DefaultHost}
  BY <1>5 DEF Dials
<1>10. DialTypeOK'
  BY <1>0, <1>5, <1>8, <1>9 DEF DialInv, DialTypeOK, Dial, Dials
<1>11. Len(attempts') = Len(plan) - (n + 1)
  BY <1>3, <1>4, <1>5 DEF Progress
<1>12. \A i \in 1..Len(attempts') : attempts'[i] = plan[(n + 1) + i]
  <2> TAKE i \in 1..Len(attempts')
  <2>1. attempts'[i] = attempts[i + 1] /\ i + 1 \in 1..Len(attempts)
    BY <1>0, <1>5
  <2>2. attempts[i + 1] = plan[n + (i + 1)]
    BY <2>1, <1>3 DEF Progress
  <2>3. n + (i + 1) = (n + 1) + i
    BY <1>3
  <2> QED BY <2>1, <2>2, <2>3
<1>13. dialled' \subseteq {plan[i].host : i \in 1..(n + 1)}
  <2>1. dialled \subseteq {plan[i].host : i \in 1..n}
    BY <1>3 DEF Progress
  <2>2. dialled' = dialled \cup {plan[n + 1].host}
    BY <1>6 DEF Dial
  <2>3. 1..n \subseteq 1..(n + 1) /\ n + 1 \in 1..(n + 1)
    BY <1>3, <1>4
  <2> QED BY <2>1, <2>2, <2>3
<1>14. \A i \in 1..((n + 1) - 1) : ~Succeeds(plan[i])'
  BY <1>1, <1>3, <1>4, <1>7
<1>15. Progress(plan, n + 1)'
  <2>1. CASE Succeeds(a)
    <3>1. outcome' = plan[n + 1].tls /\ outcome' \in Protections
      BY <2>1, <1>6, <1>8, <1>9
    <3>2. Succeeds(plan[n + 1])' /\ n + 1 > 0
      BY <2>1, <1>1, <1>3, <1>4, <1>6
    <3> QED BY <3>1, <3>2, <1>11, <1>12, <1>13, <1>14 DEF Progress
  <2>2. CASE ~Succeeds(a)
    <3>1. outcome' = "dialling"
      BY <2>2, <1>8
    <3>2. \A i \in 1..(n + 1) : ~Succeeds(plan[i])
      <4> TAKE i \in 1..(n + 1)
      <4>1. i \in 1..n \/ i = n + 1
        BY <1>3, <1>4
      <4> QED BY <4>1, <2>2, <1>6, <1>7
    <3> QED BY <3>1, <3>2, <1>1, <1>11, <1>12, <1>13 DEF Progress
  <2> QED BY <2>1, <2>2
<1>16. outcome' \notin {"building", "invalid", "refused"}
  BY <1>8, <1>9 DEF Protections
<1>17. Planned'
  BY <1>1, <1>2, <1>6, <1>15, <1>16 DEF Planned
<1> QED BY <1>10, <1>17 DEF DialInv

LEMMA GiveUpStep == DialInv /\ GiveUp => DialInv'
<1> SUFFICES ASSUME DialInv, GiveUp PROVE DialInv'
  OBVIOUS
<1>0. /\ outcome = "dialling" /\ outcome' = "refused" /\ attempts = <<>>
      /\ UNCHANGED <<options, server, attempts, dialled>>
  BY DEF GiveUp
<1>1. Attempts' = Attempts /\ \A x : Succeeds(x)' <=> Succeeds(x)
  BY <1>0, SamePlan
<1>2. PICK plan \in Attempts : \E n \in 0..Len(plan) : Progress(plan, n)
  BY <1>0 DEF DialInv, Planned
<1>3. PICK n \in 0..Len(plan) : Progress(plan, n)
  BY <1>2
<1>4. Progress(plan, n)'
  BY <1>0, <1>1, <1>3 DEF Progress, Protections
<1>5. Planned'
  BY <1>0, <1>1, <1>2, <1>3, <1>4 DEF Planned
<1>6. DialTypeOK'
  BY <1>0 DEF DialInv, DialTypeOK
<1> QED BY <1>5, <1>6 DEF DialInv

LEMMA DialInvariant == DialSpec => []DialInv
<1>1. DialInv /\ [DialNext]_dialVars => DialInv'
  <2> SUFFICES ASSUME DialInv, [DialNext]_dialVars PROVE DialInv'
    OBVIOUS
  <2>1. CASE UNCHANGED dialVars
    <3>1. UNCHANGED <<options, server, attempts, dialled, outcome>>
      BY <2>1 DEF dialVars
    <3>2. Attempts' = Attempts /\ \A x : Succeeds(x)' <=> Succeeds(x)
      BY <3>1, SamePlan
    <3>3. DialTypeOK'
      BY <3>1 DEF DialInv, DialTypeOK
    <3>4. \A plan : \A n : Progress(plan, n)' <=> Progress(plan, n)
      BY <3>1, <3>2 DEF Progress
    <3>5. Planned'
      BY <3>1, <3>2, <3>4 DEF DialInv, Planned
    <3> QED BY <3>3, <3>5 DEF DialInv
  <2> QED BY <2>1, BuildStep, DialStep, GiveUpStep DEF DialNext
<1> QED BY <1>1, DialStart, PTL DEF DialSpec

\* The attempts are for these protections, in their order: each succeeds with
\* the servers that offer its protection.
Matches(plan, protections) ==
  /\ protections \in Seq(Protections) /\ Len(plan) = Len(protections)
  /\ \A i \in 1..Len(protections) :
       /\ plan[i].host = Host
       /\ plan[i].tls = protections[i]
       /\ Succeeds(plan[i]) <=> protections[i] \in Offered

(* The attempts of an accepted mode are for the wanted protections.        *)
LEMMA PlanIsWanted ==
  ASSUME DialTypeOK, options.client = "postgres"
  PROVE  /\ Attempts = {} => Wanted = <<>>
         /\ Attempts # {} =>
              Attempts = {TLSConfigs} /\ Matches(TLSConfigs, Wanted)
<1>0. /\ options.mode \in Modes /\ options.ca \in CAs
      /\ Mode \in Modes \ {""}
  BY DEF DialTypeOK, Options, Modes, Mode
<1>1. /\ Attempts = PostgresAttempts
      /\ Attempts = {} <=> options.ca = "bad" \/ Mode = "unknown"
      /\ Attempts # {} => Attempts = {TLSConfigs}
  BY DEF Attempts, PostgresAttempts
<1>2. CASE Attempts = {}
  <2>1. Wanted = <<>>
    BY <1>1, <1>2 DEF Wanted
  <2> QED BY <1>2, <2>1
<1>3. CASE Attempts # {}
  <2> DEFINE r == RootsOf(options.ca)
  <2>0. options.ca \in {"none", "good"} /\ Mode # "unknown"
    BY <1>0, <1>1, <1>3 DEF CAs
  <2>1. /\ Plain = Attempt("plain", "any")
        /\ Unverified = Attempt("unverified", "any")
        /\ r = IF options.ca = "good" THEN "ca" ELSE "system"
    BY <2>0 DEF Plain, Unverified, RootsOf
  <2>2. \A p \in Protections, q \in Roots :
          (p \in {"chain", "full"} => q = r) =>
            /\ Attempt(p, q).host = Host /\ Attempt(p, q).tls = p
            /\ Succeeds(Attempt(p, q)) <=> p \in Offered
    BY <2>1, HostAssumption
       DEF Attempt, Succeeds, Chains, Offered, Trusted, Protections
  <2>3. r \in Roots /\ "any" \in Roots
    BY <2>1 DEF Roots
  <2>4. \A p \in {"plain", "unverified"} :
            /\ Attempt(p, "any").host = Host /\ Attempt(p, "any").tls = p
            /\ Succeeds(Attempt(p, "any")) <=> p \in Offered
    BY <2>2, <2>3 DEF Protections
  <2>5. \A p \in {"chain", "full"} :
            /\ Attempt(p, r).host = Host /\ Attempt(p, r).tls = p
            /\ Succeeds(Attempt(p, r)) <=> p \in Offered
    BY <2>2, <2>3 DEF Protections
  <2>6. Matches(TLSConfigs, Wanted)
    <3>1. CASE Mode = "disable"
      <4>1. TLSConfigs = <<Attempt("plain", "any")>> /\ Wanted = <<"plain">>
        BY <3>1, <2>0, <2>1 DEF TLSConfigs, Effective, Wanted
      <4> QED BY <4>1, <2>4 DEF Protections, Matches
    <3>2. CASE Mode = "allow"
      <4>1. /\ TLSConfigs = <<Attempt("plain", "any"), Attempt("unverified", "any")>>
            /\ Wanted = <<"plain", "unverified">>
        BY <3>2, <2>0, <2>1 DEF TLSConfigs, Effective, Wanted
      <4> QED BY <4>1, <2>4 DEF Protections, Matches
    <3>3. CASE Mode = "prefer"
      <4>1. /\ TLSConfigs = <<Attempt("unverified", "any"), Attempt("plain", "any")>>
            /\ Wanted = <<"unverified", "plain">>
        BY <3>3, <2>0, <2>1 DEF TLSConfigs, Effective, Wanted
      <4> QED BY <4>1, <2>4 DEF Protections, Matches
    <3>4. CASE Mode = "require" /\ options.ca = "none"
      <4>1. /\ TLSConfigs = <<Attempt("unverified", "any")>>
            /\ Wanted = <<"unverified">>
        BY <3>4, <2>0, <2>1 DEF TLSConfigs, Effective, Wanted
      <4> QED BY <4>1, <2>4 DEF Protections, Matches
    <3>5. CASE Mode = "verify-ca" \/ (Mode = "require" /\ options.ca # "none")
      <4>1. TLSConfigs = <<Attempt("chain", r)>> /\ Wanted = <<"chain">>
        BY <3>5, <2>0 DEF TLSConfigs, Effective, Wanted
      <4> QED BY <4>1, <2>5 DEF Protections, Matches
    <3>6. CASE Mode = "verify-full"
      <4>1. TLSConfigs = <<Attempt("full", r)>> /\ Wanted = <<"full">>
        BY <3>6, <2>0 DEF TLSConfigs, Effective, Wanted
      <4> QED BY <4>1, <2>5 DEF Protections, Matches
    <3>7. Mode \in {"disable", "allow", "prefer", "require", "verify-ca",
                   "verify-full"}
      BY <1>0, <2>0 DEF Modes
    <3> QED BY <3>1, <3>2, <3>3, <3>4, <3>5, <3>6, <3>7
  <2> QED BY <2>6, <1>1, <1>3
<1> QED BY <1>2, <1>3

(* A pool is connected with the first of its mode's protections that the   *)
(* server offers, or not at all, and no other host was dialled.            *)
THEOREM LibpqFollowed == DialSpec => []FollowsLibpq
<1>1. DialInv => FollowsLibpq
  <2> SUFFICES ASSUME DialInv, options.client = "postgres",
                      outcome \notin {"building", "dialling"}
               PROVE  FollowsLibpq
    BY DEF FollowsLibpq
  <2> DEFINE possible == {i \in DOMAIN Wanted : Wanted[i] \in Offered}
  <2>0. DialTypeOK /\ Planned
    BY DEF DialInv
  <2>1. CASE outcome = "invalid"
    <3>1. Wanted = <<>> /\ dialled = {}
      BY <2>0, <2>1, PlanIsWanted DEF Planned
    <3>2. possible = {}
      BY <3>1
    <3> QED BY <2>1, <3>1, <3>2 DEF FollowsLibpq
  <2>2. CASE outcome # "invalid"
    <3>1. PICK plan \in Attempts : \E n \in 0..Len(plan) : Progress(plan, n)
      BY <2>0, <2>2 DEF Planned
    <3>2. PICK n \in 0..Len(plan) : Progress(plan, n)
      BY <3>1
    <3>3. /\ plan = TLSConfigs
          /\ Wanted \in Seq(Protections) /\ Len(plan) = Len(Wanted)
          /\ \A i \in 1..Len(Wanted) :
               /\ plan[i].host = Host
               /\ plan[i].tls = Wanted[i]
               /\ Succeeds(plan[i]) <=> Wanted[i] \in Offered
      BY <2>0, <3>1, PlanIsWanted DEF Matches
    <3>4. Len(plan) \in Nat /\ DOMAIN Wanted = 1..Len(plan)
      BY <3>3
    <3>5. dialled \subseteq {Host}
      <4>1. \A i \in 1..n : plan[i].host = Host
        BY <3>2, <3>3, <3>4
      <4> QED BY <4>1, <3>2 DEF Progress
    <3>6. possible = {i \in 1..Len(plan) : Succeeds(plan[i])}
      BY <3>3, <3>4
    <3>7. CASE outcome = "refused"
      <4>1. attempts = <<>> /\ Len(attempts) = Len(plan) - n
        BY <2>0, <3>2, <3>7 DEF Planned, Progress
      <4>2. n = Len(plan)
        BY <4>1, <3>2, <3>4
      <4>3. \A i \in 1..n : ~Succeeds(plan[i])
        BY <3>2, <3>7 DEF Progress, Protections
      <4>4. possible = {}
        BY <3>6, <4>2, <4>3
      <4> QED BY <3>5, <3>7, <4>4 DEF FollowsLibpq
    <3>8. CASE outcome # "refused"
      <4>1. /\ n > 0 /\ Succeeds(plan[n]) /\ plan[n].tls = outcome
            /\ \A i \in 1..(n - 1) : ~Succeeds(plan[i])
        BY <2>2, <3>2, <3>8 DEF Progress
      <4>2. n \in possible /\ possible \in SUBSET Nat
        BY <3>2, <3>4, <3>6, <4>1
      <4>3. \A i \in possible : n <= i
        BY <3>2, <3>4, <3>6, <4>1
      <4>4. Min(possible) = n
        BY <4>2, <4>3, MinIs
      <4>5. outcome = Wanted[n]
        BY <3>2, <3>3, <3>4, <4>1
      <4> HIDE DEF possible
      <4>6. possible # {} /\ outcome = Wanted[Min(possible)]
        BY <4>2, <4>4, <4>5
      <4> QED BY <3>5, <4>6 DEF FollowsLibpq, possible
    <3> QED BY <3>7, <3>8
  <2> QED BY <2>1, <2>2
<1> QED BY <1>1, DialInvariant, PTL

(* No CA bundle, readable or not, weakens a Redis or OTLP connection that  *)
(* is to be verified.                                                      *)
THEOREM VerifiedStaysVerified == DialSpec => []NeverWeaker
<1>1. DialInv => NeverWeaker
  <2> SUFFICES ASSUME DialInv, options.client # "postgres",
                      options.mode = "on", outcome \in Protections
               PROVE  NeverWeaker
    BY DEF NeverWeaker
  <2>0. options \in Options /\ Planned
    BY DEF DialInv, DialTypeOK
  <2>1. options.client \in {"redis", "otlp"} /\ options.ca \in CAs
    BY <2>0 DEF Options
  <2>2. PICK plan \in Attempts : \E n \in 0..Len(plan) : Progress(plan, n)
    BY <2>0 DEF Planned, Protections
  <2>3. PICK n \in 0..Len(plan) : Progress(plan, n)
    BY <2>2
  <2> DEFINE r == IF options.ca = "good" THEN "ca" ELSE "system"
  <2>4. plan = <<Attempt("full", r)>>
    <3>1. CASE options.client = "redis"
      <4>1. options.ca # "bad" /\ plan = <<Attempt("full", RootsOf(options.ca))>>
        BY <3>1, <2>2 DEF Attempts, RedisAttempts
      <4>2. RootsOf(options.ca) = r
        BY <4>1, <2>1 DEF RootsOf, CAs
      <4> QED BY <4>1, <4>2
    <3>2. CASE options.client = "otlp"
      BY <3>2, <2>2 DEF Attempts, OtlpAttempts, OtlpVerified
    <3> QED BY <3>1, <3>2, <2>1
  <2>5. Len(plan) = 1 /\ plan[1] = Attempt("full", r)
    BY <2>4
  <2>6. n = 1 /\ Succeeds(plan[n]) /\ plan[n].tls = outcome
    BY <2>3, <2>5 DEF Progress, Protections
  <2>7. /\ Attempt("full", r).tls = "full" /\ Attempt("full", r).roots = r
        /\ Attempt("full", r).host = Host
    BY DEF Attempt
  <2>8. outcome = "full" /\ Succeeds(Attempt("full", r))
    BY <2>5, <2>6, <2>7
  <2>9. server.named /\ server.issuer = r
    BY <2>7, <2>8, HostAssumption DEF Succeeds, Chains
  <2> QED BY <2>8, <2>9 DEF NeverWeaker
<1> QED BY <1>1, DialInvariant, PTL

-----------------------------------------------------------------------------
(* The drain period of a replaced handle                                  *)

\* A handle is in one role, and nothing but a timer or OnStop closes one.
Roles ==
  /\ visible \notin draining /\ prev \notin draining /\ prev # visible
  /\ stopped \/ draining \cup ({visible, prev} \ {None}) \subseteq open

\* How old an operation on a handle that is no longer visible must be: a
\* draining handle was replaced DrainTimeout - timer ticks ago or earlier.
Patience ==
  \A o \in Operations :
    /\ IF phase[o] = "idle" THEN at[o] = None ELSE at[o] \in Handles
    /\ at[o] \in draining => age[o] + timer[at[o]] >= DrainTimeout \/ stopped
    /\ at[o] \notin draining \cup {visible, prev, None} =>
         age[o] >= DrainTimeout \/ stopped
    /\ phase[o] = "failed" => age[o] >= DrainTimeout \/ stopped

WindowInv == WindowTypeOK /\ Roles /\ Patience

-----------------------------------------------------------------------------

LEMMA WindowStart == WindowInit => WindowInv
<1> SUFFICES ASSUME WindowInit PROVE WindowInv
  OBVIOUS
<1> USE DrainAssumption DEF WindowInit
<1>1. WindowTypeOK
  BY DEF WindowTypeOK
<1>2. Roles
  BY DEF Roles
<1>3. Patience
  BY DEF Patience
<1> QED BY <1>1, <1>2, <1>3 DEF WindowInv

LEMMA WindowStep == WindowInv /\ [WindowNext]_windowVars => WindowInv'
<1> SUFFICES ASSUME WindowInv, [WindowNext]_windowVars PROVE WindowInv'
  OBVIOUS
<1> USE DrainAssumption DEF WindowInv, WindowTypeOK, Roles, Patience
<1>1. CASE \E o \in Operations : Take(o)
  <2> PICK o \in Operations : Take(o)
    BY <1>1
  <2>1. WindowTypeOK'
    BY DEF Take
  <2>2. Roles'
    BY DEF Take
  <2>3. Patience'
    BY DEF Take
  <2> QED BY <2>1, <2>2, <2>3
<1>2. CASE \E o \in Operations : Use(o)
  <2> PICK o \in Operations : Use(o)
    BY <1>2
  <2>1. WindowTypeOK' /\ Roles'
    BY DEF Use
  <2>2. Patience'
    BY DEF Use
  <2> QED BY <2>1, <2>2
<1>3. CASE \E o \in Operations : Finish(o)
  <2> PICK o \in Operations : Finish(o)
    BY <1>3
  <2>1. WindowTypeOK' /\ Roles'
    BY DEF Finish
  <2>2. Patience'
    BY DEF Finish
  <2> QED BY <2>1, <2>2
<1>4. CASE \E h \in Handles : Swap(h)
  <2> PICK h \in Handles : Swap(h)
    BY <1>4
  <2>1. WindowTypeOK' /\ Roles'
    BY DEF Swap, Fresh, opvars
  <2>2. Patience'
    BY DEF Swap, Fresh, opvars
  <2> QED BY <2>1, <2>2
<1>5. CASE Arm
  <2>1. WindowTypeOK' /\ Roles'
    BY <1>5 DEF Arm, opvars
  <2>2. Patience'
    BY <1>5 DEF Arm, opvars
  <2> QED BY <2>1, <2>2
<1>6. CASE \E h \in Handles : Fire(h)
  <2> PICK h \in Handles : Fire(h)
    BY <1>6
  <2>1. WindowTypeOK' /\ Roles'
    BY DEF Fire, Interrupt
  <2>2. Patience'
    BY DEF Fire, Interrupt
  <2> QED BY <2>1, <2>2
<1>7. CASE OnStop
  <2>1. WindowTypeOK' /\ Roles'
    BY <1>7 DEF OnStop, Interrupt
  <2>2. Patience'
    BY <1>7 DEF OnStop, Interrupt
  <2> QED BY <2>1, <2>2
<1>8. CASE Tick
  <2>1. WindowTypeOK' /\ Roles'
    BY <1>8 DEF Tick
  <2>2. Patience'
    BY <1>8 DEF Tick
  <2> QED BY <2>1, <2>2
<1>9. CASE UNCHANGED windowVars
  BY <1>9 DEF windowVars, opvars
<1> QED BY <1>1, <1>2, <1>3, <1>4, <1>5, <1>6, <1>7, <1>8, <1>9 DEF WindowNext

LEMMA WindowInvariant == WindowSpec => []WindowInv
  BY WindowStart, WindowStep, PTL DEF WindowSpec

(* The visible handle and those still to be closed are handles that exist. *)
THEOREM WindowTypeCorrect == WindowSpec => []WindowTypeOK
<1>1. WindowInv => WindowTypeOK
  BY DEF WindowInv
<1> QED BY <1>1, WindowInvariant, PTL

(* No operation younger than drainTimeout fails because its handle was     *)
(* replaced, for any number of operations, handles and rebuilds.           *)
THEOREM DrainPeriodHonoured == WindowSpec => []DrainHonoured
<1>1. WindowInv => DrainHonoured
  BY DEF WindowInv, Patience, DrainHonoured
<1> QED BY <1>1, WindowInvariant, PTL

=============================================================================
