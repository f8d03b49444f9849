------------------------------ MODULE SequenceFacts ------------------------------
(* What the operators on sequences do to a sequence without repetition: the  *)
(* lists of object ids (CGameObjectArray and tags_map, CNWSModule::mod_areas)  *)
(* that the code searches from the front.                                     *)
EXTENDS Integers, Sequences, SequencesExt, WellFoundedInduction, TLAPS

\* A set of naturals has a least element: what a search from the front finds.
LEMMA FirstNatural ==
  ASSUME NEW T, T \subseteq Nat, T # {}
  PROVE  \E x \in T : \A y \in T : x <= y
<1> DEFINE R == OpToRel(<, Nat)
<1>1. IsWellFoundedOn(R, Nat)
  BY NatLessThanWellFounded
<1>2. \A x, y \in Nat : y < x => <<y, x>> \in R
  BY DEF OpToRel
<1> HIDE DEF R
<1>3. PICK x \in T : \A y \in T : ~(<<y, x>> \in R)
  BY <1>1, WFMin
<1>4. ASSUME NEW y \in T
      PROVE  x <= y
  <2>1. x \in Nat /\ y \in Nat
    OBVIOUS
  <2>2. ~(y < x)
    BY <1>2, <1>3, <2>1
  <2> QED BY <2>1, <2>2
<1> QED BY <1>4

LEMMA LeastIsIn ==
  ASSUME NEW T, T \subseteq Nat, T # {}
  PROVE  Min(T) \in T
BY FirstNatural DEF Min

\* What a new first element changes.
LEMMA PutFront ==
  ASSUME NEW S, NEW s \in Seq(S), NEW e \in S
  PROVE  /\ <<e>> \o s \in Seq(S)
         /\ ToSet(<<e>> \o s) = ToSet(s) \cup {e}
         /\ IsInjective(s) /\ e \notin ToSet(s) => IsInjective(<<e>> \o s)
<1> DEFINE r == <<e>> \o s
<1>1. /\ r \in Seq(S) /\ Len(r) = Len(s) + 1
      /\ r[1] = e /\ \A i \in 1..Len(s) : r[i + 1] = s[i]
  OBVIOUS
<1> HIDE DEF r
<1>2. ASSUME NEW i \in 1..Len(r), i # 1
      PROVE  i - 1 \in 1..Len(s) /\ r[i] = s[i - 1]
  BY <1>1, <1>2
<1>3. ToSet(r) = ToSet(s) \cup {e}
  <2>1. DOMAIN r = 1..Len(r) /\ DOMAIN s = 1..Len(s)
    BY <1>1
  <2>2. ASSUME NEW i \in 1..Len(r)
        PROVE  r[i] \in ToSet(s) \cup {e}
    <3>1. CASE i = 1
      BY <1>1, <3>1
    <3>2. CASE i # 1
      BY <1>2, <2>1, <3>2 DEF ToSet
    <3> QED BY <3>1, <3>2
  <2>3. e \in ToSet(r)
    BY <1>1, <2>1 DEF ToSet
  <2>4. ASSUME NEW i \in 1..Len(s)
        PROVE  s[i] \in ToSet(r)
    BY <1>1, <2>1 DEF ToSet
  <2> QED BY <2>1, <2>2, <2>3, <2>4 DEF ToSet
<1>4. ASSUME IsInjective(s), e \notin ToSet(s)
      PROVE  IsInjective(r)
  <2>1. DOMAIN r = 1..Len(r) /\ DOMAIN s = 1..Len(s)
    BY <1>1
  <2> SUFFICES ASSUME NEW a \in 1..Len(r), NEW b \in 1..Len(r), r[a] = r[b]
               PROVE  a = b
    BY <2>1 DEF IsInjective
  <2>2. \A i \in 1..Len(s) : s[i] # e
    BY <1>4, <2>1 DEF ToSet
  <2>3. ASSUME NEW i \in 1..Len(r), i # 1
        PROVE  r[i] # r[1]
    BY <1>1, <1>2, <2>2, <2>3
  <2>4. CASE a # 1 /\ b # 1
    <3>1. a - 1 \in DOMAIN s /\ b - 1 \in DOMAIN s /\ s[a - 1] = s[b - 1]
      BY <1>2, <2>1, <2>4
    <3>2. a - 1 = b - 1
      BY <1>4, <3>1 DEF IsInjective
    <3> QED BY <3>2
  <2> QED BY <1>1, <2>3, <2>4
<1> QED BY <1>1, <1>3, <1>4 DEF r

\* Two sequences, one after the other.
LEMMA Joined ==
  ASSUME NEW S, NEW u \in Seq(S), NEW v \in Seq(S)
  PROVE  /\ u \o v \in Seq(S) /\ Len(u \o v) = Len(u) + Len(v)
         /\ \A i \in 1..Len(u \o v) : (u \o v)[i] = IF i <= Len(u) THEN u[i] ELSE v[i - Len(u)]
  OBVIOUS

\* The removal of an element closes the gap it leaves.
LEMMA RemovePlace ==
  ASSUME NEW S, NEW s \in Seq(S), NEW k \in 1..Len(s)
  PROVE  /\ RemoveAt(s, k) \in Seq(S)
         /\ Len(RemoveAt(s, k)) = Len(s) - 1
         /\ \A i \in 1..(Len(s) - 1) :
              RemoveAt(s, k)[i] = IF i < k THEN s[i] ELSE s[i + 1]
<1> DEFINE r == RemoveAt(s, k)
           u == SubSeq(s, 1, k - 1)
           v == SubSeq(s, k + 1, Len(s))
<1>1. u \in Seq(S) /\ Len(u) = k - 1 /\ \A i \in 1..(k - 1) : u[i] = s[i]
  OBVIOUS
<1>2. v \in Seq(S) /\ Len(v) = Len(s) - k /\ \A i \in 1..(Len(s) - k) : v[i] = s[i + k]
  OBVIOUS
<1>3. r = u \o v
  BY DEF RemoveAt
<1> HIDE DEF r, u, v
<1>4. /\ r \in Seq(S) /\ Len(r) = Len(u) + Len(v)
      /\ \A i \in 1..Len(r) : r[i] = IF i <= Len(u) THEN u[i] ELSE v[i - Len(u)]
  <2> DEFINE w == u \o v
  <2>1. u \in Seq(S) /\ v \in Seq(S)
    BY <1>1, <1>2
  <2>2. /\ w \in Seq(S) /\ Len(w) = Len(u) + Len(v)
        /\ \A i \in 1..Len(w) : w[i] = IF i <= Len(u) THEN u[i] ELSE v[i - Len(u)]
    BY <2>1, Joined
  <2>3. r = w
    BY <1>3
  <2> HIDE DEF w
  <2> QED BY <2>2, <2>3
<1>5. Len(r) = Len(s) - 1
  BY <1>1, <1>2, <1>4
<1>6. ASSUME NEW i \in 1..Len(r)
      PROVE  r[i] = IF i < k THEN s[i] ELSE s[i + 1]
  <2>1. CASE i < k
    <3>1. i \in 1..(k - 1) /\ i <= Len(u)
      BY <1>1, <1>4, <2>1
    <3>2. r[i] = u[i]
      BY <1>4, <3>1
    <3> QED BY <1>1, <2>1, <3>1, <3>2
  <2>2. CASE i >= k
    <3>1. i - (k - 1) \in 1..(Len(s) - k) /\ (i - (k - 1)) + k = i + 1
      BY <1>1, <1>2, <1>4, <2>2
    <3>2. v[i - (k - 1)] = s[i + 1]
      BY <1>2, <3>1
    <3>3. ~(i <= Len(u))
      BY <1>1, <2>2
    <3>4. r[i] = v[i - Len(u)]
      BY <1>4, <3>3
    <3> QED BY <1>1, <2>2, <3>2, <3>4
  <2> QED BY <2>1, <2>2
<1> QED BY <1>4, <1>5, <1>6 DEF r

LEMMA RemoveGap ==
  ASSUME NEW S, NEW s \in Seq(S), IsInjective(s), NEW k \in 1..Len(s)
  PROVE  /\ RemoveFirst(s, s[k]) \in Seq(S)
         /\ Len(RemoveFirst(s, s[k])) = Len(s) - 1
         /\ \A i \in 1..(Len(s) - 1) :
              RemoveFirst(s, s[k])[i] = IF i < k THEN s[i] ELSE s[i + 1]
<1>1. {i \in 1..Len(s) : s[i] = s[k]} = {k}
  BY DEF IsInjective
<1>2. Min({k}) = k
  BY DEF Min
<1>3. RemoveFirst(s, s[k]) = RemoveAt(s, k)
  BY <1>1, <1>2 DEF RemoveFirst, SelectInSeq
<1> QED BY <1>3, RemovePlace

\* What the removal of an element leaves.
LEMMA RemoveOne ==
  ASSUME NEW S, NEW s \in Seq(S), NEW e, IsInjective(s)
  PROVE  /\ RemoveFirst(s, e) \in Seq(S)
         /\ ToSet(RemoveFirst(s, e)) = ToSet(s) \ {e}
         /\ IsInjective(RemoveFirst(s, e))
<1>0. DOMAIN s = 1..Len(s)
  OBVIOUS
<1>1. CASE ~ \E i \in 1..Len(s) : s[i] = e
  BY <1>0, <1>1 DEF RemoveFirst, ToSet
<1>2. CASE \E i \in 1..Len(s) : s[i] = e
  <2>1. PICK k \in 1..Len(s) : s[k] = e
    BY <1>2
  <2> DEFINE r == RemoveFirst(s, e)
  <2>5. /\ r \in Seq(S) /\ Len(r) = Len(s) - 1
        /\ \A i \in 1..Len(r) : r[i] = IF i < k THEN s[i] ELSE s[i + 1]
    BY <2>1, RemoveGap
  <2> HIDE DEF r
  <2>6. DOMAIN r = 1..Len(r)
    BY <2>5
  <2>7. ToSet(r) = ToSet(s) \ {e}
    <3>1. ASSUME NEW i \in 1..Len(r)
          PROVE  r[i] \in ToSet(s) \ {e}
      <4>1. (r[i] = s[i] /\ i # k) \/ (r[i] = s[i + 1] /\ i + 1 # k)
        BY <2>5
      <4>2. i \in 1..Len(s) /\ i + 1 \in 1..Len(s)
        BY <2>5
      <4> QED BY <1>0, <2>1, <4>1, <4>2 DEF IsInjective, ToSet
    <3>2. ASSUME NEW j \in 1..Len(s), s[j] # e
          PROVE  s[j] \in ToSet(r)
      <4>1. CASE j < k
        <5>1. j \in 1..Len(r) /\ r[j] = s[j]
          BY <2>5, <4>1
        <5> QED BY <2>6, <5>1 DEF ToSet
      <4>2. CASE j > k
        <5>1. j - 1 \in 1..Len(r) /\ r[j - 1] = s[j]
          BY <2>5, <4>2
        <5> QED BY <2>6, <5>1 DEF ToSet
      <4> QED BY <2>1, <3>2, <4>1, <4>2
    <3> QED BY <1>0, <2>6, <3>1, <3>2 DEF ToSet
  <2>8. IsInjective(r)
    <3> SUFFICES ASSUME NEW a \in 1..Len(r), NEW b \in 1..Len(r), r[a] = r[b]
                 PROVE  a = b
      BY <2>6 DEF IsInjective
    <3> DEFINE at(i) == IF i < k THEN i ELSE i + 1
    <3>1. /\ at(a) \in 1..Len(s) /\ at(b) \in 1..Len(s)
          /\ r[a] = s[at(a)] /\ r[b] = s[at(b)]
      BY <2>5
    <3>2. at(a) = at(b)
      BY <1>0, <3>1 DEF IsInjective
    <3> QED BY <3>2
  <2> QED BY <2>5, <2>7, <2>8 DEF r
<1> QED BY <1>1, <1>2

\* What a new last element changes.
LEMMA PutBack ==
  ASSUME NEW S, NEW s \in Seq(S), NEW e \in S
  PROVE  /\ Append(s, e) \in Seq(S) /\ Len(Append(s, e)) = Len(s) + 1
         /\ ToSet(Append(s, e)) = ToSet(s) \cup {e}
         /\ IsInjective(s) /\ e \notin ToSet(s) => IsInjective(Append(s, e))
<1> DEFINE r == Append(s, e)
<1>1. /\ r \in Seq(S) /\ Len(r) = Len(s) + 1
      /\ r[Len(s) + 1] = e /\ \A i \in 1..Len(s) : r[i] = s[i]
  OBVIOUS
<1>2. DOMAIN r = 1..(Len(s) + 1) /\ DOMAIN s = 1..Len(s)
  BY <1>1
<1> HIDE DEF r
<1>3. ToSet(r) = ToSet(s) \cup {e}
  BY <1>1, <1>2 DEF ToSet
<1>4. ASSUME IsInjective(s), e \notin ToSet(s)
      PROVE  IsInjective(r)
  BY <1>1, <1>2, <1>4 DEF IsInjective, ToSet
<1> QED BY <1>1, <1>3, <1>4 DEF r

\* What is not there is not removed.
LEMMA RemoveNone ==
  ASSUME NEW S, NEW s \in Seq(S), NEW e, e \notin ToSet(s)
  PROVE  RemoveFirst(s, e) = s
<1>1. DOMAIN s = 1..Len(s)
  OBVIOUS
<1> QED BY <1>1 DEF RemoveFirst, ToSet

-----------------------------------------------------------------------------
(* Order                                                                   *)

\* a comes before b.
Before(list, a, b) == \E i, j \in DOMAIN list : i < j /\ list[i] = a /\ list[j] = b

\* Where an object is in a list, 0 if nowhere.
Place(list, o) == SelectInSeq(list, LAMBDA p : p = o)

LEMMA PlaceFound ==
  ASSUME NEW S, NEW s \in Seq(S), IsInjective(s), NEW k \in 1..Len(s)
  PROVE  Place(s, s[k]) = k
<1>1. {i \in 1..Len(s) : s[i] = s[k]} = {k}
  BY DEF IsInjective
<1>2. Min({k}) = k
  BY DEF Min
<1> QED BY <1>1, <1>2 DEF Place, SelectInSeq

LEMMA PlaceNowhere ==
  ASSUME NEW S, NEW s \in Seq(S), NEW e, e \notin ToSet(s)
  PROVE  Place(s, e) = 0
<1>1. DOMAIN s = 1..Len(s)
  OBVIOUS
<1>2. {i \in 1..Len(s) : s[i] = e} = {}
  BY <1>1 DEF ToSet
<1> QED BY <1>2 DEF Place, SelectInSeq

\* What is left after a removal keeps its order.
LEMMA OrderKept ==
  ASSUME NEW S, NEW s \in Seq(S), NEW e, IsInjective(s), NEW a, NEW b,
         Before(RemoveFirst(s, e), a, b)
  PROVE  Before(s, a, b)
<1>1. DOMAIN s = 1..Len(s)
  OBVIOUS
<1>2. CASE e \notin ToSet(s)
  BY <1>2, RemoveNone
<1>3. CASE e \in ToSet(s)
  <2>1. PICK k \in 1..Len(s) : s[k] = e
    BY <1>1, <1>3 DEF ToSet
  <2> DEFINE r == RemoveFirst(s, e)
             at(i) == IF i < k THEN i ELSE i + 1
  <2>2. /\ r \in Seq(S) /\ Len(r) = Len(s) - 1
        /\ \A i \in 1..(Len(s) - 1) : r[i] = IF i < k THEN s[i] ELSE s[i + 1]
    BY <2>1, RemoveGap
  <2> HIDE DEF r
  <2>3. DOMAIN r = 1..(Len(s) - 1)
    BY <2>2
  <2>4. PICK i \in 1..(Len(s) - 1), j \in 1..(Len(s) - 1) : i < j /\ r[i] = a /\ r[j] = b
    BY <2>3 DEF Before, r
  <2>5. at(i) \in 1..Len(s) /\ at(j) \in 1..Len(s) /\ at(i) < at(j)
    BY <2>4
  <2>6. s[at(i)] = a /\ s[at(j)] = b
    BY <2>2, <2>4
  <2> HIDE DEF at
  <2> QED BY <1>1, <2>5, <2>6 DEF Before
<1> QED BY <1>2, <1>3

\* Only the new element comes after others it did not come after.
LEMMA OrderGrows ==
  ASSUME NEW S, NEW s \in Seq(S), NEW e \in S, NEW a, NEW b, b # e,
         Before(Append(s, e), a, b)
  PROVE  Before(s, a, b)
<1> DEFINE r == Append(s, e)
<1>1. /\ Len(r) = Len(s) + 1 /\ DOMAIN r = 1..(Len(s) + 1) /\ DOMAIN s = 1..Len(s)
      /\ r[Len(s) + 1] = e /\ \A i \in 1..Len(s) : r[i] = s[i]
  OBVIOUS
<1> HIDE DEF r
<1>2. PICK i \in 1..(Len(s) + 1), j \in 1..(Len(s) + 1) : i < j /\ r[i] = a /\ r[j] = b
  BY <1>1 DEF Before, r
<1>3. j # Len(s) + 1
  BY <1>1, <1>2
<1>4. i \in 1..Len(s) /\ j \in 1..Len(s)
  BY <1>2, <1>3
<1> QED BY <1>1, <1>2, <1>4 DEF Before

===================================================================================
