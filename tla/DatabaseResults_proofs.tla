------------------------- MODULE DatabaseResults_proofs -------------------------
(* A dbresult and its result are found by their pointer: what matters of the   *)
(* results in front, and of the dbresults in the order they were made, are two   *)
(* sequences of pointers.                                                    *)
EXTENDS DatabaseResults, SequenceFacts, FiniteSetTheorems

\* The pointers of results, and of dbresults.
PointersOf(rs) == [i \in 1..Len(rs) |-> rs[i].mysql_result]
PointersFor(hs, ptr) == [k \in 1..Len(hs) |-> ptr[hs[k]]]

Pointer == Pointers \union {NULL}

\* Only NULL is there more than once.
Unique(s) == \A i, j \in 1..Len(s) : s[i] = s[j] /\ s[i] # NULL => i = j

\* Results (f) and dbresults (g): as many, with the same pointers, and, those without rows
\* left aside, the results the other way round; none is farther back than
\* the dbresults made since its query say.
Aligned(f, g) ==
  /\ f \in Seq(Pointer) /\ g \in Seq(Pointer) /\ Len(f) = Len(g)
  /\ Unique(f) /\ Unique(g)
  /\ \A i \in 1..Len(g) : f[i] # NULL => \E k \in 1..Len(g) : g[k] = f[i]
  /\ \A k \in 1..Len(g) : g[k] # NULL => \E i \in 1..Len(g) : f[i] = g[k]
  /\ \A i, j, k, l \in 1..Len(g) :
       f[i] = g[k] /\ f[j] = g[l] /\ f[i] # NULL /\ f[j] # NULL /\ i < j => l < k
  /\ \A i, k \in 1..Len(g) : f[i] = g[k] /\ f[i] # NULL => i <= Len(g) - k + 1

\* s without its place k.
Gap(s, k, r) ==
  /\ r \in Seq(Pointer) /\ Len(r) = Len(s) - 1
  /\ \A i \in 1..(Len(s) - 1) : r[i] = IF i < k THEN s[i] ELSE s[i + 1]

IInv ==
  /\ TypeOK
  /\ IsInjective(made)
  /\ ToSet(made) = Held(scripts, delayed)
  /\ Aligned(PointersOf(mysql_server_results), PointersFor(made, mysql_result))

-----------------------------------------------------------------------------
(* Two sequences of pointers                                               *)

\* When the first results all have rows, there are no more of them than of their
\* dbresults.
LEMMA NoMoreThan ==
  ASSUME NEW f \in Seq(Pointer), NEW g \in Seq(Pointer), Unique(f),
         NEW n \in 0..Len(f), NEW T \in SUBSET (1..Len(g)),
         \A i \in 1..n : f[i] # NULL /\ \E k \in T : g[k] = f[i]
  PROVE  n <= Cardinality(T)
<1> DEFINE F == [i \in 1..n |-> CHOOSE k \in T : g[k] = f[i]]
<1>1. \A i \in 1..n : F[i] \in T /\ g[F[i]] = f[i]
  OBVIOUS
<1>2. F \in Injection(1..n, T)
  <2>1. F \in [1..n -> T]
    BY <1>1
  <2>2. ASSUME NEW i \in 1..n, NEW j \in 1..n, F[i] = F[j]
        PROVE  i = j
    <3>1. f[i] = f[j] /\ f[i] # NULL
      BY <1>1, <2>2
    <3> QED BY <3>1 DEF Unique
  <2> HIDE DEF F
  <2> QED BY <2>1, <2>2 DEF Injection, IsInjective
<1>3. IsFiniteSet(T)
  <2>1. IsFiniteSet(1..Len(g))
    BY FS_Interval
  <2> QED BY <2>1, FS_Subset
<1>4. IsFiniteSet(1..n) /\ Cardinality(1..n) = n
  BY FS_Interval
<1> QED BY <1>2, <1>3, <1>4, FS_Injection

\* A query: its result is in front, its dbresult the newest.
LEMMA AlignedPushed ==
  ASSUME NEW f, NEW g, Aligned(f, g), NEW p \in Pointer,
         p # NULL => \A i \in 1..Len(f) : f[i] # p
  PROVE  Aligned(<<p>> \o f, Append(g, p))
<1> DEFINE n == Len(g)
           r == <<p>> \o f
           q == Append(g, p)
<1>1. /\ f \in Seq(Pointer) /\ g \in Seq(Pointer) /\ Len(f) = n /\ n \in Nat
      /\ r \in Seq(Pointer) /\ q \in Seq(Pointer) /\ Len(r) = n + 1 /\ Len(q) = n + 1
      /\ r[1] = p /\ \A i \in 1..n : r[i + 1] = f[i]
      /\ q[n + 1] = p /\ \A k \in 1..n : q[k] = g[k]
  BY DEF Aligned
<1>2. /\ \A i, j \in 1..n : f[i] = f[j] /\ f[i] # NULL => i = j
      /\ \A i, j \in 1..n : g[i] = g[j] /\ g[i] # NULL => i = j
  BY <1>1 DEF Aligned, Unique
<1>3. \A i \in 1..n : f[i] # NULL => \E k \in 1..n : g[k] = f[i]
  BY DEF Aligned
<1>4. \A k \in 1..n : g[k] # NULL => \E i \in 1..n : f[i] = g[k]
  BY DEF Aligned
<1>5. \A i, j, k, l \in 1..n :
        f[i] = g[k] /\ f[j] = g[l] /\ f[i] # NULL /\ f[j] # NULL /\ i < j => l < k
  BY DEF Aligned
<1>6. \A i, k \in 1..n : f[i] = g[k] /\ f[i] # NULL => i <= n - k + 1
  BY DEF Aligned
<1> HIDE DEF r, q, n
<1>7. ASSUME NEW i \in 1..(n + 1)
      PROVE  \/ i = 1 /\ r[i] = p
             \/ i # 1 /\ i - 1 \in 1..n /\ r[i] = f[i - 1]
  <2>1. CASE i = 1
    BY <1>1, <2>1
  <2>2. CASE i # 1
    <3>1. i - 1 \in 1..n /\ (i - 1) + 1 = i
      BY <1>1, <2>2
    <3> QED BY <1>1, <2>2, <3>1
  <2> QED BY <2>1, <2>2
<1>8. ASSUME NEW k \in 1..(n + 1)
      PROVE  \/ k = n + 1 /\ q[k] = p
             \/ k \in 1..n /\ q[k] = g[k]
  BY <1>1
<1>9. /\ \A i \in 1..n : f[i] # NULL => f[i] # p
      /\ \A k \in 1..n : g[k] # NULL => g[k] # p
  <2>1. \A i \in 1..n : p # NULL => f[i] # p
    BY <1>1
  <2> QED BY <1>4, <2>1
<1>10. Unique(r)
  <2> SUFFICES ASSUME NEW i \in 1..(n + 1), NEW j \in 1..(n + 1), r[i] = r[j], r[i] # NULL
               PROVE  i = j
    BY <1>1 DEF Unique
  <2>1. CASE i # 1 /\ j # 1
    <3>1. i - 1 \in 1..n /\ j - 1 \in 1..n /\ f[i - 1] = f[j - 1] /\ f[i - 1] # NULL
      BY <1>7, <2>1
    <3>2. i - 1 = j - 1
      BY <1>2, <3>1
    <3> QED BY <3>2
  <2> QED BY <1>7, <1>9, <2>1
<1>11. Unique(q)
  <2> SUFFICES ASSUME NEW i \in 1..(n + 1), NEW j \in 1..(n + 1), q[i] = q[j], q[i] # NULL
               PROVE  i = j
    BY <1>1 DEF Unique
  <2>1. CASE i \in 1..n /\ j \in 1..n
    BY <1>2, <1>1, <2>1
  <2> QED BY <1>8, <1>9, <2>1
<1>12. ASSUME NEW i \in 1..(n + 1), r[i] # NULL
      PROVE  \E k \in 1..(n + 1) : q[k] = r[i]
  <2>1. CASE i = 1
    BY <1>1, <2>1
  <2>2. CASE i # 1
    <3>1. PICK k \in 1..n : g[k] = f[i - 1]
      BY <1>7, <1>12, <1>3, <2>2
    <3> QED BY <1>1, <1>7, <2>2, <3>1
  <2> QED BY <2>1, <2>2
<1>13. ASSUME NEW k \in 1..(n + 1), q[k] # NULL
      PROVE  \E i \in 1..(n + 1) : r[i] = q[k]
  <2>1. CASE k = n + 1
    BY <1>1, <2>1
  <2>2. CASE k \in 1..n
    <3>1. PICK i \in 1..n : f[i] = g[k]
      BY <1>1, <1>13, <1>4, <2>2
    <3>2. i + 1 \in 1..(n + 1) /\ r[i + 1] = f[i]
      BY <1>1
    <3> QED BY <1>1, <2>2, <3>1, <3>2
  <2> QED BY <1>8, <2>1, <2>2
\* A match of the new sequences is the new pointer's, or one of the old.
<1>14. ASSUME NEW i \in 1..(n + 1), NEW k \in 1..(n + 1), r[i] = q[k], r[i] # NULL
      PROVE  \/ i = 1 /\ k = n + 1
             \/ /\ i - 1 \in 1..n /\ k \in 1..n
                /\ r[i] = f[i - 1] /\ f[i - 1] = g[k] /\ f[i - 1] # NULL
  <2>1. CASE k = n + 1 /\ q[k] = p
    <3>1. ~(i - 1 \in 1..n /\ r[i] = f[i - 1])
      BY <1>9, <1>14, <2>1
    <3> QED BY <1>7, <2>1, <3>1
  <2>2. CASE k \in 1..n /\ q[k] = g[k]
    <3>1. r[i] # p
      BY <1>9, <1>14, <2>2
    <3>2. i - 1 \in 1..n /\ r[i] = f[i - 1]
      BY <1>7, <3>1
    <3> QED BY <1>14, <2>2, <3>2
  <2> QED BY <1>8, <2>1, <2>2
<1>15. ASSUME NEW i \in 1..(n + 1), NEW j \in 1..(n + 1),
              NEW k \in 1..(n + 1), NEW l \in 1..(n + 1),
              r[i] = q[k], r[j] = q[l], r[i] # NULL, r[j] # NULL, i < j
       PROVE  l < k
  <2>1. j # 1
    BY <1>15
  <2>2. /\ j - 1 \in 1..n /\ l \in 1..n /\ f[j - 1] = g[l] /\ f[j - 1] # NULL
    BY <1>14, <1>15, <2>1
  <2>3. CASE i = 1 /\ k = n + 1
    BY <1>1, <2>2, <2>3
  <2>4. CASE i - 1 \in 1..n /\ k \in 1..n /\ f[i - 1] = g[k] /\ f[i - 1] # NULL
    <3>1. i - 1 < j - 1
      BY <1>15
    <3> QED BY <1>5, <2>2, <2>4, <3>1
  <2> QED BY <1>14, <1>15, <2>3, <2>4
<1>16. ASSUME NEW i \in 1..(n + 1), NEW k \in 1..(n + 1), r[i] = q[k], r[i] # NULL
       PROVE  i <= (n + 1) - k + 1
  <2>1. CASE i = 1 /\ k = n + 1
    BY <1>1, <2>1
  <2>2. CASE i - 1 \in 1..n /\ k \in 1..n /\ f[i - 1] = g[k] /\ f[i - 1] # NULL
    <3>1. i - 1 <= n - k + 1
      BY <1>6, <2>2
    <3> QED BY <1>1, <3>1
  <2> QED BY <1>14, <1>16, <2>1, <2>2
<1>17. Aligned(r, q)
  BY <1>1, <1>10, <1>11, <1>12, <1>13, <1>15, <1>16 DEF Aligned
<1> QED BY <1>17 DEF r, q

\* The last copy of a dbresult goes: the first result with its pointer is there, and is
\* taken out.
LEMMA AlignedGone ==
  ASSUME NEW f, NEW g, Aligned(f, g), NEW m \in 1..Len(g)
  PROVE  \E i \in 1..Len(f) : f[i] = g[m]
<1> DEFINE n == Len(g)
<1>1. /\ f \in Seq(Pointer) /\ g \in Seq(Pointer) /\ Len(f) = n /\ n \in Nat
      /\ Unique(f) /\ Unique(g)
  BY DEF Aligned
<1>2. CASE g[m] # NULL
  BY <1>2 DEF Aligned
<1>3. CASE g[m] = NULL
  <2> SUFFICES ASSUME \A i \in 1..n : f[i] # NULL
               PROVE  FALSE
    BY <1>1, <1>3
  <2> DEFINE T == (1..n) \ {m}
  <2>1. ASSUME NEW i \in 1..n
        PROVE  f[i] # NULL /\ \E k \in T : g[k] = f[i]
    <3>1. PICK k \in 1..n : g[k] = f[i]
      BY <1>1 DEF Aligned
    <3> QED BY <1>3, <3>1
  <2>2. n <= Cardinality(T)
    <3> DEFINE b == n
    <3>1. T \in SUBSET (1..Len(g))
      OBVIOUS
    <3>2. b \in 0..Len(f) /\ \A i \in 1..b : f[i] # NULL /\ \E k \in T : g[k] = f[i]
      BY <1>1, <2>1
    <3> HIDE DEF b, T
    <3>3. b <= Cardinality(T)
      BY <1>1, <3>1, <3>2, NoMoreThan
    <3> QED BY <3>3 DEF b
  <2>3. Cardinality(T) = n - 1
    <3>1. n \in Nat /\ m \in 1..n
      BY <1>1
    <3> HIDE DEF n
    <3>2. IsFiniteSet(1..n) /\ Cardinality(1..n) = n
      BY <3>1, FS_Interval
    <3> QED BY <3>1, <3>2, FS_RemoveElement
  <2> QED BY <1>1, <2>2, <2>3
<1> QED BY <1>2, <1>3

LEMMA AlignedAfter ==
  ASSUME NEW f, NEW g, Aligned(f, g), NEW m \in 1..Len(g), NEW a \in 1..Len(f),
         f[a] = g[m], \A i \in 1..Len(f) : f[i] = f[a] => a <= i,
         NEW r, NEW q, Gap(f, a, r), Gap(g, m, q)
  PROVE  Aligned(r, q)
<1> DEFINE n == Len(g)
           at(i) == IF i < a THEN i ELSE i + 1
           am(k) == IF k < m THEN k ELSE k + 1
<1>1. /\ f \in Seq(Pointer) /\ g \in Seq(Pointer) /\ Len(f) = n /\ n \in Nat
      /\ r \in Seq(Pointer) /\ q \in Seq(Pointer) /\ Len(r) = n - 1 /\ Len(q) = n - 1
      /\ a \in 1..n /\ m \in 1..n
  BY DEF Aligned, Gap
<1>2. /\ \A i, j \in 1..n : f[i] = f[j] /\ f[i] # NULL => i = j
      /\ \A i, j \in 1..n : g[i] = g[j] /\ g[i] # NULL => i = j
  BY <1>1 DEF Aligned, Unique
<1>3. /\ \A i \in 1..n : f[i] # NULL => \E k \in 1..n : g[k] = f[i]
      /\ \A k \in 1..n : g[k] # NULL => \E i \in 1..n : f[i] = g[k]
  BY DEF Aligned
<1>4. \A i, j, k, l \in 1..n :
        f[i] = g[k] /\ f[j] = g[l] /\ f[i] # NULL /\ f[j] # NULL /\ i < j => l < k
  BY DEF Aligned
<1>5. \A i, k \in 1..n : f[i] = g[k] /\ f[i] # NULL => i <= n - k + 1
  BY DEF Aligned
<1>6. ASSUME NEW i \in 1..(n - 1)
      PROVE  at(i) \in 1..n /\ at(i) # a /\ r[i] = f[at(i)]
  BY <1>1 DEF Gap
<1>7. ASSUME NEW k \in 1..(n - 1)
      PROVE  am(k) \in 1..n /\ am(k) # m /\ q[k] = g[am(k)]
  BY <1>1 DEF Gap
<1>8. ASSUME NEW i \in 1..(n - 1), NEW j \in 1..(n - 1)
      PROVE  (at(i) = at(j) => i = j) /\ (i < j => at(i) < at(j))
             /\ (am(i) = am(j) => i = j) /\ (am(i) < am(j) => i < j)
  BY <1>1
<1>9. \A i \in 1..n : i # a => \E j \in 1..(n - 1) : at(j) = i
  <2> SUFFICES ASSUME NEW i \in 1..n, i # a
               PROVE  \E j \in 1..(n - 1) : at(j) = i
    OBVIOUS
  <2>1. CASE i < a
    <3>1. i \in 1..(n - 1) /\ at(i) = i
      BY <1>1, <2>1
    <3> QED BY <3>1
  <2>2. CASE i > a
    <3>1. i - 1 \in 1..(n - 1) /\ at(i - 1) = i
      BY <1>1, <2>2
    <3> QED BY <3>1
  <2> QED BY <1>1, <2>1, <2>2
<1>10. \A k \in 1..n : k # m => \E l \in 1..(n - 1) : am(l) = k
  <2> SUFFICES ASSUME NEW k \in 1..n, k # m
               PROVE  \E l \in 1..(n - 1) : am(l) = k
    OBVIOUS
  <2>1. CASE k < m
    <3>1. k \in 1..(n - 1) /\ am(k) = k
      BY <1>1, <2>1
    <3> QED BY <3>1
  <2>2. CASE k > m
    <3>1. k - 1 \in 1..(n - 1) /\ am(k - 1) = k
      BY <1>1, <2>2
    <3> QED BY <3>1
  <2> QED BY <1>1, <2>1, <2>2
\* If the result is taken out behind one with rows and the dbresult was made
\* after that one's, there was one result less in front of it than could be.
<1>11. ASSUME NEW i \in 1..n, NEW k \in 1..n, f[i] = g[k], f[i] # NULL, i < a, k < m
       PROVE  i <= n - k
  <2>1. g[m] = NULL
    <3> SUFFICES ASSUME g[m] # NULL
                 PROVE  FALSE
      OBVIOUS
    <3>1. f[a] # NULL
      OBVIOUS
    <3>2. m < k
      BY <1>1, <1>4, <1>11, <3>1
    <3> QED BY <1>1, <1>11, <3>2
  <2> DEFINE T == ((k + 1)..n) \ {m}
  <2>2. ASSUME NEW j \in 1..(i - 1)
        PROVE  f[j] # NULL /\ \E l \in T : g[l] = f[j]
    <3>1. j \in 1..n /\ j < i /\ j < a
      BY <1>1, <1>11
    <3>2. f[j] # NULL
      <4>1. f[j] # f[a]
        BY <1>1, <3>1
      <4> QED BY <2>1, <4>1
    <3>3. PICK l \in 1..n : g[l] = f[j]
      BY <1>3, <3>1, <3>2
    <3>4. k < l
      BY <1>4, <1>11, <3>1, <3>2, <3>3
    <3>5. l # m
      BY <2>1, <3>2, <3>3
    <3>6. l \in T
      BY <1>1, <3>4, <3>5
    <3> QED BY <3>2, <3>3, <3>6
  <2>3. i - 1 <= Cardinality(T)
    <3>1. i - 1 \in 0..Len(f) /\ T \in SUBSET (1..Len(g)) /\ Unique(f)
      BY <1>1 DEF Aligned
    <3> DEFINE b == i - 1
    <3>2. b \in 0..Len(f) /\ \A j \in 1..b : f[j] # NULL /\ \E l \in T : g[l] = f[j]
      BY <2>2, <3>1
    <3> HIDE DEF b, T
    <3>3. b <= Cardinality(T)
      BY <1>1, <3>1, <3>2, NoMoreThan
    <3> QED BY <3>3 DEF b
  <2>4. Cardinality(T) = n - k - 1
    <3>1. IsFiniteSet((k + 1)..n) /\ Cardinality((k + 1)..n) = n - k
      <4>1. k + 1 \in Int /\ n \in Int /\ k + 1 <= n
        BY <1>1, <1>11
      <4> HIDE DEF n
      <4>2. /\ IsFiniteSet((k + 1)..n)
            /\ Cardinality((k + 1)..n) = IF k + 1 > n THEN 0 ELSE n - (k + 1) + 1
        BY <4>1, FS_Interval
      <4> QED BY <4>1, <4>2
    <3>2. m \in (k + 1)..n
      BY <1>1, <1>11
    <3>3. Cardinality(T) = Cardinality((k + 1)..n) - 1
      BY <3>1, <3>2, FS_RemoveElement
    <3> QED BY <1>1, <3>1, <3>3
  <2> QED BY <1>1, <2>3, <2>4
<1> HIDE DEF n, at, am
<1>12. Unique(r) /\ Unique(q)
  <2>1. ASSUME NEW i \in 1..(n - 1), NEW j \in 1..(n - 1), r[i] = r[j], r[i] # NULL
        PROVE  i = j
    BY <1>2, <1>6, <1>8, <2>1
  <2>2. ASSUME NEW i \in 1..(n - 1), NEW j \in 1..(n - 1), q[i] = q[j], q[i] # NULL
        PROVE  i = j
    BY <1>2, <1>7, <1>8, <2>2
  <2> QED BY <1>1, <2>1, <2>2 DEF Unique
<1>13. ASSUME NEW i \in 1..(n - 1), r[i] # NULL
       PROVE  \E k \in 1..(n - 1) : q[k] = r[i]
  <2>1. PICK k \in 1..n : g[k] = f[at(i)]
    BY <1>3, <1>6, <1>13
  <2>2. k # m
    <3>1. k = m => f[at(i)] = f[a] /\ f[a] # NULL
      BY <1>6, <1>13, <2>1
    <3> QED BY <1>1, <1>2, <1>6, <3>1
  <2>3. PICK l \in 1..(n - 1) : am(l) = k
    BY <1>10, <2>2
  <2> QED BY <1>6, <1>7, <2>1, <2>3
<1>14. ASSUME NEW k \in 1..(n - 1), q[k] # NULL
       PROVE  \E i \in 1..(n - 1) : r[i] = q[k]
  <2>1. PICK i \in 1..n : f[i] = g[am(k)]
    BY <1>3, <1>7, <1>14
  <2>2. i # a
    <3>1. i = a => g[am(k)] = g[m] /\ g[m] # NULL
      BY <1>7, <1>14, <2>1
    <3> QED BY <1>1, <1>2, <1>7, <3>1
  <2>3. PICK j \in 1..(n - 1) : at(j) = i
    BY <1>9, <2>2
  <2> QED BY <1>6, <1>7, <2>1, <2>3
<1>15. ASSUME NEW i \in 1..(n - 1), NEW j \in 1..(n - 1),
              NEW k \in 1..(n - 1), NEW l \in 1..(n - 1),
              r[i] = q[k], r[j] = q[l], r[i] # NULL, r[j] # NULL, i < j
       PROVE  l < k
  <2>1. at(i) < at(j)
    BY <1>8, <1>15
  <2>2. /\ f[at(i)] = g[am(k)] /\ f[at(j)] = g[am(l)]
        /\ f[at(i)] # NULL /\ f[at(j)] # NULL
    BY <1>6, <1>7, <1>15
  <2>3. am(l) < am(k)
    BY <1>4, <1>6, <1>7, <2>1, <2>2
  <2> QED BY <1>8, <2>3
<1>16. ASSUME NEW i \in 1..(n - 1), NEW k \in 1..(n - 1), r[i] = q[k], r[i] # NULL
       PROVE  i <= (n - 1) - k + 1
  <2>1. f[at(i)] = g[am(k)] /\ f[at(i)] # NULL /\ at(i) \in 1..n /\ am(k) \in 1..n
    BY <1>6, <1>7, <1>16
  <2>2. at(i) <= n - am(k) + 1
    BY <1>5, <2>1
  <2>3. CASE at(i) < a /\ am(k) < m
    <3>1. at(i) <= n - am(k)
      BY <1>11, <2>1, <2>3
    <3>2. at(i) = i /\ am(k) = k
      BY <1>1, <2>3 DEF at, am
    <3> QED BY <1>1, <3>1, <3>2
  <2>4. CASE ~(at(i) < a) \/ ~(am(k) < m)
    BY <1>1, <2>2, <2>4 DEF at, am
  <2> QED BY <2>3, <2>4
<1> QED BY <1>1, <1>12, <1>13, <1>14, <1>15, <1>16 DEF Aligned

LEMMA Complement ==
  ASSUME NEW S, IsFiniteSet(S), NEW T \in SUBSET S
  PROVE  Cardinality(T) = Cardinality(S) - Cardinality(S \ T)
<1>1. S \cap T = T
  OBVIOUS
<1>2. Cardinality(S \ T) = Cardinality(S) - Cardinality(T)
  BY <1>1, FS_Difference
<1>3. IsFiniteSet(T) /\ Cardinality(T) \in Nat /\ Cardinality(S) \in Nat
  BY FS_Subset, FS_CardinalityType
<1> QED BY <1>2, <1>3

\* There are as many results with a pointer as dbresults.
LEMMA AlignedCounts ==
  ASSUME NEW f, NEW g, Aligned(f, g), NEW p \in Pointer
  PROVE  Cardinality({i \in 1..Len(f) : f[i] = p}) = Cardinality({k \in 1..Len(g) : g[k] = p})
<1> DEFINE n == Len(g)
           A(x) == {i \in 1..n : f[i] = x}
           B(x) == {k \in 1..n : g[k] = x}
<1>1. /\ f \in Seq(Pointer) /\ g \in Seq(Pointer) /\ Len(f) = n /\ n \in Nat
      /\ IsFiniteSet(1..n)
  BY FS_Interval DEF Aligned
<1>2. /\ \A i, j \in 1..n : f[i] = f[j] /\ f[i] # NULL => i = j
      /\ \A i, j \in 1..n : g[i] = g[j] /\ g[i] # NULL => i = j
  BY <1>1 DEF Aligned, Unique
<1>3. /\ \A i \in 1..n : f[i] # NULL => \E k \in 1..n : g[k] = f[i]
      /\ \A k \in 1..n : g[k] # NULL => \E i \in 1..n : f[i] = g[k]
  BY DEF Aligned
<1> SUFFICES Cardinality(A(p)) = Cardinality(B(p))
  BY <1>1
<1> HIDE DEF n
<1>4. CASE p # NULL
  <2>1. CASE A(p) = {}
    <3>1. B(p) = {}
      BY <1>3, <1>4, <2>1
    <3> QED BY <2>1, <3>1
  <2>2. CASE A(p) # {}
    <3>1. PICK i \in 1..n : f[i] = p
      BY <2>2
    <3>2. PICK k \in 1..n : g[k] = p
      BY <1>3, <1>4, <3>1
    <3>3. A(p) = {i} /\ B(p) = {k}
      BY <1>2, <1>4, <3>1, <3>2
    <3> QED BY <3>3, FS_Singleton
  <2> QED BY <2>1, <2>2
<1>5. CASE p = NULL
  <2> DEFINE C == (1..n) \ A(NULL)
             D == (1..n) \ B(NULL)
             F == [i \in C |-> CHOOSE k \in D : g[k] = f[i]]
  <2>1. \A i \in C : \E k \in D : g[k] = f[i]
    BY <1>3
  <2>2. \A i \in C : F[i] \in D /\ g[F[i]] = f[i]
    BY <2>1
  <2>3. F \in Bijection(C, D)
    <3>1. F \in [C -> D]
      BY <2>2
    <3>2. ASSUME NEW i \in C, NEW j \in C, F[i] = F[j]
          PROVE  i = j
      <4>1. f[i] = f[j] /\ f[i] # NULL /\ i \in 1..n /\ j \in 1..n
        BY <2>2, <3>2
      <4> QED BY <1>2, <4>1
    <3>3. ASSUME NEW k \in D
          PROVE  \E i \in C : F[i] = k
      <4>1. PICK i \in 1..n : f[i] = g[k]
        BY <1>3
      <4>2. i \in C
        BY <4>1
      <4>3. g[F[i]] = g[k] /\ F[i] \in 1..n /\ g[k] # NULL
        BY <2>2, <4>1, <4>2
      <4> QED BY <1>2, <4>2, <4>3
    <3> HIDE DEF F, C, D
    <3> QED BY <3>1, <3>2, <3>3 DEF Bijection, Injection, Surjection, IsInjective
  <2>4. Cardinality(C) = Cardinality(D)
    <3>1. IsFiniteSet(C)
      BY <1>1, FS_Subset
    <3> HIDE DEF F, C, D
    <3> QED BY <2>3, <3>1, FS_Bijection DEF ExistsBijection
  <2>5. A(NULL) \in SUBSET (1..n) /\ B(NULL) \in SUBSET (1..n)
    OBVIOUS
  <2> HIDE DEF A, B
  <2> HIDE DEF F
  <2>6. /\ Cardinality(A(NULL)) = Cardinality(1..n) - Cardinality(C)
        /\ Cardinality(B(NULL)) = Cardinality(1..n) - Cardinality(D)
    BY <1>1, <2>5, Complement
  <2> HIDE DEF C, D
  <2> QED BY <1>5, <2>4, <2>6
<1> QED BY <1>4, <1>5

-----------------------------------------------------------------------------
(* The results and the dbresults                                           *)

LEMMA InOne ==
  ASSUME NEW f, NEW x
  PROVE  x \in UNION Range(f) <=> \E i \in DOMAIN f : x \in f[i]
<1>1. \A e : e \in Range(f) <=> \E i \in DOMAIN f : e = f[i]
  BY DEF Range
<1> QED BY <1>1

LEMMA HeldBy ==
  ASSUME NEW ss, NEW ds, NEW x
  PROVE  x \in Held(ss, ds) <=> \/ \E i \in DOMAIN ss : x \in ss[i]
                                \/ \E d \in DOMAIN ds : x \in ds[d]
<1>1. x \in UNION Range(ss) <=> \E i \in DOMAIN ss : x \in ss[i]
  BY InOne
<1>2. x \in UNION Range(ds) <=> \E d \in DOMAIN ds : x \in ds[d]
  BY InOne
<1>3. x \in Held(ss, ds) <=> (x \in UNION Range(ss) \/ x \in UNION Range(ds))
  BY DEF Held
<1> QED BY <1>1, <1>2, <1>3

\* The destructor takes the first result with the pointer.
LEMMA ErasedFirst ==
  ASSUME NEW rs \in Seq(CMySQLRes), NEW p, \E i \in 1..Len(rs) : rs[i].mysql_result = p
  PROVE  \E a \in 1..Len(rs) :
           /\ rs[a].mysql_result = p
           /\ \A i \in 1..Len(rs) : rs[i].mysql_result = p => a <= i
           /\ Erased(rs, p) \in Seq(CMySQLRes) /\ Len(Erased(rs, p)) = Len(rs) - 1
           /\ \A i \in 1..(Len(rs) - 1) :
                Erased(rs, p)[i] = IF i < a THEN rs[i] ELSE rs[i + 1]
<1> DEFINE T == {i \in 1..Len(rs) : rs[i].mysql_result = p}
           a == Min(T)
<1>1. T \subseteq Nat /\ T # {} /\ DOMAIN rs = 1..Len(rs)
  OBVIOUS
<1>2. a \in T /\ \A i \in T : a <= i
  <2> HIDE DEF T
  <2>1. PICK x \in T : \A y \in T : x <= y
    BY <1>1, FirstNatural
  <2> QED BY <2>1 DEF Min
<1>3. Erased(rs, p) = RemoveAt(rs, a)
  BY <1>1 DEF Erased, SelectInSeq
<1> HIDE DEF a
<1>4. a \in 1..Len(rs) /\ rs[a].mysql_result = p
      /\ \A i \in 1..Len(rs) : rs[i].mysql_result = p => a <= i
  BY <1>2
<1>5. /\ RemoveAt(rs, a) \in Seq(CMySQLRes) /\ Len(RemoveAt(rs, a)) = Len(rs) - 1
      /\ \A i \in 1..(Len(rs) - 1) : RemoveAt(rs, a)[i] = IF i < a THEN rs[i] ELSE rs[i + 1]
  BY <1>4, RemovePlace
<1> QED BY <1>3, <1>4, <1>5

LEMMA PointersTyped ==
  /\ \A rs \in Seq(CMySQLRes) :
       /\ PointersOf(rs) \in Seq(Pointer) /\ Len(PointersOf(rs)) = Len(rs)
       /\ \A i \in 1..Len(rs) : PointersOf(rs)[i] = rs[i].mysql_result
  /\ \A hs \in Seq(DbResults), ptr \in [DbResults -> Pointer] :
       /\ PointersFor(hs, ptr) \in Seq(Pointer) /\ Len(PointersFor(hs, ptr)) = Len(hs)
       /\ \A k \in 1..Len(hs) : PointersFor(hs, ptr)[k] = ptr[hs[k]]
<1>1. ASSUME NEW rs \in Seq(CMySQLRes)
      PROVE  PointersOf(rs) \in Seq(Pointer) /\ Len(PointersOf(rs)) = Len(rs)
  <2>1. ASSUME NEW i \in 1..Len(rs)
        PROVE  rs[i].mysql_result \in Pointer
    <3>1. rs[i] \in CMySQLRes
      OBVIOUS
    <3> QED BY <3>1 DEF CMySQLRes, Pointer
  <2> QED BY <2>1 DEF PointersOf
<1>2. ASSUME NEW hs \in Seq(DbResults), NEW ptr \in [DbResults -> Pointer]
      PROVE  PointersFor(hs, ptr) \in Seq(Pointer) /\ Len(PointersFor(hs, ptr)) = Len(hs)
  BY DEF PointersFor
<1> QED BY <1>1, <1>2 DEF PointersOf, PointersFor

\* A result that goes takes its place along.
LEMMA PointersGap ==
  /\ \A rs, ss \in Seq(CMySQLRes), a \in Nat :
       /\ a \in 1..Len(rs) /\ Len(ss) = Len(rs) - 1
       /\ \A i \in 1..(Len(rs) - 1) : ss[i] = IF i < a THEN rs[i] ELSE rs[i + 1]
       => Gap(PointersOf(rs), a, PointersOf(ss))
  /\ \A hs, gs \in Seq(DbResults), ptr \in [DbResults -> Pointer], m \in Nat :
       /\ m \in 1..Len(hs) /\ Len(gs) = Len(hs) - 1
       /\ \A k \in 1..(Len(hs) - 1) : gs[k] = IF k < m THEN hs[k] ELSE hs[k + 1]
       => Gap(PointersFor(hs, ptr), m, PointersFor(gs, ptr))
<1>1. ASSUME NEW rs \in Seq(CMySQLRes), NEW ss \in Seq(CMySQLRes), NEW a \in 1..Len(rs),
             Len(ss) = Len(rs) - 1,
             \A i \in 1..(Len(rs) - 1) : ss[i] = IF i < a THEN rs[i] ELSE rs[i + 1]
      PROVE  Gap(PointersOf(rs), a, PointersOf(ss))
  <2>1. ASSUME NEW i \in 1..(Len(rs) - 1)
        PROVE  PointersOf(ss)[i] = IF i < a THEN PointersOf(rs)[i] ELSE PointersOf(rs)[i + 1]
    <3>1. i \in 1..Len(ss) /\ i \in 1..Len(rs) /\ i + 1 \in 1..Len(rs)
      BY <1>1
    <3>2. /\ PointersOf(ss)[i] = ss[i].mysql_result
          /\ PointersOf(rs)[i] = rs[i].mysql_result
          /\ PointersOf(rs)[i + 1] = rs[i + 1].mysql_result
      BY <3>1, PointersTyped
    <3> QED BY <1>1, <3>2
  <2> QED BY <1>1, <2>1, PointersTyped DEF Gap
<1>2. ASSUME NEW hs \in Seq(DbResults), NEW gs \in Seq(DbResults),
             NEW ptr \in [DbResults -> Pointer], NEW m \in 1..Len(hs),
             Len(gs) = Len(hs) - 1,
             \A k \in 1..(Len(hs) - 1) : gs[k] = IF k < m THEN hs[k] ELSE hs[k + 1]
      PROVE  Gap(PointersFor(hs, ptr), m, PointersFor(gs, ptr))
  <2>1. ASSUME NEW k \in 1..(Len(hs) - 1)
        PROVE  PointersFor(gs, ptr)[k] =
                 IF k < m THEN PointersFor(hs, ptr)[k] ELSE PointersFor(hs, ptr)[k + 1]
    <3>1. k \in 1..Len(gs) /\ k \in 1..Len(hs) /\ k + 1 \in 1..Len(hs)
      BY <1>2
    <3>2. /\ PointersFor(gs, ptr)[k] = ptr[gs[k]]
          /\ PointersFor(hs, ptr)[k] = ptr[hs[k]]
          /\ PointersFor(hs, ptr)[k + 1] = ptr[hs[k + 1]]
      BY <3>1, PointersTyped
    <3> QED BY <1>2, <3>2
  <2> QED BY <1>2, <2>1, PointersTyped DEF Gap
<1> QED BY <1>1, <1>2

\* What follows from IInv of the two sequences of pointers.
LEMMA PointersNow ==
  ASSUME IInv
  PROVE  /\ mysql_server_results \in Seq(CMySQLRes) /\ made \in Seq(DbResults)
         /\ mysql_result \in [DbResults -> Pointer]
         /\ Len(mysql_server_results) = Len(made)
         /\ Len(PointersOf(mysql_server_results)) = Len(made)
         /\ Len(PointersFor(made, mysql_result)) = Len(made)
         /\ \A i \in 1..Len(made) :
              PointersOf(mysql_server_results)[i] = mysql_server_results[i].mysql_result
         /\ \A k \in 1..Len(made) :
              PointersFor(made, mysql_result)[k] = mysql_result[made[k]]
<1>1. /\ mysql_server_results \in Seq(CMySQLRes) /\ made \in Seq(DbResults)
      /\ mysql_result \in [DbResults -> Pointer]
  BY DEF IInv, TypeOK, Pointer
<1>2. /\ Len(PointersOf(mysql_server_results)) = Len(mysql_server_results)
      /\ \A i \in 1..Len(mysql_server_results) :
           PointersOf(mysql_server_results)[i] = mysql_server_results[i].mysql_result
      /\ Len(PointersFor(made, mysql_result)) = Len(made)
      /\ \A k \in 1..Len(made) : PointersFor(made, mysql_result)[k] = mysql_result[made[k]]
  BY <1>1, PointersTyped
<1>3. Len(PointersOf(mysql_server_results)) = Len(PointersFor(made, mysql_result))
  BY DEF IInv, Aligned
<1> QED BY <1>1, <1>2, <1>3

\* A copy goes, the last one or not.
LEMMA DestroyKeeps ==
  ASSUME IInv, NEW h, NEW ss \in Seq(SUBSET DbResults), NEW ds \in [Delayed -> SUBSET DbResults],
         h \in Held(scripts, delayed), Held(ss, ds) \cup {h} = Held(scripts, delayed),
         DestroyGameDefinedStructure(h, ss, ds)
  PROVE  IInv'
<1>1. CASE h \in Held(ss, ds)
  <2>1. Held(ss, ds) = Held(scripts, delayed) /\ scripts' = ss /\ delayed' = ds
        /\ UNCHANGED results
    BY <1>1 DEF DestroyGameDefinedStructure, results
  <2> QED BY <2>1 DEF IInv, TypeOK, results
<1>2. CASE h \notin Held(ss, ds)
  <2> DEFINE p == mysql_result[h]
  <2>1. /\ made' = RemoveFirst(made, h)
        /\ mysql_server_results' = Erased(mysql_server_results, p)
        /\ scripts' = ss /\ delayed' = ds
        /\ UNCHANGED <<last_sql_query_error_code, mysql_result>>
    BY <1>2 DEF DestroyGameDefinedStructure
  <2>2. /\ Aligned(PointersOf(mysql_server_results), PointersFor(made, mysql_result))
        /\ IsInjective(made) /\ ToSet(made) = Held(scripts, delayed)
    BY DEF IInv
  <2>3. PICK m \in 1..Len(made) : made[m] = h
    <3>1. h \in ToSet(made) /\ DOMAIN made = 1..Len(made)
      BY <2>2, PointersNow
    <3> QED BY <3>1 DEF ToSet
  <2>4. /\ made' \in Seq(DbResults) /\ ToSet(made') = ToSet(made) \ {h} /\ IsInjective(made')
        /\ Len(made') = Len(made) - 1
        /\ \A k \in 1..(Len(made) - 1) : made'[k] = IF k < m THEN made[k] ELSE made[k + 1]
    <3>1. made \in Seq(DbResults)
      BY PointersNow
    <3> QED BY <2>1, <2>2, <2>3, <3>1, RemoveOne, RemoveGap
  <2>5. \E i \in 1..Len(made) : mysql_server_results[i].mysql_result = p
    <3>1. m \in 1..Len(PointersFor(made, mysql_result))
      BY PointersNow
    <3>2. PICK i \in 1..Len(PointersOf(mysql_server_results)) :
            PointersOf(mysql_server_results)[i] = PointersFor(made, mysql_result)[m]
      BY <2>2, <3>1, AlignedGone
    <3> QED BY <2>3, <3>2, PointersNow
  <2>6. PICK a \in 1..Len(made) :
          /\ mysql_server_results[a].mysql_result = p
          /\ \A i \in 1..Len(made) : mysql_server_results[i].mysql_result = p => a <= i
          /\ mysql_server_results' \in Seq(CMySQLRes)
          /\ Len(mysql_server_results') = Len(made) - 1
          /\ \A i \in 1..(Len(made) - 1) :
               mysql_server_results'[i] =
                 IF i < a THEN mysql_server_results[i] ELSE mysql_server_results[i + 1]
    <3>1. mysql_server_results \in Seq(CMySQLRes) /\ Len(mysql_server_results) = Len(made)
      BY PointersNow
    <3> DEFINE rs == mysql_server_results
               es == Erased(mysql_server_results, p)
    <3>2. rs \in Seq(CMySQLRes) /\ \E i \in 1..Len(rs) : rs[i].mysql_result = p
      BY <2>5, <3>1
    <3> HIDE DEF p
    <3>3. PICK a \in 1..Len(rs) :
            /\ rs[a].mysql_result = p
            /\ \A i \in 1..Len(rs) : rs[i].mysql_result = p => a <= i
            /\ es \in Seq(CMySQLRes) /\ Len(es) = Len(rs) - 1
            /\ \A i \in 1..(Len(rs) - 1) : es[i] = IF i < a THEN rs[i] ELSE rs[i + 1]
      <4> HIDE DEF rs
      <4> QED BY <3>2, ErasedFirst DEF rs
    <3>4. mysql_server_results' = es
      BY <2>1
    <3> HIDE DEF es
    <3> QED BY <3>1, <3>3, <3>4
  <2> DEFINE f == PointersOf(mysql_server_results)
             g == PointersFor(made, mysql_result)
             r == PointersOf(mysql_server_results')
             q == PointersFor(made', mysql_result)
  <2>7. Gap(f, a, r) /\ Gap(g, m, q)
    <3>1. a \in Nat /\ m \in Nat
      BY PointersNow
    <3> QED BY <2>4, <2>6, <3>1, PointersNow, PointersGap
  <2>8. /\ m \in 1..Len(g) /\ a \in 1..Len(f) /\ f[a] = g[m]
        /\ \A i \in 1..Len(f) : f[i] = f[a] => a <= i
    BY <2>3, <2>6, PointersNow
  <2>9. Aligned(r, q)
    <3> HIDE DEF f, g, r, q
    <3>1. Aligned(f, g)
      BY <2>2 DEF f, g
    <3> QED BY <2>7, <2>8, <3>1, AlignedAfter
  <2>10. ToSet(made') = Held(ss, ds)
    BY <1>2, <2>2, <2>4
  <2>11. TypeOK'
    BY <2>1, <2>4, <2>6 DEF IInv, TypeOK
  <2> QED BY <2>1, <2>4, <2>9, <2>10, <2>11 DEF IInv
<1> QED BY <1>1, <1>2

-----------------------------------------------------------------------------
(* The steps                                                               *)

LEMMA HeldTyped ==
  ASSUME TypeOK
  PROVE  /\ DOMAIN scripts = 1..Depth /\ Depth \in Nat /\ DOMAIN delayed = Delayed
         /\ \A i \in 1..Depth : scripts[i] \in SUBSET DbResults
         /\ \A d \in Delayed : delayed[d] \in SUBSET DbResults
         /\ Running => Depth \in 1..Depth
<1>1. /\ scripts \in Seq(SUBSET DbResults) /\ delayed \in [Delayed -> SUBSET DbResults]
  BY DEF TypeOK
<1>2. Running => Depth # 0
  BY <1>1 DEF Running, Depth
<1> QED BY <1>1, <1>2 DEF Depth

\* A step that only moves copies.
LEMMA MovedKeeps ==
  ASSUME IInv, scripts' \in Seq(SUBSET DbResults), delayed' \in [Delayed -> SUBSET DbResults],
         UNCHANGED results, Held(scripts', delayed') = Held(scripts, delayed)
  PROVE  IInv'
BY DEF IInv, TypeOK, results

LEMMA InitIInv ==
  ASSUME Init
  PROVE  IInv
<1>1. TypeOK
  BY DEF Init, TypeOK
<1>2. IsInjective(made)
  BY DEF Init, IsInjective
<1>3. ToSet(made) = Held(scripts, delayed)
  <2>1. DOMAIN scripts = {} /\ DOMAIN made = {} /\ \A d \in DOMAIN delayed : delayed[d] = {}
    BY DEF Init
  <2>2. \A x : x \notin Held(scripts, delayed)
    BY <2>1, HeldBy
  <2> QED BY <2>1, <2>2 DEF ToSet
<1>4. Aligned(PointersOf(mysql_server_results), PointersFor(made, mysql_result))
  <2> DEFINE f == PointersOf(mysql_server_results)
             g == PointersFor(made, mysql_result)
  <2>1. Len(mysql_server_results) = 0 /\ Len(made) = 0
    BY DEF Init
  <2>2. f \in Seq(Pointer) /\ g \in Seq(Pointer) /\ Len(f) = 0 /\ Len(g) = 0
    BY <1>1, <2>1, PointersTyped DEF TypeOK, Pointer
  <2> HIDE DEF f, g
  <2>3. \A i : i \notin 1..Len(f) /\ i \notin 1..Len(g)
    BY <2>2
  <2>4. Unique(f) /\ Unique(g)
    BY <2>3 DEF Unique
  <2>5. Aligned(f, g)
    BY <2>2, <2>3, <2>4 DEF Aligned
  <2> QED BY <2>5 DEF f, g
<1> QED BY <1>1, <1>2, <1>3, <1>4 DEF IInv

LEMMA RunScriptKeeps ==
  ASSUME IInv, RunScript
  PROVE  IInv'
<1>1. /\ scripts' = Append(scripts, {}) /\ delayed' = delayed /\ UNCHANGED results
      /\ scripts \in Seq(SUBSET DbResults) /\ delayed \in [Delayed -> SUBSET DbResults]
  BY DEF RunScript, IInv, TypeOK
<1>2. scripts' \in Seq(SUBSET DbResults)
  BY <1>1
<1>3. Held(scripts', delayed') = Held(scripts, delayed)
  <2>1. /\ DOMAIN scripts' = (DOMAIN scripts) \cup {Len(scripts) + 1}
        /\ scripts'[Len(scripts) + 1] = {} /\ \A i \in DOMAIN scripts : scripts'[i] = scripts[i]
    BY <1>1
  <2>2. ASSUME NEW x
        PROVE  x \in Held(scripts', delayed') <=> x \in Held(scripts, delayed)
    <3>1. /\ x \in Held(scripts', delayed') <=> \/ \E i \in DOMAIN scripts' : x \in scripts'[i]
                                                \/ \E d \in DOMAIN delayed' : x \in delayed'[d]
          /\ x \in Held(scripts, delayed) <=> \/ \E i \in DOMAIN scripts : x \in scripts[i]
                                              \/ \E d \in DOMAIN delayed : x \in delayed[d]
      BY HeldBy
    <3>2. (\E i \in DOMAIN scripts' : x \in scripts'[i]) <=> \E i \in DOMAIN scripts : x \in scripts[i]
      BY <2>1
    <3> QED BY <1>1, <3>1, <3>2
  <2> QED BY <2>2
<1> QED BY <1>1, <1>2, <1>3, MovedKeeps

LEMMA FrontKept ==
  ASSUME NEW S, NEW s \in Seq(S), s # << >>
  PROVE  /\ Front(s) \in Seq(S) /\ Len(Front(s)) = Len(s) - 1 /\ Len(s) \in 1..Len(s)
         /\ \A i \in 1..(Len(s) - 1) : Front(s)[i] = s[i]
<1>1. Len(s) \in 1..Len(s)
  OBVIOUS
<1>2. ASSUME NEW k \in 1..Len(s)
      PROVE  /\ SubSeq(s, 1, k - 1) \in Seq(S) /\ Len(SubSeq(s, 1, k - 1)) = k - 1
             /\ \A i \in 1..(k - 1) : SubSeq(s, 1, k - 1)[i] = s[i]
  OBVIOUS
<1> QED BY <1>1, <1>2 DEF Front

LEMMA ScriptEndsKeeps ==
  ASSUME IInv, ScriptEnds
  PROVE  IInv'
<1>1. /\ scripts' = Front(scripts) /\ delayed' = delayed /\ UNCHANGED results
      /\ scripts \in Seq(SUBSET DbResults) /\ delayed \in [Delayed -> SUBSET DbResults]
      /\ Running /\ scripts[Depth] = {}
  BY DEF ScriptEnds, IInv, TypeOK
<1>2. /\ scripts' \in Seq(SUBSET DbResults) /\ Len(scripts') = Depth - 1 /\ Depth \in 1..Depth
      /\ \A i \in 1..(Depth - 1) : scripts'[i] = scripts[i]
  <2>1. /\ Front(scripts) \in Seq(SUBSET DbResults)
        /\ Len(Front(scripts)) = Len(scripts) - 1 /\ Len(scripts) \in 1..Len(scripts)
        /\ \A i \in 1..(Len(scripts) - 1) : Front(scripts)[i] = scripts[i]
    BY <1>1, FrontKept DEF Running
  <2> QED BY <1>1, <2>1 DEF Depth
<1>3. Held(scripts', delayed') = Held(scripts, delayed)
  <2>1. DOMAIN scripts = 1..Depth /\ DOMAIN scripts' = 1..(Depth - 1)
    BY <1>1, <1>2 DEF Depth
  <2>2. ASSUME NEW x
        PROVE  x \in Held(scripts', delayed') <=> x \in Held(scripts, delayed)
    <3>1. /\ x \in Held(scripts', delayed') <=> \/ \E i \in DOMAIN scripts' : x \in scripts'[i]
                                                \/ \E d \in DOMAIN delayed' : x \in delayed'[d]
          /\ x \in Held(scripts, delayed) <=> \/ \E i \in DOMAIN scripts : x \in scripts[i]
                                              \/ \E d \in DOMAIN delayed : x \in delayed[d]
      BY HeldBy
    <3>2. \A i \in 1..Depth : i \in 1..(Depth - 1) \/ i = Depth
      BY <1>2
    <3>3. (\E i \in DOMAIN scripts' : x \in scripts'[i]) <=> \E i \in DOMAIN scripts : x \in scripts[i]
      BY <1>1, <1>2, <2>1, <3>2
    <3> QED BY <1>1, <3>1, <3>3
  <2> QED BY <2>2
<1> QED BY <1>1, <1>2, <1>3, MovedKeeps

LEMMA RunScriptSituationKeeps ==
  ASSUME IInv, NEW d \in Delayed, RunScriptSituation(d)
  PROVE  IInv'
<1>1. /\ scripts' = <<delayed[d]>> /\ delayed' = [delayed EXCEPT ![d] = {}] /\ UNCHANGED results
      /\ scripts = << >> /\ delayed \in [Delayed -> SUBSET DbResults]
  BY DEF RunScriptSituation, Running, IInv, TypeOK
<1>2. /\ scripts' \in Seq(SUBSET DbResults) /\ delayed' \in [Delayed -> SUBSET DbResults]
      /\ DOMAIN scripts' = {1} /\ scripts'[1] = delayed[d] /\ DOMAIN scripts = {}
      /\ DOMAIN delayed' = Delayed /\ DOMAIN delayed = Delayed
      /\ \A e \in Delayed : delayed'[e] = IF e = d THEN {} ELSE delayed[e]
  BY <1>1
<1>3. Held(scripts', delayed') = Held(scripts, delayed)
  <2>1. ASSUME NEW x
        PROVE  x \in Held(scripts', delayed') <=> x \in Held(scripts, delayed)
    <3>1. /\ x \in Held(scripts', delayed') <=> \/ \E i \in DOMAIN scripts' : x \in scripts'[i]
                                                \/ \E e \in DOMAIN delayed' : x \in delayed'[e]
          /\ x \in Held(scripts, delayed) <=> \/ \E i \in DOMAIN scripts : x \in scripts[i]
                                              \/ \E e \in DOMAIN delayed : x \in delayed[e]
      BY HeldBy
    <3> QED BY <1>2, <3>1
  <2> QED BY <2>1
<1> QED BY <1>1, <1>2, <1>3, MovedKeeps

LEMMA DelayCommandKeeps ==
  ASSUME IInv, NEW d \in Delayed, NEW hs \in SUBSET DbResults, DelayCommand(d, hs)
  PROVE  IInv'
<1>1. /\ scripts' = scripts /\ delayed' = [delayed EXCEPT ![d] = hs] /\ UNCHANGED results
      /\ scripts \in Seq(SUBSET DbResults) /\ delayed \in [Delayed -> SUBSET DbResults]
      /\ Running /\ hs \subseteq scripts[Depth] /\ delayed[d] = {}
  BY DEF DelayCommand, IInv, TypeOK
<1>2. /\ delayed' \in [Delayed -> SUBSET DbResults]
      /\ DOMAIN delayed' = Delayed /\ DOMAIN delayed = Delayed
      /\ \A e \in Delayed : delayed'[e] = IF e = d THEN hs ELSE delayed[e]
      /\ Depth \in DOMAIN scripts
  BY <1>1, HeldTyped DEF IInv
<1>3. Held(scripts', delayed') = Held(scripts, delayed)
  <2>1. ASSUME NEW x
        PROVE  x \in Held(scripts', delayed') <=> x \in Held(scripts, delayed)
    <3>1. /\ x \in Held(scripts', delayed') <=> \/ \E i \in DOMAIN scripts' : x \in scripts'[i]
                                                \/ \E e \in DOMAIN delayed' : x \in delayed'[e]
          /\ x \in Held(scripts, delayed) <=> \/ \E i \in DOMAIN scripts : x \in scripts[i]
                                              \/ \E e \in DOMAIN delayed : x \in delayed[e]
      BY HeldBy
    <3> QED BY <1>1, <1>2, <3>1
  <2> QED BY <2>1
<1> QED BY <1>1, <1>2, <1>3, MovedKeeps

LEMMA DropVariableKeeps ==
  ASSUME IInv, NEW h \in DbResults, DropVariable(h)
  PROVE  IInv'
<1> DEFINE ss == [scripts EXCEPT ![Depth] = @ \ {h}]
<1>1. /\ scripts \in Seq(SUBSET DbResults) /\ delayed \in [Delayed -> SUBSET DbResults]
      /\ Running /\ h \in scripts[Depth] /\ DestroyGameDefinedStructure(h, ss, delayed)
  BY DEF DropVariable, IInv, TypeOK
<1>2. /\ ss \in Seq(SUBSET DbResults) /\ DOMAIN ss = DOMAIN scripts /\ Depth \in DOMAIN scripts
      /\ ss[Depth] = scripts[Depth] \ {h}
      /\ \A i \in DOMAIN scripts : i # Depth => ss[i] = scripts[i]
  <2>1. Depth \in DOMAIN scripts
    BY <1>1, HeldTyped DEF IInv
  <2> QED BY <1>1, <2>1
<1> HIDE DEF ss
<1>3. h \in Held(scripts, delayed)
  BY <1>1, <1>2, HeldBy
<1>4. Held(ss, delayed) \cup {h} = Held(scripts, delayed)
  <2>1. ASSUME NEW x, x # h
        PROVE  x \in Held(ss, delayed) <=> x \in Held(scripts, delayed)
    <3>1. /\ x \in Held(ss, delayed) <=> \/ \E i \in DOMAIN ss : x \in ss[i]
                                         \/ \E e \in DOMAIN delayed : x \in delayed[e]
          /\ x \in Held(scripts, delayed) <=> \/ \E i \in DOMAIN scripts : x \in scripts[i]
                                              \/ \E e \in DOMAIN delayed : x \in delayed[e]
      BY HeldBy
    <3>2. \A i \in DOMAIN scripts : x \in ss[i] <=> x \in scripts[i]
      BY <1>2, <2>1
    <3> QED BY <1>2, <3>1, <3>2
  <2> QED BY <1>3, <2>1
<1> QED BY <1>1, <1>2, <1>3, <1>4, DestroyKeeps

LEMMA DropDelayedKeeps ==
  ASSUME IInv, NEW d \in Delayed, NEW h \in DbResults, DropDelayed(d, h)
  PROVE  IInv'
<1> DEFINE ds == [delayed EXCEPT ![d] = @ \ {h}]
<1>1. /\ scripts \in Seq(SUBSET DbResults) /\ delayed \in [Delayed -> SUBSET DbResults]
      /\ h \in delayed[d] /\ DestroyGameDefinedStructure(h, scripts, ds)
  BY DEF DropDelayed, IInv, TypeOK
<1>2. /\ ds \in [Delayed -> SUBSET DbResults] /\ DOMAIN ds = DOMAIN delayed /\ d \in DOMAIN delayed
      /\ ds[d] = delayed[d] \ {h}
      /\ \A e \in DOMAIN delayed : e # d => ds[e] = delayed[e]
  BY <1>1
<1> HIDE DEF ds
<1>3. h \in Held(scripts, delayed)
  BY <1>1, <1>2, HeldBy
<1>4. Held(scripts, ds) \cup {h} = Held(scripts, delayed)
  <2>1. ASSUME NEW x, x # h
        PROVE  x \in Held(scripts, ds) <=> x \in Held(scripts, delayed)
    <3>1. /\ x \in Held(scripts, ds) <=> \/ \E i \in DOMAIN scripts : x \in scripts[i]
                                         \/ \E e \in DOMAIN ds : x \in ds[e]
          /\ x \in Held(scripts, delayed) <=> \/ \E i \in DOMAIN scripts : x \in scripts[i]
                                              \/ \E e \in DOMAIN delayed : x \in delayed[e]
      BY HeldBy
    <3>2. \A e \in DOMAIN delayed : x \in ds[e] <=> x \in delayed[e]
      BY <1>2, <2>1
    <3> QED BY <1>2, <3>1, <3>2
  <2> QED BY <1>3, <2>1
<1> QED BY <1>1, <1>2, <1>3, <1>4, DestroyKeeps

LEMMA SQLExecKeeps ==
  ASSUME IInv, SQLExec
  PROVE  IInv'
<1>1. CASE UNCHANGED <<mysql_server_results, mysql_result, made, scripts, delayed>>
           /\ last_sql_query_error_code' = 1
  BY <1>1 DEF IInv, TypeOK
<1>2. ASSUME NEW h \in DbResults \ ToSet(made), NEW p \in Pointer,
             p # NULL => \A i \in DOMAIN mysql_server_results :
                           mysql_server_results[i].mysql_result # p,
             last_sql_query_error_code' = 0,
             mysql_server_results' = <<[mysql_result |-> p, row |-> 0]>> \o mysql_server_results,
             mysql_result' = [mysql_result EXCEPT ![h] = p],
             made' = Append(made, h),
             scripts' = [scripts EXCEPT ![Depth] = @ \union {h}],
             delayed' = delayed, Running
      PROVE  IInv'
  <2> DEFINE e == [mysql_result |-> p, row |-> 0]
             f == PointersOf(mysql_server_results)
             g == PointersFor(made, mysql_result)
  <2>1. /\ scripts \in Seq(SUBSET DbResults) /\ delayed \in [Delayed -> SUBSET DbResults]
        /\ IsInjective(made) /\ ToSet(made) = Held(scripts, delayed) /\ Aligned(f, g)
        /\ mysql_server_results \in Seq(CMySQLRes) /\ made \in Seq(DbResults)
        /\ mysql_result \in [DbResults -> Pointer]
    BY DEF IInv, TypeOK, Pointer
  <2>2. e \in CMySQLRes /\ e.mysql_result = p
    BY DatabaseResultsAssumption DEF CMySQLRes, Pointer
  <2> HIDE DEF e, f, g
  <2>3. mysql_server_results' = <<e>> \o mysql_server_results
    BY <1>2 DEF e
  <2>4. /\ mysql_server_results' \in Seq(CMySQLRes)
        /\ Len(mysql_server_results') = Len(mysql_server_results) + 1
        /\ mysql_server_results'[1] = e
        /\ \A i \in 1..Len(mysql_server_results) :
             mysql_server_results'[i + 1] = mysql_server_results[i]
    BY <2>1, <2>2, <2>3
  <2>5. /\ made' \in Seq(DbResults) /\ Len(made') = Len(made) + 1
        /\ ToSet(made') = ToSet(made) \cup {h} /\ IsInjective(made')
        /\ made'[Len(made) + 1] = h /\ \A k \in 1..Len(made) : made'[k] = made[k]
    <3>1. \A k \in 1..Len(made) : Append(made, h)[k] = made[k]
      BY <2>1
    <3>2. Append(made, h)[Len(made) + 1] = h
      BY <2>1
    <3> QED BY <1>2, <2>1, <3>1, <3>2, PutBack
  <2>6. /\ mysql_result' \in [DbResults -> Pointer] /\ mysql_result'[h] = p
        /\ \A x \in DbResults : x # h => mysql_result'[x] = mysql_result[x]
    BY <1>2, <2>1
  <2>7. PointersOf(mysql_server_results') = <<p>> \o f
    <3> DEFINE r == PointersOf(mysql_server_results')
    <3>1. /\ r \in Seq(Pointer) /\ Len(r) = Len(mysql_server_results) + 1
          /\ \A i \in 1..(Len(mysql_server_results) + 1) : r[i] = mysql_server_results'[i].mysql_result
      BY <2>4, PointersTyped
    <3>2. /\ f \in Seq(Pointer) /\ Len(f) = Len(mysql_server_results)
          /\ \A i \in 1..Len(mysql_server_results) : f[i] = mysql_server_results[i].mysql_result
      BY <2>1, PointersTyped DEF f
    <3> HIDE DEF r
    <3> DEFINE t == <<p>> \o f
    <3>3. t \in Seq(Pointer) /\ Len(t) = Len(f) + 1 /\ t[1] = p
          /\ \A i \in 1..Len(f) : t[i + 1] = f[i]
      BY <3>2
    <3> HIDE DEF t
    <3>4. ASSUME NEW i \in 1..Len(r)
          PROVE  r[i] = t[i]
      <4>1. CASE i = 1
        BY <2>2, <2>4, <3>1, <3>2, <3>3, <4>1
      <4>2. CASE i # 1
        <5>1. i - 1 \in 1..Len(f) /\ (i - 1) + 1 = i
          BY <3>1, <3>2, <4>2
        <5>2. t[i] = f[i - 1]
          BY <3>3, <5>1
        <5>3. mysql_server_results'[i] = mysql_server_results[i - 1]
          BY <2>4, <3>2, <5>1
        <5> QED BY <3>1, <3>2, <5>1, <5>2, <5>3
      <4> QED BY <4>1, <4>2
    <3>5. r = t
      BY <3>1, <3>2, <3>3, <3>4
    <3> QED BY <3>5 DEF r, t
  <2>8. PointersFor(made', mysql_result') = Append(g, p)
    <3> DEFINE q == PointersFor(made', mysql_result')
               t == Append(g, p)
    <3>1. /\ q \in Seq(Pointer) /\ Len(q) = Len(made) + 1
          /\ \A k \in 1..(Len(made) + 1) : q[k] = mysql_result'[made'[k]]
      BY <2>5, <2>6, PointersTyped
    <3>2. /\ g \in Seq(Pointer) /\ Len(g) = Len(made)
          /\ \A k \in 1..Len(made) : g[k] = mysql_result[made[k]]
      BY <2>1, PointersTyped DEF g
    <3>3. /\ t \in Seq(Pointer) /\ Len(t) = Len(g) + 1 /\ t[Len(g) + 1] = p
          /\ \A k \in 1..Len(g) : t[k] = g[k]
      BY <3>2
    <3> HIDE DEF q, t
    <3>4. \A k \in 1..Len(made) : made[k] \in DbResults /\ made[k] # h
      <4>1. DOMAIN made = 1..Len(made) /\ \A k \in 1..Len(made) : made[k] \in DbResults
        BY <2>1
      <4>2. h \notin ToSet(made)
        OBVIOUS
      <4> QED BY <4>1, <4>2 DEF ToSet
    <3>5. ASSUME NEW k \in 1..Len(q)
          PROVE  q[k] = t[k]
      <4>1. CASE k = Len(made) + 1
        <5>1. q[k] = mysql_result'[made'[k]] /\ made'[k] = h
          BY <2>5, <3>1, <4>1
        <5>2. t[k] = p
          BY <3>2, <3>3, <4>1
        <5> QED BY <2>6, <5>1, <5>2
      <4>2. CASE k \in 1..Len(made)
        <5>1. q[k] = mysql_result'[made'[k]] /\ made'[k] = made[k]
          BY <2>5, <3>1, <4>2
        <5>2. t[k] = mysql_result[made[k]]
          BY <3>2, <3>3, <4>2
        <5> QED BY <2>6, <3>4, <4>2, <5>1, <5>2
      <4> QED BY <3>1, <2>1, <4>1, <4>2
    <3>6. q = t
      BY <3>1, <3>2, <3>3, <3>5
    <3> QED BY <3>6 DEF q, t
  <2>9. Aligned(<<p>> \o f, Append(g, p))
    <3>1. /\ DOMAIN mysql_server_results = 1..Len(mysql_server_results)
          /\ Len(f) = Len(mysql_server_results)
          /\ \A i \in 1..Len(f) : f[i] = mysql_server_results[i].mysql_result
      BY <2>1, PointersTyped DEF f
    <3>2. p # NULL => \A i \in 1..Len(f) : f[i] # p
      BY <1>2, <3>1
    <3> QED BY <2>1, <3>2, AlignedPushed
  <2>10. /\ scripts' \in Seq(SUBSET DbResults) /\ DOMAIN scripts' = DOMAIN scripts
         /\ Depth \in DOMAIN scripts /\ scripts'[Depth] = scripts[Depth] \cup {h}
         /\ \A i \in DOMAIN scripts : i # Depth => scripts'[i] = scripts[i]
    <3>1. Depth \in DOMAIN scripts
      BY <1>2, HeldTyped DEF IInv
    <3> QED BY <1>2, <2>1, <3>1
  <2>11. ToSet(made') = Held(scripts', delayed')
    <3>1. ASSUME NEW x
          PROVE  x \in Held(scripts', delayed') <=> x \in Held(scripts, delayed) \cup {h}
      <4>1. /\ x \in Held(scripts', delayed') <=> \/ \E i \in DOMAIN scripts' : x \in scripts'[i]
                                                  \/ \E d \in DOMAIN delayed' : x \in delayed'[d]
            /\ x \in Held(scripts, delayed) <=> \/ \E i \in DOMAIN scripts : x \in scripts[i]
                                                \/ \E d \in DOMAIN delayed : x \in delayed[d]
        BY HeldBy
      <4>2. (\E i \in DOMAIN scripts' : x \in scripts'[i])
              <=> (x = h \/ \E i \in DOMAIN scripts : x \in scripts[i])
        BY <2>10
      <4> QED BY <1>2, <4>1, <4>2
    <3> QED BY <2>1, <2>5, <3>1
  <2>12. TypeOK'
    BY <1>2, <2>1, <2>4, <2>5, <2>6, <2>10 DEF TypeOK, Pointer
  <2> QED BY <2>5, <2>7, <2>8, <2>9, <2>11, <2>12 DEF IInv
<1> QED BY <1>1, <1>2 DEF SQLExec, Pointer

LEMMA QueryKeeps ==
  ASSUME IInv, Query
  PROVE  IInv'
BY DEF IInv, TypeOK, Query

\* SQLFetch moves a row of the result in front, and leaves the pointers.
LEMMA Fetched ==
  ASSUME IInv, SQLFetch
  PROVE  /\ 1 \in 1..Len(mysql_server_results)
         /\ mysql_server_results[1].mysql_result # NULL
         /\ mysql_server_results' \in Seq(CMySQLRes)
         /\ Len(mysql_server_results') = Len(mysql_server_results)
         /\ \A i \in 1..Len(mysql_server_results) :
              /\ mysql_server_results'[i].mysql_result = mysql_server_results[i].mysql_result
              /\ i # 1 => mysql_server_results'[i] = mysql_server_results[i]
         /\ UNCHANGED <<last_sql_query_error_code, mysql_result, made, scripts, delayed>>
<1>1. /\ 1 \in DOMAIN mysql_server_results /\ mysql_server_results[1].mysql_result # NULL
      /\ UNCHANGED <<last_sql_query_error_code, mysql_result, made, scripts, delayed>>
  BY DEF SQLFetch, FetchRow
<1>2. PICK row \in {mysql_server_results[1].row + 1, MaxRows + 1} :
        /\ row <= MaxRows + 1
        /\ mysql_server_results' = [mysql_server_results EXCEPT ![1].row = row]
  BY DEF SQLFetch, FetchRow
<1>3. mysql_server_results \in Seq(CMySQLRes)
  BY DEF IInv, TypeOK
<1>4. mysql_server_results[1] \in CMySQLRes
  BY <1>1, <1>3
<1> DEFINE e == [mysql_server_results[1] EXCEPT !.row = row]
<1>5. e \in CMySQLRes /\ e.mysql_result = mysql_server_results[1].mysql_result
  <2>1. row \in 0..(MaxRows + 1)
    BY <1>2, <1>4, DatabaseResultsAssumption DEF CMySQLRes
  <2> QED BY <1>4, <2>1 DEF CMySQLRes
<1> HIDE DEF e
<1>6. mysql_server_results' = [mysql_server_results EXCEPT ![1] = e]
  BY <1>2 DEF e
<1> QED BY <1>1, <1>3, <1>5, <1>6

LEMMA SQLFetchKeeps ==
  ASSUME IInv, SQLFetch
  PROVE  IInv'
<1>1. /\ mysql_server_results' \in Seq(CMySQLRes)
      /\ Len(mysql_server_results') = Len(mysql_server_results)
      /\ \A i \in 1..Len(mysql_server_results) :
           mysql_server_results'[i].mysql_result = mysql_server_results[i].mysql_result
      /\ UNCHANGED <<last_sql_query_error_code, mysql_result, made, scripts, delayed>>
  BY Fetched
<1>2. PointersOf(mysql_server_results') = PointersOf(mysql_server_results)
  BY <1>1 DEF PointersOf
<1> QED BY <1>1, <1>2 DEF IInv, TypeOK

LEMMA StepIInv ==
  ASSUME IInv, [Next]_vars
  PROVE  IInv'
<1>1. CASE UNCHANGED vars
  BY <1>1 DEF vars, IInv, TypeOK
<1>2. ASSUME NEW h \in DbResults, DropVariable(h) \/ \E d \in Delayed : DropDelayed(d, h)
      PROVE  IInv'
  BY <1>2, DropVariableKeeps, DropDelayedKeeps
<1>3. ASSUME NEW d \in Delayed,
             RunScriptSituation(d) \/ \E hs \in SUBSET DbResults : DelayCommand(d, hs)
      PROVE  IInv'
  BY <1>3, RunScriptSituationKeeps, DelayCommandKeeps
<1> QED
  BY <1>1, <1>2, <1>3, RunScriptKeeps, ScriptEndsKeeps, SQLExecKeeps, QueryKeeps, SQLFetchKeeps
  DEF Next

-----------------------------------------------------------------------------
(* The theorems                                                            *)

LEMMA IInvAlways ==
  Spec => []IInv
<1>1. Init => IInv
  BY InitIInv
<1>2. IInv /\ [Next]_vars => IInv'
  BY StepIInv
<1> QED BY <1>1, <1>2, PTL DEF Spec

\* As many results as dbresults have a pointer: those that live, and no more.
LEMMA CountsEqual ==
  ASSUME IInv, NEW p \in Pointer
  PROVE  Cardinality(Results(p)) = Cardinality({h \in ToSet(made) : mysql_result[h] = p})
<1> DEFINE f == PointersOf(mysql_server_results)
           g == PointersFor(made, mysql_result)
           B == {k \in 1..Len(made) : mysql_result[made[k]] = p}
           H == {h \in ToSet(made) : mysql_result[h] = p}
           F == [k \in B |-> made[k]]
<1>1. /\ made \in Seq(DbResults) /\ DOMAIN made = 1..Len(made) /\ IsInjective(made)
      /\ DOMAIN mysql_server_results = 1..Len(made)
  <2>1. mysql_server_results \in Seq(CMySQLRes) /\ Len(mysql_server_results) = Len(made)
        /\ made \in Seq(DbResults)
    BY PointersNow
  <2> QED BY <2>1 DEF IInv
<1>2. Cardinality({i \in 1..Len(f) : f[i] = p}) = Cardinality({k \in 1..Len(g) : g[k] = p})
  BY AlignedCounts DEF IInv
<1>3. {i \in 1..Len(f) : f[i] = p} = Results(p) /\ {k \in 1..Len(g) : g[k] = p} = B
  BY <1>1, PointersNow DEF Results
<1>4. Cardinality(B) = Cardinality(H)
  <2>1. IsFiniteSet(B)
    <3>1. IsFiniteSet(1..Len(made))
      <4>1. Len(made) \in Int /\ 1 \in Int
        BY <1>1
      <4> QED BY <4>1, FS_Interval
    <3> QED BY <3>1, FS_Subset
  <2>2. F \in Bijection(B, H)
    <3>1. F \in [B -> H]
      BY <1>1 DEF ToSet
    <3>2. ASSUME NEW k \in B, NEW l \in B, F[k] = F[l]
          PROVE  k = l
      BY <1>1, <3>2 DEF IsInjective
    <3>3. ASSUME NEW h \in H
          PROVE  \E k \in B : F[k] = h
      <4>1. PICK k \in 1..Len(made) : made[k] = h
        BY <1>1 DEF ToSet
      <4>2. k \in B
        BY <4>1
      <4> QED BY <4>1, <4>2
    <3> HIDE DEF F, B, H
    <3> QED BY <3>1, <3>2, <3>3 DEF Bijection, Injection, Surjection, IsInjective
  <2> HIDE DEF F, B, H
  <2> QED BY <2>1, <2>2, FS_Bijection DEF ExistsBijection
<1> QED BY <1>2, <1>3, <1>4

LEMMA IInvHolds ==
  IInv => ResultsHeld
<1> SUFFICES ASSUME IInv
             PROVE  ResultsHeld
  OBVIOUS
<1>1. \A p \in Pointers \union {NULL} :
        Cardinality(Results(p)) = Cardinality({h \in ToSet(made) : mysql_result[h] = p})
  BY CountsEqual DEF Pointer
<1>2. ASSUME NEW k \in DOMAIN made, mysql_result[made[k]] # NULL
      PROVE  \E i \in Results(mysql_result[made[k]]) : i <= Len(made) - k + 1
  <2> DEFINE f == PointersOf(mysql_server_results)
             g == PointersFor(made, mysql_result)
  <2>1. /\ k \in 1..Len(made) /\ g[k] = mysql_result[made[k]]
        /\ Len(f) = Len(made) /\ Len(g) = Len(made)
        /\ DOMAIN mysql_server_results = 1..Len(made)
        /\ \A i \in 1..Len(made) : f[i] = mysql_server_results[i].mysql_result
    BY PointersNow
  <2> HIDE DEF f, g
  <2>2. Aligned(f, g)
    BY DEF IInv, f, g
  <2>3. PICK i \in 1..Len(f) : f[i] = g[k]
    BY <1>2, <2>1, <2>2 DEF Aligned
  <2>4. i <= Len(g) - k + 1
    BY <1>2, <2>1, <2>2, <2>3 DEF Aligned
  <2>5. i \in Results(mysql_result[made[k]])
    BY <2>1, <2>3 DEF Results
  <2> QED BY <2>1, <2>4, <2>5
<1>3. ASSUME NEW k \in DOMAIN made, NEW l \in DOMAIN made, k < l,
             mysql_result[made[k]] # NULL, mysql_result[made[l]] # NULL,
             NEW i \in Results(mysql_result[made[k]]), NEW j \in Results(mysql_result[made[l]])
      PROVE  j < i
  <2> DEFINE f == PointersOf(mysql_server_results)
             g == PointersFor(made, mysql_result)
  <2>1. /\ k \in 1..Len(g) /\ g[k] = mysql_result[made[k]]
        /\ l \in 1..Len(g) /\ g[l] = mysql_result[made[l]]
        /\ i \in 1..Len(g) /\ f[i] = g[k]
        /\ j \in 1..Len(g) /\ f[j] = g[l]
        /\ Len(g) \in Nat
    BY PointersNow DEF Results
  <2>2. Aligned(f, g)
    BY DEF IInv
  <2> HIDE DEF f, g
  <2>3. ~(i < j)
    BY <1>3, <2>1, <2>2 DEF Aligned
  <2>4. g[k] # g[l]
    BY <1>3, <2>1, <2>2 DEF Aligned, Unique
  <2>5. i # j
    BY <2>1, <2>4
  <2> QED BY <2>1, <2>3, <2>5
<1> QED BY <1>1, <1>2, <1>3 DEF IInv, ResultsHeld

\* A dbresult has its result as long as it lives, whatever order results without rows,
\* and pointers used again, go in (CScriptDbResultData::~CScriptDbResultData).
THEOREM ResultsAlwaysHeld ==
  Spec => []ResultsHeld
BY IInvAlways, IInvHolds, PTL

\* No step but a fetch changes the row of a result that stays.
LEMMA ErasedOld ==
  ASSUME NEW rs \in Seq(CMySQLRes), NEW p, NEW j \in 1..Len(Erased(rs, p))
  PROVE  \E l \in 1..Len(rs) : Erased(rs, p)[j] = rs[l]
<1>1. DOMAIN rs = 1..Len(rs)
  OBVIOUS
<1>2. CASE \E i \in 1..Len(rs) : rs[i].mysql_result = p
  <2>1. PICK a \in 1..Len(rs) :
          /\ Len(Erased(rs, p)) = Len(rs) - 1
          /\ \A i \in 1..(Len(rs) - 1) : Erased(rs, p)[i] = IF i < a THEN rs[i] ELSE rs[i + 1]
    BY <1>2, ErasedFirst
  <2>2. j \in 1..(Len(rs) - 1) /\ j \in 1..Len(rs) /\ j + 1 \in 1..Len(rs)
    BY <2>1
  <2> QED BY <2>1, <2>2
<1>3. CASE ~ \E i \in 1..Len(rs) : rs[i].mysql_result = p
  <2>1. Erased(rs, p) = rs
    BY <1>1, <1>3 DEF Erased
  <2> QED BY <2>1
<1> QED BY <1>2, <1>3

LEMMA SameRow ==
  ASSUME IInv, NEW p \in Pointers, NEW i \in Results(p), NEW e, e.mysql_result = p,
         \E l \in 1..Len(mysql_server_results) : e = mysql_server_results[l]
  PROVE  e = mysql_server_results[i]
<1>1. PICK l \in 1..Len(mysql_server_results) : e = mysql_server_results[l]
  OBVIOUS
<1>2. p # NULL
  BY DatabaseResultsAssumption
<1>3. /\ Len(mysql_server_results) = Len(made)
      /\ DOMAIN mysql_server_results = 1..Len(made)
      /\ Len(PointersOf(mysql_server_results)) = Len(made)
      /\ \A a \in 1..Len(made) :
           PointersOf(mysql_server_results)[a] = mysql_server_results[a].mysql_result
  BY PointersNow
<1>4. i \in 1..Len(made) /\ mysql_server_results[i].mysql_result = p
  BY <1>3 DEF Results
<1>5. Unique(PointersOf(mysql_server_results))
  BY DEF IInv, Aligned
<1>6. i = l
  BY <1>1, <1>2, <1>3, <1>4, <1>5 DEF Unique
<1> QED BY <1>1, <1>6

\* The newest result with rows is in front.
LEMMA NewestInFront ==
  ASSUME IInv, 1 \in 1..Len(mysql_server_results), mysql_server_results[1].mysql_result # NULL
  PROVE  mysql_result[Last(made)] \in {mysql_server_results[1].mysql_result, NULL}
<1> DEFINE f == PointersOf(mysql_server_results)
           g == PointersFor(made, mysql_result)
           n == Len(made)
<1>1. /\ n \in 1..n /\ 1 \in 1..n /\ made \in Seq(DbResults)
      /\ Len(f) = n /\ Len(g) = n /\ f[1] = mysql_server_results[1].mysql_result
      /\ g[n] = mysql_result[made[n]] /\ Last(made) = made[n]
  <2>1. Len(mysql_server_results) = n /\ made \in Seq(DbResults) /\ n \in Nat
    BY PointersNow
  <2>2. n \in 1..n /\ 1 \in 1..n
    BY <2>1
  <2> QED BY <2>1, <2>2, PointersNow DEF Last
<1> HIDE DEF f, g, n
<1>2. Aligned(f, g)
  BY DEF IInv, f, g
<1> SUFFICES ASSUME g[n] # NULL, g[n] # f[1]
             PROVE  FALSE
  BY <1>1
<1>3. f[1] # NULL
  BY <1>1
<1>4. PICK k \in 1..n : g[k] = f[1]
  BY <1>1, <1>2, <1>3 DEF Aligned
<1>5. PICK i \in 1..n : f[i] = g[n]
  BY <1>1, <1>2 DEF Aligned
<1>6. 1 < i
  BY <1>1, <1>5
<1>7. \A a, b, c, d \in 1..n :
        f[a] = g[c] /\ f[b] = g[d] /\ f[a] # NULL /\ f[b] # NULL /\ a < b => d < c
  BY <1>1, <1>2 DEF Aligned
<1>8. n < k
  BY <1>1, <1>3, <1>4, <1>5, <1>6, <1>7
<1> QED BY <1>1, <1>4, <1>8

LEMMA StepRows ==
  ASSUME IInv, [Next]_vars, NEW p \in Pointers, NEW i \in Results(p), NEW j \in Results(p)',
         mysql_server_results'[j].row # mysql_server_results[i].row
  PROVE  mysql_result[Last(made)] \in {p, NULL}
<1>1. /\ mysql_server_results \in Seq(CMySQLRes)
      /\ DOMAIN mysql_server_results = 1..Len(mysql_server_results)
      /\ i \in 1..Len(mysql_server_results) /\ mysql_server_results[i].mysql_result = p
      /\ j \in DOMAIN mysql_server_results' /\ mysql_server_results'[j].mysql_result = p
      /\ p # NULL
  <2>1. mysql_server_results \in Seq(CMySQLRes)
    BY DEF IInv, TypeOK
  <2> QED BY <2>1, DatabaseResultsAssumption DEF Results
<1>2. ASSUME NEW l \in 1..Len(mysql_server_results),
             mysql_server_results'[j] = mysql_server_results[l]
      PROVE  FALSE
  BY <1>1, <1>2, SameRow
<1>3. CASE mysql_server_results' = mysql_server_results
  BY <1>1, <1>2, <1>3
<1>4. CASE SQLFetch
  <2>1. /\ 1 \in 1..Len(mysql_server_results) /\ mysql_server_results[1].mysql_result # NULL
        /\ mysql_server_results' \in Seq(CMySQLRes)
        /\ Len(mysql_server_results') = Len(mysql_server_results)
        /\ \A a \in 1..Len(mysql_server_results) :
             /\ mysql_server_results'[a].mysql_result = mysql_server_results[a].mysql_result
             /\ a # 1 => mysql_server_results'[a] = mysql_server_results[a]
    BY <1>4, Fetched
  <2>2. j \in 1..Len(mysql_server_results)
    BY <1>1, <2>1
  <2>3. j = 1
    BY <1>2, <2>1, <2>2
  <2>4. mysql_server_results[1].mysql_result = p
    BY <1>1, <2>1, <2>3
  <2> QED BY <2>1, <2>4, NewestInFront
<1>5. ASSUME NEW h, NEW ss, NEW ds, DestroyGameDefinedStructure(h, ss, ds)
      PROVE  FALSE
  <2>1. CASE UNCHANGED mysql_server_results
    BY <1>1, <1>2, <2>1
  <2>2. CASE mysql_server_results' = Erased(mysql_server_results, mysql_result[h])
    <3> DEFINE es == Erased(mysql_server_results, mysql_result[h])
    <3>1. es \in Seq(CMySQLRes)
      <4>1. CASE \E a \in 1..Len(mysql_server_results) :
                   mysql_server_results[a].mysql_result = mysql_result[h]
        BY <1>1, <4>1, ErasedFirst
      <4>2. CASE ~ \E a \in 1..Len(mysql_server_results) :
                     mysql_server_results[a].mysql_result = mysql_result[h]
        <5>1. es = mysql_server_results
          BY <1>1, <4>2 DEF Erased
        <5> QED BY <1>1, <5>1
      <4> QED BY <4>1, <4>2
    <3>2. j \in 1..Len(es)
      BY <1>1, <2>2, <3>1
    <3>3. PICK l \in 1..Len(mysql_server_results) : es[j] = mysql_server_results[l]
      BY <1>1, <3>2, ErasedOld
    <3> QED BY <1>2, <2>2, <3>3
  <2> QED BY <1>5, <2>1, <2>2 DEF DestroyGameDefinedStructure
<1>6. CASE SQLExec
  <2>1. CASE UNCHANGED mysql_server_results
    BY <1>1, <1>2, <2>1
  <2>2. ASSUME NEW h, NEW q \in Pointer,
               q # NULL => \A a \in DOMAIN mysql_server_results :
                             mysql_server_results[a].mysql_result # q,
               mysql_server_results' = <<[mysql_result |-> q, row |-> 0]>> \o mysql_server_results
        PROVE  FALSE
    <3> DEFINE e == [mysql_result |-> q, row |-> 0]
               rs == mysql_server_results
    <3>1. e.mysql_result = q /\ e \in CMySQLRes
      BY DatabaseResultsAssumption DEF CMySQLRes, Pointer
    <3>2. q # p
      BY <1>1, <2>2
    <3> HIDE DEF e
    <3>3. mysql_server_results' = <<e>> \o rs
      BY <2>2 DEF e
    <3>4. /\ DOMAIN mysql_server_results' = 1..(Len(rs) + 1) /\ mysql_server_results'[1] = e
          /\ \A a \in 1..Len(rs) : mysql_server_results'[a + 1] = rs[a]
      BY <1>1, <3>1, <3>3
    <3>5. j # 1
      BY <1>1, <3>1, <3>2, <3>4
    <3>6. j - 1 \in 1..Len(rs) /\ (j - 1) + 1 = j
      BY <1>1, <3>4, <3>5
    <3>7. mysql_server_results'[j] = rs[j - 1]
      BY <3>4, <3>6
    <3> QED BY <1>2, <3>6, <3>7
  <2> QED BY <1>6, <2>1, <2>2 DEF SQLExec, Pointer
<1>7. CASE RunScript \/ ScriptEnds \/ Query \/ UNCHANGED vars
  BY <1>3, <1>7 DEF RunScript, ScriptEnds, Query, vars, results
<1>8. ASSUME NEW d \in Delayed,
             RunScriptSituation(d) \/ \E hs \in SUBSET DbResults : DelayCommand(d, hs)
      PROVE  mysql_server_results' = mysql_server_results
  BY <1>8 DEF RunScriptSituation, DelayCommand, results
<1>9. ASSUME NEW h \in DbResults, DropVariable(h) \/ \E d \in Delayed : DropDelayed(d, h)
      PROVE  FALSE
  BY <1>5, <1>9 DEF DropVariable, DropDelayed
<1> QED BY <1>3, <1>4, <1>6, <1>7, <1>8, <1>9 DEF Next

\* SQLFetch takes a row of the newest query with rows that is held, not one of a
\* script around it.
THEOREM RowsAlwaysOfNewest ==
  Spec => RowsOfNewest
<1>1. IInv /\ [Next]_vars =>
        [\A p \in Pointers : \A i \in Results(p), j \in Results(p)' :
           mysql_server_results'[j].row # mysql_server_results[i].row =>
             mysql_result[Last(made)] \in {p, NULL}]_vars
  BY StepRows
<1> QED BY <1>1, IInvAlways, PTL DEF Spec, RowsOfNewest
===============================================================================
