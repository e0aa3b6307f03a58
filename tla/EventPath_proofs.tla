--------------------------- MODULE EventPath_proofs ---------------------------
(***************************************************************************)
(* Proofs about EventPath, for all lines, enrichers, timeouts, times to live *)
(* and capacities, whatever the services answer and when, for all filters,    *)
(* patterns and rules, and whatever the strings of an event hold.            *)
(***************************************************************************)
EXTENDS EventPath, Picks_proofs

-----------------------------------------------------------------------------
(* Queues that hold each member of a set once.                             *)

Lists(q, S) ==
  /\ q \in Seq(S)
  /\ \A i, j \in 1 .. Len(q) : q[i] = q[j] => i = j
  /\ \A x \in S : \E i \in 1 .. Len(q) : q[i] = x

\* A sequence is one of anything its elements are in.
LEMMA Retyped ==
  ASSUME NEW S, NEW s \in Seq(S), NEW T, \A i \in 1 .. Len(s) : s[i] \in T
  PROVE  s \in Seq(T)
<1>1. Len(s) \in Nat /\ s = [i \in 1 .. Len(s) |-> s[i]]
  OBVIOUS
<1>2. s \in [1 .. Len(s) -> T]
  BY <1>1
<1>. QED  BY <1>1, <1>2

\* Such a queue is as long as the set is large.
LEMMA ListsCount ==
  ASSUME NEW S, NEW q, Lists(q, S)
  PROVE  IsFiniteSet(S) /\ Cardinality(S) = Len(q) /\ ToSet(q) = S
<1>1. /\ q \in Seq(S) /\ Len(q) \in Nat /\ DOMAIN q = 1 .. Len(q) /\ q \in [1 .. Len(q) -> S]
  BY DEF Lists
<1>2. IsFiniteSet(1 .. Len(q)) /\ Cardinality(1 .. Len(q)) = Len(q)
  <2>1. \A n \in Nat : IsFiniteSet(1 .. n) /\ Cardinality(1 .. n) = n
    <3>. TAKE n \in Nat
    <3>1. IsFiniteSet(1 .. n) /\ Cardinality(1 .. n) = IF 1 > n THEN 0 ELSE n - 1 + 1
      BY FS_Interval
    <3>. QED  BY <3>1
  <2>. QED  BY <1>1, <2>1
<1>3. q \in Bijection(1 .. Len(q), S)
  BY <1>1, Fun_IsBij DEF Lists
<1>4. ExistsBijection(1 .. Len(q), S)
  BY <1>3 DEF ExistsBijection
<1>5. ToSet(q) = S
  BY <1>1 DEF Lists, ToSet
<1>. QED  BY <1>2, <1>4, <1>5, FS_Bijection

\* A new member goes to the end.
LEMMA ListsAppend ==
  ASSUME NEW S, NEW q, NEW x, Lists(q, S), x \notin S
  PROVE  Lists(Append(q, x), S \cup {x}) /\ Len(Append(q, x)) = Len(q) + 1
<1>. PICK T : T = S \cup {x}
  OBVIOUS
<1>. PICK r : r = Append(q, x)
  OBVIOUS
<1>1. q \in Seq(S) /\ q \in Seq(T) /\ x \in T /\ Len(q) \in Nat
  BY DEF Lists
<1>2. /\ r \in Seq(T) /\ Len(r) = Len(q) + 1 /\ r[Len(q) + 1] = x
      /\ \A i \in 1 .. Len(q) : r[i] = q[i]
  BY <1>1, AppendProperties
<1>3. \A i \in 1 .. Len(q) : q[i] \in S
  BY <1>1, ElementOfSeq
<1>4. \A i \in 1 .. Len(r) : (i \in 1 .. Len(q) /\ r[i] = q[i] /\ r[i] # x) \/ (i = Len(q) + 1 /\ r[i] = x)
  BY <1>1, <1>2, <1>3
<1>5. \A i, j \in 1 .. Len(r) : r[i] = r[j] => i = j
  BY <1>4 DEF Lists
<1>6. \A y \in T : \E i \in 1 .. Len(r) : r[i] = y
  <2>1. \A i \in 1 .. Len(q) : i \in 1 .. Len(r)
    BY <1>1, <1>2
  <2>2. Len(q) + 1 \in 1 .. Len(r)
    BY <1>1, <1>2
  <2>. QED  BY <1>2, <2>1, <2>2 DEF Lists
<1>. QED  BY <1>2, <1>5, <1>6 DEF Lists

\* A loop that keeps the members outside of X keeps their order.
LEMMA ListsPicked ==
  ASSUME NEW S, NEW q, NEW X, Lists(q, S), NEW kept, kept = {i \in DOMAIN q : q[i] \notin X}
  PROVE  Lists(Picked(q, kept), S \ X)
<1>. PICK p : p = Picked(q, kept)
  OBVIOUS
<1>1. /\ q \in Seq(S) /\ Len(q) \in Nat /\ DOMAIN q = 1 .. Len(q)
      /\ p \in Seq(S) /\ \E pos : Marks(p, q, kept, Len(q), pos)
  <2>1. q \in Seq(S)
    BY DEF Lists
  <2>2. p \in Seq(S) /\ \E pos : Marks(p, q, kept, Len(q), pos)
    BY <2>1, PickedMarks
  <2>3. Len(q) \in Nat /\ DOMAIN q = 1 .. Len(q)
    BY <2>1
  <2>. QED  BY <2>1, <2>2, <2>3
<1>2. PICK pos : Marks(p, q, kept, Len(q), pos)
  BY <1>1
<1>3. /\ Len(p) \in Nat
      /\ pos \in [1 .. Len(p) -> 1 .. Len(q)]
      /\ \A j \in 1 .. Len(p) : pos[j] \in kept /\ p[j] = q[pos[j]]
      /\ \A j, k \in 1 .. Len(p) : j < k => pos[j] < pos[k]
      /\ \A i \in 1 .. Len(q) : i \in kept => \E j \in 1 .. Len(p) : pos[j] = i
  <2>1. Len(p) \in Nat
    BY <1>1
  <2>. QED  BY <1>2, <2>1 DEF Marks
<1>4. \A j \in 1 .. Len(p) : p[j] \in S \ X
  <2>1. \A i \in 1 .. Len(q) : q[i] \in S
    BY <1>1, ElementOfSeq
  <2>. QED  BY <1>3, <2>1
<1>5. p \in Seq(S \ X)
  BY <1>1, <1>4, Retyped
<1>6. \A i, j \in 1 .. Len(p) : p[i] = p[j] => i = j
  <2>1. \A i, j \in 1 .. Len(p) : p[i] = p[j] => pos[i] = pos[j]
    <3>1. \A k, n \in 1 .. Len(q) : q[k] = q[n] => k = n
      BY DEF Lists
    <3>. QED  BY <1>3, <3>1, SMTT(40)
  <2>2. \A i, j \in 1 .. Len(p) : pos[i] = pos[j] => i = j
    BY <1>1, <1>3
  <2>. QED  BY <2>1, <2>2
<1>7. \A x \in S \ X : \E j \in 1 .. Len(p) : p[j] = x
  <2>. TAKE x \in S \ X
  <2>1. PICK i \in 1 .. Len(q) : q[i] = x
    BY DEF Lists
  <2>2. i \in kept
    BY <1>1, <2>1
  <2>3. PICK j \in 1 .. Len(p) : pos[j] = i
    BY <1>3, <2>2
  <2>4. p[j] = q[pos[j]]
    BY <1>3
  <2>. QED  BY <2>1, <2>3, <2>4
<1>. QED  BY ZenonT(60), <1>5, <1>6, <1>7 DEF Lists

\* A queue cut after its first n: what is behind them holds the other members.
SplitAt(q, S, n) ==
  /\ Len(SubSeq(q, 1, n)) = n
  /\ Lists(SubSeq(q, n + 1, Len(q)), S \ ToSet(SubSeq(q, 1, n)))
  /\ Len(SubSeq(q, n + 1, Len(q))) = Len(q) - n

\* A queue can be cut anywhere.
LEMMA ListsSuffix ==
  ASSUME NEW S, NEW q, Lists(q, S), NEW n \in Nat, n <= Len(q)
  PROVE  SplitAt(q, S, n)
<1>. PICK p : p = SubSeq(q, 1, n)
  OBVIOUS
<1>. PICK r : r = SubSeq(q, n + 1, Len(q))
  OBVIOUS
<1>1. q \in Seq(S) /\ Len(q) \in Nat /\ \A i \in 1 .. Len(q) : q[i] \in S
  BY ElementOfSeq DEF Lists
<1>2. /\ p \in Seq(S) /\ Len(p) = n /\ DOMAIN p = 1 .. n
      /\ \A i \in 1 .. n : p[i] = q[i]
  <2>1. /\ \A i \in 1 .. n : q[i] \in S
        /\ Len(p) = IF 1 <= n THEN n - 1 + 1 ELSE 0
        /\ \A i \in 1 .. n - 1 + 1 : p[i] = q[1 + i - 1]
    <3>1. \A i \in 1 .. n : i \in 1 .. Len(q)
      BY <1>1
    <3>. QED  BY <1>1, <3>1, SubSeqProperties
  <2>2. p \in Seq(S)
    <3>1. \A i \in 1 .. n : i \in 1 .. Len(q)
      BY <1>1
    <3>. QED  BY <1>1, <3>1, SubSeqProperties
  <2>3. Len(p) = n
    BY <2>1
  <2>4. \A i \in 1 .. n : i \in 1 .. n - 1 + 1 /\ 1 + i - 1 = i
    OBVIOUS
  <2>. QED  BY <2>1, <2>2, <2>3, <2>4
<1>3. /\ r \in Seq(S) /\ Len(r) = Len(q) - n
      /\ \A i \in 1 .. Len(q) - n : r[i] = q[n + i]
  <2>1. \A i \in n + 1 .. Len(q) : i \in 1 .. Len(q)
    OBVIOUS
  <2>2. /\ r \in Seq(S)
        /\ Len(r) = IF n + 1 <= Len(q) THEN Len(q) - (n + 1) + 1 ELSE 0
        /\ \A i \in 1 .. Len(q) - (n + 1) + 1 : r[i] = q[n + 1 + i - 1]
    BY <1>1, <2>1, SubSeqProperties
  <2>3. Len(r) = Len(q) - n
    BY <1>1, <2>2
  <2>4. \A i \in 1 .. Len(q) - n : i \in 1 .. Len(q) - (n + 1) + 1 /\ n + 1 + i - 1 = n + i
    BY <1>1
  <2>. QED  BY <2>2, <2>3, <2>4
<1>4. \A i \in 1 .. Len(r) : n + i \in 1 .. Len(q) /\ r[i] = q[n + i] /\ n + i \notin 1 .. n
  BY <1>1, <1>3
<1>. PICK P : P = ToSet(p)
  OBVIOUS
<1>5. \A x : x \in P <=> \E i \in 1 .. n : x = q[i]
  BY <1>2 DEF ToSet
<1>6. \A i \in 1 .. n : i \in 1 .. Len(q)
  BY <1>1
<1>7. \A i \in 1 .. Len(r) : r[i] \in S \ P
  <2>. TAKE i \in 1 .. Len(r)
  <2>1. n + i \in 1 .. Len(q) /\ r[i] = q[n + i] /\ n + i \notin 1 .. n
    BY <1>4
  <2>2. \A j \in 1 .. n : q[n + i] # q[j]
    <3>1. \A j, k \in 1 .. Len(q) : q[j] = q[k] => j = k
      BY DEF Lists
    <3>. QED  BY <1>6, <2>1, <3>1
  <2>. QED  BY <1>1, <1>5, <2>1, <2>2
<1>8. r \in Seq(S \ P)
  BY <1>3, <1>7, Retyped
<1>9. \A i, j \in 1 .. Len(r) : r[i] = r[j] => i = j
  <2>1. \A i, j \in 1 .. Len(r) : r[i] = r[j] => n + i = n + j
    BY <1>4 DEF Lists
  <2>. QED  BY <2>1
<1>10. \A x \in S \ P : \E i \in 1 .. Len(r) : r[i] = x
  <2>. TAKE x \in S \ P
  <2>1. PICK k \in 1 .. Len(q) : q[k] = x
    BY DEF Lists
  <2>2. k \notin 1 .. n
    BY <1>5, <2>1
  <2>3. k - n \in 1 .. Len(r) /\ n + (k - n) = k
    BY <1>1, <1>3, <2>2
  <2>. QED  BY <1>4, <2>1, <2>3
<1>11. Lists(r, S \ P)
  BY <1>8, <1>9, <1>10 DEF Lists
<1>12. Len(p) = n /\ Lists(r, S \ ToSet(p)) /\ Len(r) = Len(q) - n
  BY <1>2, <1>3, <1>11
<1>. QED  BY <1>12 DEF SplitAt

\* remove_lru_key: the member goes, the others stay as they are.
LEMMA ListsRemove ==
  ASSUME NEW S, NEW q, NEW x, Lists(q, S)
  PROVE  Lists(remove_lru_key(q, x), S \ {x})
<1>1. /\ q \in Seq(S) /\ Len(q) \in Nat /\ \A i \in 1 .. Len(q) : q[i] \in S
  BY ElementOfSeq DEF Lists
<1>2. CASE x \notin S
  <2>1. remove_lru_key(q, x) = q
    BY <1>1, <1>2 DEF remove_lru_key, RemoveFirst
  <2>2. S \ {x} = S
    BY <1>2
  <2>. QED  BY <2>1, <2>2
<1>3. CASE x \in S
  <2>1. PICK m \in 1 .. Len(q) : q[m] = x
    BY <1>3 DEF Lists
  <2>2. \A i \in 1 .. Len(q) : q[i] = x <=> i = m
    BY <2>1 DEF Lists
  <2>3. SelectInSeq(q, LAMBDA v : v = x) = m
    <3>1. {i \in 1 .. Len(q) : q[i] = x} = {m}
      BY <2>1, <2>2
    <3>2. {m} # {} /\ Min({m}) = m
      BY <1>1 DEF Min
    <3>. QED  BY <3>1, <3>2 DEF SelectInSeq
  <2>. PICK a : a = SubSeq(q, 1, m - 1)
    OBVIOUS
  <2>. PICK b : b = SubSeq(q, m + 1, Len(q))
    OBVIOUS
  <2>. PICK r : r = a \o b
    OBVIOUS
  <2>4. remove_lru_key(q, x) = r
    BY <2>1, <2>3 DEF remove_lru_key, RemoveFirst, RemoveAt
  <2>. PICK T : T = S \ {x}
    OBVIOUS
  <2>5. /\ a \in Seq(S) /\ Len(a) = m - 1 /\ \A i \in 1 .. m - 1 : a[i] = q[i]
    <3>1. \A i \in 1 .. m - 1 : i \in 1 .. Len(q)
      BY <1>1
    <3>2. /\ a \in Seq(S)
          /\ Len(a) = IF 1 <= m - 1 THEN m - 1 - 1 + 1 ELSE 0
          /\ \A i \in 1 .. m - 1 - 1 + 1 : a[i] = q[1 + i - 1]
      BY <1>1, <3>1, SubSeqProperties
    <3>3. Len(a) = m - 1
      BY <1>1, <3>2
    <3>4. \A i \in 1 .. m - 1 : i \in 1 .. m - 1 - 1 + 1 /\ 1 + i - 1 = i
      OBVIOUS
    <3>. QED  BY <3>2, <3>3, <3>4
  <2>6. /\ b \in Seq(S) /\ Len(b) = Len(q) - m /\ \A i \in 1 .. Len(q) - m : b[i] = q[m + i]
    <3>1. \A i \in m + 1 .. Len(q) : i \in 1 .. Len(q)
      OBVIOUS
    <3>2. /\ b \in Seq(S)
          /\ Len(b) = IF m + 1 <= Len(q) THEN Len(q) - (m + 1) + 1 ELSE 0
          /\ \A i \in 1 .. Len(q) - (m + 1) + 1 : b[i] = q[m + 1 + i - 1]
      BY <1>1, <3>1, SubSeqProperties
    <3>3. Len(b) = Len(q) - m
      BY <1>1, <3>2
    <3>4. \A i \in 1 .. Len(q) - m : i \in 1 .. Len(q) - (m + 1) + 1 /\ m + 1 + i - 1 = m + i
      BY <1>1
    <3>. QED  BY <3>2, <3>3, <3>4
  <2>. DEFINE From(i) == IF i < m THEN i ELSE i + 1
  <2>7. /\ r \in Seq(S) /\ Len(r) = Len(q) - 1
        /\ \A i \in 1 .. Len(q) - 1 : r[i] = q[From(i)]
    <3>1. /\ r \in Seq(S) /\ Len(r) = Len(a) + Len(b)
          /\ \A i \in 1 .. Len(a) + Len(b) : r[i] = IF i <= Len(a) THEN a[i] ELSE b[i - Len(a)]
      <4>1. a \in Seq(S) /\ b \in Seq(S)
        BY <2>5, <2>6
      <4>. QED  BY <4>1, ConcatProperties
    <3>2. Len(a) + Len(b) = Len(q) - 1
      <4>1. \A y, n, k \in Int : y = k - 1 /\ n = Len(q) - k => y + n = Len(q) - 1
        BY <1>1
      <4>2. m \in Int /\ Len(a) \in Int /\ Len(b) \in Int
        BY <1>1, <2>5, <2>6
      <4>3. Len(a) = m - 1 /\ Len(b) = Len(q) - m
        BY <2>5, <2>6
      <4>. QED  BY <4>1, <4>2, <4>3
    <3>3. ASSUME NEW i \in 1 .. Len(q) - 1 PROVE r[i] = q[From(i)]
      <4>1. r[i] = IF i <= Len(a) THEN a[i] ELSE b[i - Len(a)]
        BY <3>1, <3>2
      <4>2. CASE i < m
        <5>1. i <= Len(a) /\ i \in 1 .. m - 1
          BY <1>1, <2>5, <4>2
        <5>. QED  BY <2>5, <4>1, <4>2, <5>1
      <4>3. CASE ~(i < m)
        <5>1. /\ ~(i <= Len(a)) /\ i - Len(a) \in 1 .. Len(q) - m
              /\ m + (i - Len(a)) = i + 1
          BY <1>1, <2>5, <4>3
        <5>2. b[i - Len(a)] = q[m + (i - Len(a))]
          BY <2>6, <5>1
        <5>. QED  BY <4>1, <4>3, <5>1, <5>2
      <4>. QED  BY <4>2, <4>3
    <3>. QED  BY <3>1, <3>2, <3>3
  <2>8. \A i \in 1 .. Len(q) - 1 : From(i) \in 1 .. Len(q) /\ From(i) # m
    BY <1>1
  <2>9. \A i, j \in 1 .. Len(q) - 1 : From(i) = From(j) => i = j
    OBVIOUS
  <2>10. \A k \in 1 .. Len(q) : k # m => \E i \in 1 .. Len(q) - 1 : From(i) = k
    <3> SUFFICES ASSUME NEW k \in 1 .. Len(q), k # m
                 PROVE  \E i \in 1 .. Len(q) - 1 : From(i) = k
      OBVIOUS
    <3>1. CASE k < m
      <4>1. k \in 1 .. Len(q) - 1 /\ From(k) = k
        BY <1>1, <3>1
      <4>. QED  BY <4>1
    <3>2. CASE ~(k < m)
      <4>1. k - 1 \in 1 .. Len(q) - 1 /\ From(k - 1) = k
        BY <1>1, <3>2
      <4>. QED  BY <4>1
    <3>. QED  BY <3>1, <3>2
  <2>. HIDE DEF From
  <2>11. \A i \in 1 .. Len(r) : r[i] \in T
    <3>. SUFFICES ASSUME NEW i \in 1 .. Len(r) PROVE r[i] \in T
      OBVIOUS
    <3>1. i \in 1 .. Len(q) - 1
      BY <2>7
    <3>2. r[i] = q[From(i)] /\ From(i) \in 1 .. Len(q) /\ From(i) # m
      BY <2>7, <2>8, <3>1
    <3>3. q[From(i)] \in S /\ q[From(i)] # x
      BY <1>1, <2>2, <3>2
    <3>. QED  BY <3>2, <3>3
  <2>12. r \in Seq(T)
    BY <2>7, <2>11, Retyped
  <2>13. \A i, j \in 1 .. Len(r) : r[i] = r[j] => i = j
    <3>. SUFFICES ASSUME NEW i \in 1 .. Len(r), NEW j \in 1 .. Len(r), r[i] = r[j] PROVE i = j
      OBVIOUS
    <3>1. \A k, n \in 1 .. Len(q) : q[k] = q[n] => k = n
      BY DEF Lists
    <3>2. i \in 1 .. Len(q) - 1 /\ j \in 1 .. Len(q) - 1
      BY <2>7
    <3>3. From(i) = From(j)
      BY <2>7, <2>8, <3>1, <3>2
    <3>. QED  BY <2>9, <3>2, <3>3
  <2>14. \A y \in T : \E i \in 1 .. Len(r) : r[i] = y
    <3>. TAKE y \in T
    <3>1. PICK k \in 1 .. Len(q) : q[k] = y
      BY DEF Lists
    <3>2. k # m
      BY <2>1, <3>1
    <3>3. PICK i \in 1 .. Len(q) - 1 : From(i) = k
      BY <2>10, <3>2
    <3>. QED  BY <2>7, <3>1, <3>3
  <2>. QED  BY <2>4, <2>12, <2>13, <2>14 DEF Lists
<1>. QED  BY <1>2, <1>3

\* touch: a member goes to the end.
LEMMA ListsTouch ==
  ASSUME NEW S, NEW q, NEW x \in S, Lists(q, S)
  PROVE  Lists(touch(q, x), S)
<1>. PICK r : r = remove_lru_key(q, x)
  OBVIOUS
<1>. PICK T : T = S \ {x}
  OBVIOUS
<1>1. Lists(r, T)
  BY ListsRemove
<1>2. Lists(Append(r, x), T \cup {x})
  BY <1>1, ListsAppend
<1>3. T \cup {x} = S
  OBVIOUS
<1>. QED  BY <1>2, <1>3 DEF touch

\* Of two such queues the one that lists fewer members is no longer.
LEMMA ListsFewer ==
  ASSUME NEW S, NEW T \in SUBSET S, NEW q, NEW r, Lists(q, S), Lists(r, T)
  PROVE  Len(r) <= Len(q)
<1>1. IsFiniteSet(S) /\ Cardinality(S) = Len(q) /\ Cardinality(T) = Len(r)
  BY ListsCount
<1>2. Cardinality(T) <= Cardinality(S)
  BY <1>1, FS_Subset
<1>. QED  BY <1>1, <1>2

-----------------------------------------------------------------------------
(* The cache.                                                              *)

\* The queue lists the keys of the entries, and there are not too many.
InStep(c, capacity) ==
  /\ c = [entries |-> c.entries, lru |-> c.lru]
  /\ Lists(c.lru, DOMAIN c.entries)
  /\ Len(c.lru) <= capacity

\* Every entry of c is one of d's, as it is there.
Remains(c, d) ==
  \A k \in DOMAIN c.entries : k \in DOMAIN d.entries /\ c.entries[k] = d.entries[k]

\* The same for a cache given by its two fields.
LEMMA MakeInStep ==
  ASSUME NEW e, NEW q, NEW capacity, Lists(q, DOMAIN e), Len(q) <= capacity
  PROVE  InStep([entries |-> e, lru |-> q], capacity)
BY DEF InStep

\* Cache::get keeps the two in step, brings nothing in, and answers with an entry
\* of that key that has time left.
LEMMA GetIsTrue ==
  ASSUME NEW c, NEW capacity \in Nat, NEW key, InStep(c, capacity)
  PROVE  /\ InStep(get(c, key).cache, capacity)
         /\ Remains(get(c, key).cache, c)
         /\ get(c, key).hit # << >> =>
              key \in DOMAIN c.entries /\ get(c, key).hit[1] = c.entries[key].labels
<1>. PICK e : e = c.entries
  OBVIOUS
<1>. PICK q : q = c.lru
  OBVIOUS
<1>. PICK D : D = DOMAIN e
  OBVIOUS
<1>1. c = [entries |-> e, lru |-> q] /\ Lists(q, D) /\ Len(q) <= capacity /\ Len(q) \in Nat
  <2>1. c = [entries |-> e, lru |-> q] /\ Lists(q, D) /\ Len(q) <= capacity
    BY DEF InStep
  <2>. QED  BY <2>1 DEF Lists
<1>2. CASE key \notin D
  <2>1. get(c, key) = [cache |-> c, hit |-> << >>]
    BY <1>2 DEF get
  <2>. QED  BY <2>1 DEF Remains
<1>3. CASE key \in D /\ Expired(e[key])
  <2>. PICK w : w = Without(e, {key})
    OBVIOUS
  <2>. PICK r : r = remove_lru_key(q, key)
    OBVIOUS
  <2>1. get(c, key) = [cache |-> [entries |-> w, lru |-> r], hit |-> << >>]
    BY <1>3 DEF get
  <2>2. DOMAIN w = D \ {key} /\ \A k \in D \ {key} : w[k] = e[k]
    BY DEF Without
  <2>3. Lists(r, D \ {key})
    BY <1>1, ListsRemove
  <2>4. Len(r) <= Len(q) /\ Len(r) \in Nat
    <3>1. Len(r) <= Len(q)
      BY <1>1, <2>3, ListsFewer
    <3>. QED  BY <2>3, <3>1 DEF Lists
  <2>5. InStep([entries |-> w, lru |-> r], capacity)
    <3>1. Len(r) <= capacity
      BY <1>1, <2>4
    <3>2. Lists(r, DOMAIN w)
      BY <2>2, <2>3
    <3>. QED  BY <3>1, <3>2, MakeInStep
  <2>6. \A k \in DOMAIN w : k \in DOMAIN c.entries /\ w[k] = c.entries[k]
    BY <2>2
  <2>7. Remains([entries |-> w, lru |-> r], c)
    BY <2>6 DEF Remains
  <2>. QED  BY <2>1, <2>5, <2>7
<1>4. CASE key \in D /\ ~Expired(e[key])
  <2>. PICK r : r = touch(q, key)
    OBVIOUS
  <2>1. get(c, key) = [cache |-> [c EXCEPT !.lru = r], hit |-> <<e[key].labels>>]
    BY <1>4 DEF get
  <2>2. [c EXCEPT !.lru = r] = [entries |-> e, lru |-> r]
    BY <1>1
  <2>3. Lists(r, D)
    BY <1>1, <1>4, ListsTouch
  <2>4. Len(r) <= Len(q) /\ Len(r) \in Nat
    <3>1. Len(r) <= Len(q)
      BY <1>1, <2>3, ListsFewer
    <3>. QED  BY <2>3, <3>1 DEF Lists
  <2>5. InStep([entries |-> e, lru |-> r], capacity)
    <3>1. Len(r) <= capacity
      BY <1>1, <2>4
    <3>. QED  BY <2>3, <3>1, MakeInStep
  <2>. PICK answer : answer = e[key].labels
    OBVIOUS
  <2>6. <<answer>>[1] = answer
    OBVIOUS
  <2>. QED  BY <1>4, <2>1, <2>2, <2>5, <2>6 DEF Remains
<1>. QED  BY <1>2, <1>3, <1>4

\* evict_expired: what is left has time left.
LEMMA EvictIsTrue ==
  ASSUME NEW c, NEW capacity \in Nat, InStep(c, capacity)
  PROVE  InStep(evict_expired(c), capacity) /\ Remains(evict_expired(c), c)
<1>. PICK e : e = c.entries
  OBVIOUS
<1>. PICK q : q = c.lru
  OBVIOUS
<1>. PICK D : D = DOMAIN e
  OBVIOUS
<1>. PICK X : X = {k \in D : Expired(e[k])}
  OBVIOUS
<1>. PICK w : w = Without(e, X)
  OBVIOUS
<1>. PICK kept : kept = {i \in DOMAIN q : q[i] \notin X}
  OBVIOUS
<1>. PICK r : r = Picked(q, kept)
  OBVIOUS
<1>1. Lists(q, D) /\ Len(q) <= capacity /\ Len(q) \in Nat
  <2>1. Lists(q, D) /\ Len(q) <= capacity
    BY DEF InStep
  <2>2. Len(q) \in Nat
    BY <2>1 DEF Lists
  <2>. QED  BY <2>1, <2>2
<1>2. evict_expired(c) = [entries |-> w, lru |-> r]
  BY DEF evict_expired
<1>3. DOMAIN w = D \ X /\ \A k \in D \ X : w[k] = e[k]
  BY DEF Without
<1>4. Lists(r, D \ X)
  BY <1>1, ListsPicked
<1>5. Len(r) <= Len(q) /\ Len(r) \in Nat
  <2>1. Len(r) <= Len(q)
    BY <1>1, <1>4, ListsFewer
  <2>. QED  BY <1>4, <2>1 DEF Lists
<1>6. InStep([entries |-> w, lru |-> r], capacity)
  <2>1. Len(r) <= capacity
    BY <1>1, <1>5
  <2>2. Lists(r, DOMAIN w)
    BY <1>3, <1>4
  <2>. QED  BY <2>1, <2>2, MakeInStep
<1>7. \A k \in DOMAIN w : k \in DOMAIN c.entries /\ w[k] = c.entries[k]
  BY <1>3
<1>8. Remains([entries |-> w, lru |-> r], c)
  BY <1>7 DEF Remains
<1>. QED  BY <1>2, <1>6, <1>8

\* put's loop leaves room for one more.
LEMMA RoomIsMade ==
  ASSUME NEW c, NEW capacity \in Nat \ {0}, InStep(c, capacity)
  PROVE  /\ InStep(MakeRoom(c, capacity), capacity - 1)
         /\ Remains(MakeRoom(c, capacity), c)
<1>. PICK e : e = c.entries
  OBVIOUS
<1>. PICK q : q = c.lru
  OBVIOUS
<1>. PICK D : D = DOMAIN e
  OBVIOUS
<1>1. Lists(q, D) /\ Len(q) <= capacity /\ Len(q) \in Nat /\ Cardinality(D) = Len(q)
  <2>1. Lists(q, D) /\ Len(q) <= capacity
    BY DEF InStep
  <2>2. Cardinality(D) = Len(q)
    BY <2>1, ListsCount
  <2>. QED  BY <2>1, <2>2 DEF Lists
<1>2. CASE Len(q) < capacity
  <2>1. MakeRoom(c, capacity) = c
    BY <1>1, <1>2 DEF MakeRoom
  <2>2. Len(q) <= capacity - 1
    BY <1>1, <1>2
  <2>. QED  BY <2>1, <2>2 DEF InStep, Remains
<1>3. CASE ~(Len(q) < capacity)
  <2>. PICK n : n = Len(q) + 1 - capacity
    OBVIOUS
  <2>1. n \in Nat /\ n <= Len(q) /\ Len(q) - n = capacity - 1
    BY <1>1, <1>3
  <2>. PICK gone : gone = SubSeq(q, 1, n)
    OBVIOUS
  <2>. PICK r : r = SubSeq(q, n + 1, Len(q))
    OBVIOUS
  <2>. PICK G : G = ToSet(gone)
    OBVIOUS
  <2>2. Len(gone) = n /\ Lists(r, D \ G) /\ Len(r) = Len(q) - n
    <3>1. Lists(q, D) /\ n \in Nat /\ n <= Len(q)
      BY <1>1, <2>1
    <3>2. SplitAt(q, D, n)
      BY <3>1, ListsSuffix
    <3>. QED  BY <3>2 DEF SplitAt
  <2>. PICK w : w = Without(e, G)
    OBVIOUS
  <2>3. MakeRoom(c, capacity) = [entries |-> w, lru |-> SubSeq(q, Len(gone) + 1, Len(q))]
    BY <1>1, <1>3 DEF MakeRoom
  <2>4. MakeRoom(c, capacity) = [entries |-> w, lru |-> r]
    BY <2>2, <2>3
  <2>5. DOMAIN w = D \ G /\ \A k \in D \ G : w[k] = e[k]
    BY DEF Without
  <2>6. InStep([entries |-> w, lru |-> r], capacity - 1)
    <3>1. Len(r) <= capacity - 1
      BY <1>1, <2>1, <2>2
    <3>2. Lists(r, DOMAIN w)
      BY <2>2, <2>5
    <3>. QED  BY <3>1, <3>2, MakeInStep
  <2>. QED  BY <2>4, <2>5, <2>6 DEF Remains
<1>. QED  BY <1>2, <1>3

\* Cache::put keeps the two in step and within the capacity; what it brings in is
\* the answer, under its key, with all of its time to live.
LEMMA PutIsTrue ==
  ASSUME NEW c, NEW capacity \in Nat, NEW key, NEW answer, NEW ttl, InStep(c, capacity)
  PROVE  /\ InStep(put(c, key, answer, ttl, capacity), capacity)
         /\ \A k \in DOMAIN put(c, key, answer, ttl, capacity).entries :
              \/ /\ k = key
                 /\ put(c, key, answer, ttl, capacity).entries[k] = [labels |-> answer, left |-> ttl]
              \/ /\ k \in DOMAIN c.entries
                 /\ put(c, key, answer, ttl, capacity).entries[k] = c.entries[k]
<1>. PICK p : p = put(c, key, answer, ttl, capacity)
  OBVIOUS
<1>. PICK fresh : fresh = evict_expired(c)
  OBVIOUS
<1>. PICK entry : entry = [labels |-> answer, left |-> ttl]
  OBVIOUS
<1>. PICK roomy : roomy = MakeRoom(fresh, capacity)
  OBVIOUS
<1>1. InStep(fresh, capacity) /\ Remains(fresh, c)
  BY EvictIsTrue
<1>2. CASE capacity = 0
  <2>1. p = c
    BY <1>2 DEF put
  <2>. QED  BY <2>1
<1>3. CASE capacity # 0 /\ key \in DOMAIN fresh.entries
  <2>. PICK e : e = fresh.entries
    OBVIOUS
  <2>. PICK new : new = [e EXCEPT ![key] = entry]
    OBVIOUS
  <2>. PICK r : r = touch(fresh.lru, key)
    OBVIOUS
  <2>1. p = [entries |-> new, lru |-> r]
    BY <1>3 DEF put
  <2>2. DOMAIN new = DOMAIN e /\ \A k \in DOMAIN e : new[k] = IF k = key THEN entry ELSE e[k]
    OBVIOUS
  <2>3. Lists(fresh.lru, DOMAIN e) /\ Len(fresh.lru) <= capacity
    BY <1>1 DEF InStep
  <2>4. Lists(r, DOMAIN e)
    BY <1>3, <2>3, ListsTouch
  <2>5. Len(r) <= Len(fresh.lru)
    BY <2>3, <2>4, ListsFewer
  <2>6. Len(r) \in Nat /\ Len(fresh.lru) \in Nat
    BY <2>3, <2>4 DEF Lists
  <2>7. InStep([entries |-> new, lru |-> r], capacity)
    <3>1. Len(r) <= capacity
      BY <2>3, <2>5, <2>6
    <3>2. Lists(r, DOMAIN new)
      BY <2>2, <2>4
    <3>. QED  BY <3>1, <3>2, MakeInStep
  <2>. QED  BY <1>1, <2>1, <2>2, <2>7 DEF Remains
<1>4. CASE capacity # 0 /\ key \notin DOMAIN fresh.entries
  <2>. PICK e : e = roomy.entries
    OBVIOUS
  <2>. PICK D : D = DOMAIN e
    OBVIOUS
  <2>. PICK new : new = [k \in D \cup {key} |-> IF k = key THEN entry ELSE e[k]]
    OBVIOUS
  <2>. PICK q : q = roomy.lru
    OBVIOUS
  <2>. PICK r : r = Append(q, key)
    OBVIOUS
  <2>1. p = [entries |-> new, lru |-> r]
    BY <1>4 DEF put
  <2>2. InStep(roomy, capacity - 1) /\ Remains(roomy, fresh)
    BY <1>1, <1>4, RoomIsMade
  <2>3. Lists(q, D) /\ Len(q) <= capacity - 1
    BY <2>2 DEF InStep
  <2>4. key \notin D
    BY <1>4, <2>2 DEF Remains
  <2>5. Lists(r, D \cup {key}) /\ Len(r) = Len(q) + 1
    BY <2>3, <2>4, ListsAppend
  <2>6. DOMAIN new = D \cup {key} /\ \A k \in D \cup {key} : new[k] = IF k = key THEN entry ELSE e[k]
    OBVIOUS
  <2>7. InStep([entries |-> new, lru |-> r], capacity)
    <3>1. Len(q) \in Nat
      BY <2>3 DEF Lists
    <3>2. Len(r) <= capacity
      BY <2>3, <2>5, <3>1
    <3>3. Lists(r, DOMAIN new)
      BY <2>5, <2>6
    <3>. QED  BY <3>2, <3>3, MakeInStep
  <2>8. \A k \in D : k \in DOMAIN c.entries /\ e[k] = c.entries[k]
    BY <1>1, <2>2 DEF Remains
  <2>. QED  BY <2>1, <2>6, <2>7, <2>8
<1>. QED  BY <1>2, <1>3, <1>4

\* A moment that passes takes time from the entries and nothing else.
LEMMA AgedIsTrue ==
  ASSUME NEW c, NEW capacity, InStep(c, capacity)
  PROVE  /\ InStep(Aged(c), capacity)
         /\ DOMAIN Aged(c).entries = DOMAIN c.entries
         /\ \A k \in DOMAIN c.entries :
              Aged(c).entries[k] = [c.entries[k] EXCEPT !.left = IF @ = 0 THEN 0 ELSE @ - 1]
<1>. PICK e : e = c.entries
  OBVIOUS
<1>. PICK new : new = [k \in DOMAIN e |-> [e[k] EXCEPT !.left = IF @ = 0 THEN 0 ELSE @ - 1]]
  OBVIOUS
<1>1. c = [entries |-> e, lru |-> c.lru] /\ Lists(c.lru, DOMAIN e) /\ Len(c.lru) <= capacity
  BY DEF InStep
<1>2. Aged(c) = [c EXCEPT !.entries = new]
  BY DEF Aged
<1>3. Aged(c) = [entries |-> new, lru |-> c.lru]
  BY <1>1, <1>2
<1>4. DOMAIN new = DOMAIN e
  OBVIOUS
<1>5. InStep([entries |-> new, lru |-> c.lru], capacity)
  BY <1>1, <1>4, MakeInStep
<1>. QED  BY <1>3, <1>4, <1>5

-----------------------------------------------------------------------------
(* The URL a value is looked up with, and the server's side of it.         *)

\* A gluing of pieces, the one before at each of them.
Glued(f, s) == f = [i \in 1 .. Len(s) |-> IF i = 1 THEN s[i] ELSE f[i - 1] \o s[i]]

\* Three pieces, one behind the other.
LEMMA FlattenThree ==
  ASSUME NEW s, Len(s) = 3
  PROVE  FlattenSeq(s) = (s[1] \o s[2]) \o s[3]
<1>. PICK a : a = s[1]
  OBVIOUS
<1>. PICK b : b = s[2]
  OBVIOUS
<1>. PICK c : c = s[3]
  OBVIOUS
<1>1. Len(s) = 3 /\ s[1] = a /\ s[2] = b /\ s[3] = c
  OBVIOUS
<1>. DEFINE g == [i \in 1 .. 3 |-> IF i = 1 THEN a ELSE IF i = 2 THEN a \o b ELSE (a \o b) \o c]
<1>2. Glued(g, s)
  <2>1. g[1] = a /\ g[2] = a \o b /\ g[3] = (a \o b) \o c
    OBVIOUS
  <2>2. \A i \in 1 .. 3 : i = 1 \/ i = 2 \/ i = 3
    OBVIOUS
  <2>3. \A i \in 1 .. 3 : g[i] = IF i = 1 THEN s[i] ELSE g[i - 1] \o s[i]
    BY <1>1, <2>1, <2>2
  <2>4. g = [i \in 1 .. 3 |-> IF i = 1 THEN s[i] ELSE g[i - 1] \o s[i]]
    BY <2>3
  <2>. QED  BY <1>1, <2>4 DEF Glued
<1>3. Glued(CHOOSE f : Glued(f, s), s)
  BY <1>2
<1>4. PICK f : f = CHOOSE h : Glued(h, s)
  OBVIOUS
<1>5. FlattenSeq(s) = f[3]
  BY <1>1, <1>4 DEF FlattenSeq, Glued
<1>6. f = [i \in 1 .. 3 |-> IF i = 1 THEN s[i] ELSE f[i - 1] \o s[i]]
  BY <1>1, <1>3, <1>4 DEF Glued
<1>7. \A i \in 1 .. 3 : f[i] = IF i = 1 THEN s[i] ELSE f[i - 1] \o s[i]
  BY <1>6
<1>8. f[1] = a /\ f[2] = f[1] \o b /\ f[3] = f[2] \o c
  <2>1. f[1] = s[1]
    BY <1>7
  <2>2. f[2] = f[1] \o s[2]
    <3>1. 2 \in 1 .. 3 /\ 2 # 1 /\ 2 - 1 = 1
      OBVIOUS
    <3>. QED  BY <1>7, <3>1
  <2>3. f[3] = f[2] \o s[3]
    <3>1. 3 \in 1 .. 3 /\ 3 # 1 /\ 3 - 1 = 2
      OBVIOUS
    <3>. QED  BY <1>7, <3>1
  <2>. QED  BY <1>1, <2>1, <2>2, <2>3
<1>. QED  BY <1>5, <1>8

\* percent_encode, of a character and of a text.
Encoded(c) == IF c \in DOMAIN UrlValueEncode THEN UrlValueEncode[c] ELSE c
EncodedText(value) == [j \in DOMAIN value |-> Encoded(value[j])]

\* And what a server makes of it.
Decoded(c) == CASE c = "%3F" -> "?" [] c = "%2F" -> "/" [] c = "%25" -> "%" [] c = "%2E" -> "."
                [] OTHER -> c

\* An encoded character means nothing in a URL, and is decoded to what it was.
LEMMA EncodingIsUndone ==
  ASSUME NEW c \in Char
  PROVE  Encoded(c) # "/" /\ Encoded(c) # "?" /\ Decoded(Encoded(c)) = c
<1>1. c # "%3F" /\ c # "%2F" /\ c # "%25" /\ c # "%2E"
  BY EnrichersAssumption
<1>2. CASE c = "?"
  BY <1>2 DEF Encoded, Decoded, UrlValueEncode
<1>3. CASE c = "/"
  BY <1>3 DEF Encoded, Decoded, UrlValueEncode
<1>4. CASE c = "%"
  BY <1>4 DEF Encoded, Decoded, UrlValueEncode
<1>5. CASE c = "."
  BY <1>5 DEF Encoded, Decoded, UrlValueEncode
<1>6. CASE c # "?" /\ c # "/" /\ c # "%" /\ c # "."
  <2>1. Encoded(c) = c
    BY <1>6 DEF Encoded, UrlValueEncode
  <2>. QED  BY <1>1, <1>6, <2>1 DEF Decoded
<1>. QED  BY <1>2, <1>3, <1>4, <1>5, <1>6

\* The place of the value in a template.
Slot(c) == c = "{value}"

\* build_enrich_url puts the encoded value behind the address.
LEMMA UrlIs ==
  ASSUME NEW value
  PROVE  build_enrich_url(Template, value) = (<<"service">> \o <<"/">>) \o EncodedText(value)
<1>. PICK enc : enc = EncodedText(value)
  OBVIOUS
<1>1. /\ DOMAIN Template = 1 .. 3 /\ Template[1] = "service" /\ Template[2] = "/"
      /\ Slot(Template[3]) /\ ~Slot("service") /\ ~Slot("/")
  BY DEF Template, Slot
<1>. PICK pieces : pieces = [i \in 1 .. 3 |-> IF Slot(Template[i]) THEN enc ELSE <<Template[i]>>]
  OBVIOUS
<1>2. build_enrich_url(Template, value) = FlattenSeq(pieces)
  BY <1>1 DEF build_enrich_url, EncodedText, Encoded, Slot
<1>3. Len(pieces) = 3
  OBVIOUS
<1>4. \A i \in 1 .. 3 : pieces[i] = IF Slot(Template[i]) THEN enc ELSE <<Template[i]>>
  OBVIOUS
<1>5. pieces[1] = <<"service">> /\ pieces[2] = <<"/">> /\ pieces[3] = enc
  BY <1>1, <1>4
<1>6. FlattenSeq(pieces) = (pieces[1] \o pieces[2]) \o pieces[3]
  BY <1>3, FlattenThree
<1>. QED  BY <1>2, <1>5, <1>6

\* Three pieces behind each other: the place of every character.
LEMMA UrlParts ==
  ASSUME NEW T, NEW a \in T, NEW b \in T, NEW t \in Seq(T), NEW u, u = (<<a>> \o <<b>>) \o t
  PROVE  /\ u \in Seq(T) /\ Len(u) = Len(t) + 2 /\ u[1] = a /\ u[2] = b
         /\ \A j \in 1 .. Len(t) : u[j + 2] = t[j]
<1>. PICK h : h = <<a>> \o <<b>>
  OBVIOUS
<1>1. h \in Seq(T) /\ Len(h) = 2 /\ h[1] = a /\ h[2] = b
  <2>. PICK p : p = <<a>>
    OBVIOUS
  <2>. PICK q : q = <<b>>
    OBVIOUS
  <2>1. p \in Seq(T) /\ Len(p) = 1 /\ p[1] = a /\ q \in Seq(T) /\ Len(q) = 1 /\ q[1] = b
    OBVIOUS
  <2>2. /\ h \in Seq(T) /\ Len(h) = Len(p) + Len(q)
        /\ \A i \in 1 .. Len(p) + Len(q) : h[i] = IF i <= Len(p) THEN p[i] ELSE q[i - Len(p)]
    BY <2>1, ConcatProperties
  <2>3. 1 \in 1 .. 1 + 1 /\ 1 <= 1 /\ 2 \in 1 .. 1 + 1 /\ ~(2 <= 1) /\ 2 - 1 = 1 /\ 1 + 1 = 2
    OBVIOUS
  <2>. QED  BY <2>1, <2>2, <2>3
<1>2. u = h \o t
  OBVIOUS
<1>3. u \in Seq(T) /\ Len(u) = Len(h) + Len(t) /\ Len(t) \in Nat
      /\ \A i \in 1 .. Len(h) + Len(t) : u[i] = IF i <= Len(h) THEN h[i] ELSE t[i - Len(h)]
  BY <1>1, <1>2, ConcatProperties
<1>4. Len(u) = Len(t) + 2
  BY <1>1, <1>3
<1>5. 1 \in 1 .. Len(h) + Len(t) /\ 2 \in 1 .. Len(h) + Len(t) /\ 1 <= Len(h) /\ 2 <= Len(h)
  BY <1>1, <1>3
<1>6. u[1] = a /\ u[2] = b
  BY <1>1, <1>3, <1>5
<1>7. \A j \in 1 .. Len(t) : u[j + 2] = t[j]
  <2>. TAKE j \in 1 .. Len(t)
  <2>1. j + 2 \in 1 .. Len(h) + Len(t) /\ ~(j + 2 <= Len(h)) /\ j + 2 - Len(h) = j
    BY <1>1, <1>3
  <2>. QED  BY <1>3, <2>1
<1>. QED  BY <1>3, <1>4, <1>6, <1>7

\* A service that is asked about a text answers about that text.
LEMMA AskedAboutTheValue ==
  ASSUME NEW value \in Seq(Char)
  PROVE  Resource(build_enrich_url(Template, value)) = value
<1>. PICK enc : enc = EncodedText(value)
  OBVIOUS
<1>. PICK u : u = (<<"service">> \o <<"/">>) \o enc
  OBVIOUS
<1>. PICK n : n = Len(value)
  OBVIOUS
<1>1. n \in Nat /\ DOMAIN value = 1 .. n /\ \A j \in 1 .. n : value[j] \in Char
  BY ElementOfSeq
<1>2. /\ DOMAIN enc = 1 .. n /\ Len(enc) = n
      /\ \A j \in 1 .. n : enc[j] = Encoded(value[j])
  BY <1>1 DEF EncodedText
<1>3. \A j \in 1 .. n : enc[j] # "/" /\ enc[j] # "?" /\ Decoded(enc[j]) = value[j]
  <2>1. \A c \in Char : Encoded(c) # "/" /\ Encoded(c) # "?" /\ Decoded(Encoded(c)) = c
    BY EncodingIsUndone
  <2>. QED  BY <1>1, <1>2, <2>1
<1>. PICK T : T = {enc[j] : j \in 1 .. n} \cup {"service", "/"}
  OBVIOUS
<1>4. enc \in Seq(T)
  <2>1. \A j \in 1 .. n : enc[j] \in T
    OBVIOUS
  <2>2. enc = [j \in 1 .. n |-> enc[j]]
    BY <1>1 DEF EncodedText
  <2>. QED  BY <1>1, <2>1, <2>2
<1>5. /\ u \in Seq(T) /\ Len(u) = n + 2 /\ u[1] = "service" /\ u[2] = "/"
      /\ \A j \in 1 .. n : u[j + 2] = enc[j]
  <2>1. "service" \in T /\ "/" \in T
    OBVIOUS
  <2>. QED  BY <1>2, <1>4, <2>1, UrlParts
<1>. PICK I : I = {i \in 1 .. Len(u) : u[i] = "/"}
  OBVIOUS
<1>6. I = {2}
  <2>1. 2 \in I
    BY <1>1, <1>5
  <2>2. \A i \in 1 .. n + 2 : i = 1 \/ i = 2 \/ (i - 2 \in 1 .. n /\ (i - 2) + 2 = i)
    BY <1>1
  <2>3. \A i \in 1 .. n + 2 : u[i] = "/" => i = 2
    BY <1>3, <1>5, <2>2
  <2>. QED  BY <1>5, <2>1, <2>3
<1>7. Max(I) = 2 /\ I # {}
  BY <1>6 DEF Max
<1>. PICK J : J = {i \in 1 .. Len(enc) : enc[i] = "?"}
  OBVIOUS
<1>8. J = {}
  BY <1>2, <1>3
<1>9. SubSeq(u, 2 + 1, Len(u)) = enc
  <2>. PICK r : r = SubSeq(u, 3, n + 2)
    OBVIOUS
  <2>1. \A i \in 3 .. n + 2 : i \in 1 .. Len(u) /\ u[i] \in T
    BY <1>1, <1>5, ElementOfSeq
  <2>2. /\ r \in Seq(T)
        /\ Len(r) = IF 3 <= n + 2 THEN n + 2 - 3 + 1 ELSE 0
        /\ \A i \in 1 .. n + 2 - 3 + 1 : r[i] = u[3 + i - 1]
    BY <1>1, <2>1, SubSeqProperties
  <2>3. Len(r) = n
    BY <1>1, <2>2
  <2>4. \A i \in 1 .. n : i \in 1 .. n + 2 - 3 + 1 /\ 3 + i - 1 = i + 2
    BY <1>1
  <2>5. \A i \in 1 .. n : r[i] = enc[i]
    BY <1>5, <2>2, <2>4
  <2>6. r = enc
    BY <1>2, <1>4, <2>2, <2>3, <2>5, SeqEqual
  <2>. QED  BY <1>5, <2>6
<1>10. Resource(u) = [i \in DOMAIN enc |-> Decoded(enc[i])]
  <2>1. SelectLastInSeq(u, LAMBDA c : c = "/") = 2
    BY <1>7 DEF SelectLastInSeq
  <2>2. SelectInSeq(enc, LAMBDA c : c = "?") = 0
    BY <1>8 DEF SelectInSeq
  <2>3. SelectInSeq(SubSeq(u, 2 + 1, Len(u)), LAMBDA c : c = "?") = 0
    BY <1>9, <2>2
  <2>. QED  BY <1>9, <2>1, <2>3 DEF Resource, Decoded
<1>11. value = [i \in 1 .. n |-> value[i]]
  BY <1>1
<1>12. Resource(u) = value
  BY <1>2, <1>3, <1>10, <1>11
<1>. QED  BY <1>12, UrlIs

-----------------------------------------------------------------------------
(* The inductive invariant.                                                *)

\* Labels and their texts.
Texts(f) == \A k \in DOMAIN f : f[k] \in Seq(Char)

\* An entry of the cache of the i-th enricher, with the services at version n and
\* the older versions replaced as long ago as ret says.
EntryOK(i, k, e, n, ret) ==
  /\ k \in Seq(Char)
  /\ \E v \in 0 .. n, l \in 0 .. Enrichers[i].ttl :
       /\ e = [labels |-> [resource |-> k, version |-> v], left |-> l]
       /\ l # 0 /\ v < n => ret[v] + l <= Enrichers[i].ttl + Enrichers[i].timeout

CacheOK(i, c, n, ret) ==
  /\ InStep(c, Enrichers[i].capacity)
  /\ \A k \in DOMAIN c.entries : EntryOK(i, k, c.entries[k], n, ret)

\* The answer of a service to a question about a text, the call's phase having
\* begun `since` ago.
AnswerOK(answer, text, since, n, ret) ==
  \E v \in 0 .. n : /\ answer = <<[resource |-> text, version |-> v]>>
                    /\ v < n => ret[v] <= since

\* A call of the i-th enricher.
CallOK(c, i, ls, n, ret) ==
  /\ i \in Http
  /\ c = [phase |-> c.phase, age |-> c.age, since |-> c.since, answer |-> c.answer]
  /\ c.age \in Nat /\ c.since \in Nat /\ c.since <= c.age
  /\ c.age <= Enrichers[i].timeout /\ c.age <= OuterTimeout
  /\ Enrichers[i].onLabel \in DOMAIN ls
  /\ \/ c.phase = "send" /\ c.answer = << >>
     \/ c.phase = "body" /\ AnswerOK(c.answer, ls[Enrichers[i].onLabel], c.since, n, ret)

\* For every older version, the time since it was replaced.
Replaced(n, ret) == DOMAIN ret = 0 .. n - 1 /\ \A v \in 0 .. n - 1 : ret[v] \in Nat

\* The labels an event was written with, among others.
Carries(ls, event) ==
  \A k \in DOMAIN event.labels :
    event.labels[k] # << >> => k \in DOMAIN ls /\ ls[k] = event.labels[k][1]

\* The inductive invariant, in its parts.
ShapeInv   == /\ world \in Worlds /\ at \in 0 .. Len(Enrichers) + 1
              /\ at = 0 => labels = << >>
              /\ out # << >> => at = 0
              /\ Texts(labels)
DataInv    == version \in Nat /\ version < world.versions /\ Replaced(version, retired)
CallInv    == call = NoCall \/ CallOK(call, at, labels, version, retired)
CacheInv   == DOMAIN caches = Http /\ \A i \in Http : CacheOK(i, caches[i], version, retired)
CarriesInv == /\ at # 0 => Carries(labels, parsed[1].event)
              /\ out # << >> => Carries(out[1].labels, parsed[1].event)

PathInv == ShapeInv /\ DataInv /\ CallInv /\ CacheInv /\ CarriesInv

\* What is assumed of an enricher with a cache.
LEMMA HttpIs ==
  ASSUME NEW i \in Http
  PROVE  /\ i \in DOMAIN Enrichers /\ i \in 1 .. Len(Enrichers)
         /\ Enrichers[i].timeout \in Nat /\ Enrichers[i].ttl \in Nat
         /\ Enrichers[i].capacity \in Nat
<1>1. Enrichers \in Seq(ToSet(Enrichers)) /\ i \in DOMAIN Enrichers /\ Enrichers[i].kind = "http"
  BY EnrichersAssumption DEF Http
<1>2. i \in 1 .. Len(Enrichers) /\ Enrichers[i] \in ToSet(Enrichers)
  BY <1>1 DEF ToSet
<1>. QED  BY <1>1, <1>2, EnrichersAssumption

\* And of one with a table.
LEMMA TableIs ==
  ASSUME NEW i \in DOMAIN Enrichers, Enrichers[i].kind = "lookup", NEW v \in DOMAIN Enrichers[i].table
  PROVE  Texts(Enrichers[i].table[v])
<1>1. Enrichers[i] \in ToSet(Enrichers)
  BY DEF ToSet
<1>. QED  BY <1>1, EnrichersAssumption DEF Texts

\* The document a text stands for is one of those it was written with.
LEMMA JsonParseIs ==
  ASSUME NEW s, NEW documents, JsonParse(s, documents) # << >>
  PROVE  JsonParse(s, documents)[1] \in documents
<1>. PICK read : read = {doc \in documents : Json(doc) = s}
  OBVIOUS
<1>1. JsonParse(s, documents) = IF read = {} THEN << >> ELSE <<CHOOSE doc \in read : TRUE>>
  BY DEF JsonParse
<1>2. read # {}
  BY <1>1
<1>. PICK d : d = CHOOSE doc \in read : TRUE
  OBVIOUS
<1>3. d \in read
  BY <1>2
<1>4. JsonParse(s, documents) = <<d>>
  BY <1>1, <1>2
<1>5. <<d>>[1] = d
  OBVIOUS
<1>. QED  BY <1>3, <1>4, <1>5

\* parse_line takes its event from the line.
LEMMA EventIsWritten ==
  ASSUME NEW l, parse_line(l) # << >>
  PROVE  parse_line(l)[1].event \in l.documents
<1>. PICK stripped : stripped = strip_ansi(l.text)
  OBVIOUS
<1>. PICK object : object = find_json_object(stripped)
  OBVIOUS
<1>. PICK doc : doc = JsonParse(object[1], l.documents)
  OBVIOUS
<1>. PICK source : source = extract_traefik_enrichment(stripped)
  OBVIOUS
<1>1. doc # << >> /\ parse_line(l) = <<[event |-> doc[1], source |-> source]>>
  BY DEF parse_line
<1>2. doc[1] \in l.documents
  BY <1>1, JsonParseIs
<1>. PICK r : r = [event |-> doc[1], source |-> source]
  OBVIOUS
<1>3. <<r>>[1] = r /\ r.event = doc[1]
  OBVIOUS
<1>. QED  BY <1>1, <1>2, <1>3

-----------------------------------------------------------------------------
(* Every step preserves it.                                                *)

\* merge_in_place adds texts to texts, and changes none.
LEMMA MergeIsTrue ==
  ASSUME NEW mine, NEW extra, Texts(mine), Texts(extra)
  PROVE  /\ Texts(merge_in_place(mine, extra))
         /\ \A k \in DOMAIN mine : /\ k \in DOMAIN merge_in_place(mine, extra)
                                   /\ merge_in_place(mine, extra)[k] = mine[k]
BY DEF merge_in_place, Texts

\* No labels are texts.
LEMMA NoTexts == Texts(<< >>)
BY DEF Texts

\* A service's labels are texts.
LEMMA AnswersAreTexts ==
  ASSUME NEW i, NEW answer, answer.resource \in Seq(Char), Digits(answer.version) \in Char
  PROVE  Texts(AnswerLabels(i, answer))
<1>1. Append(answer.resource, Digits(answer.version)) \in Seq(Char)
  BY AppendProperties
<1>2. <<"canonical">> \in Seq(Char)
  BY EnrichersAssumption
<1>. QED  BY <1>1, <1>2 DEF AnswerLabels, Texts

\* The versions that a service can answer from have digits.
LEMMA VersionsHaveDigits ==
  ASSUME DataInv, world \in Worlds, NEW v \in 0 .. version
  PROVE  Digits(v) \in Char
<1>1. version \in Nat /\ version < world.versions /\ world.versions \in Nat
  BY WorldsAssumption DEF DataInv
<1>2. v \in 0 .. world.versions
  BY <1>1
<1>. QED  BY <1>2, WorldsAssumption

\* What is read from a cache: the cache as it is then, and an answer if it has one.
ReadOK(i, read, key, n, ret) ==
  /\ CacheOK(i, read.cache, n, ret)
  /\ read.hit # << >> => \E v \in 0 .. n : read.hit[1] = [resource |-> key, version |-> v]

\* A cache in order answers from its entries, and stays in order.
LEMMA GetKeeps ==
  ASSUME NEW i \in Http, NEW c, NEW n, NEW ret, NEW key, CacheOK(i, c, n, ret)
  PROVE  ReadOK(i, get(c, key), key, n, ret)
<1>. PICK p : p = get(c, key)
  OBVIOUS
<1>1. InStep(c, Enrichers[i].capacity) /\ Enrichers[i].capacity \in Nat
  BY HttpIs DEF CacheOK
<1>2. /\ InStep(p.cache, Enrichers[i].capacity) /\ Remains(p.cache, c)
      /\ p.hit # << >> => key \in DOMAIN c.entries /\ p.hit[1] = c.entries[key].labels
  BY <1>1, GetIsTrue
<1>3. \A k \in DOMAIN p.cache.entries : k \in DOMAIN c.entries /\ p.cache.entries[k] = c.entries[k]
  BY <1>2 DEF Remains
<1>4. CacheOK(i, p.cache, n, ret)
  BY <1>2, <1>3 DEF CacheOK
<1>5. ASSUME p.hit # << >> PROVE \E v \in 0 .. n : p.hit[1] = [resource |-> key, version |-> v]
  <2>1. EntryOK(i, key, c.entries[key], n, ret)
    BY <1>2, <1>5 DEF CacheOK
  <2>. QED  BY <1>2, <1>5, <2>1 DEF EntryOK
<1>. QED  BY <1>4, <1>5 DEF ReadOK

\* What is put into it is an answer about the key, out of date by no more than the
\* call took.
LEMMA PutKeeps ==
  ASSUME NEW i \in Http, NEW c, NEW n \in Nat, NEW ret, Replaced(n, ret), CacheOK(i, c, n, ret),
         NEW key \in Seq(Char), NEW v \in 0 .. n, v < n => ret[v] <= Enrichers[i].timeout
  PROVE  CacheOK(i, put(c, key, [resource |-> key, version |-> v], Enrichers[i].ttl,
                        Enrichers[i].capacity), n, ret)
<1>. PICK ttl : ttl = Enrichers[i].ttl
  OBVIOUS
<1>. PICK capacity : capacity = Enrichers[i].capacity
  OBVIOUS
<1>. PICK answer : answer = [resource |-> key, version |-> v]
  OBVIOUS
<1>. PICK p : p = put(c, key, answer, ttl, capacity)
  OBVIOUS
<1>1. ttl \in Nat /\ capacity \in Nat /\ Enrichers[i].timeout \in Nat
  BY HttpIs
<1>2. InStep(c, capacity)
  BY DEF CacheOK
<1>3. /\ InStep(p, capacity)
      /\ \A k \in DOMAIN p.entries :
           \/ k = key /\ p.entries[k] = [labels |-> answer, left |-> ttl]
           \/ k \in DOMAIN c.entries /\ p.entries[k] = c.entries[k]
  BY <1>1, <1>2, PutIsTrue
<1>4. EntryOK(i, key, [labels |-> answer, left |-> ttl], n, ret)
  <2>1. ttl \in 0 .. ttl
    BY <1>1
  <2>2. v < n => ret[v] + ttl <= ttl + Enrichers[i].timeout
    <3>. SUFFICES ASSUME v < n PROVE ret[v] + ttl <= ttl + Enrichers[i].timeout
      OBVIOUS
    <3>1. v \in 0 .. n - 1
      OBVIOUS
    <3>2. ret[v] \in Nat /\ ret[v] <= Enrichers[i].timeout
      BY <3>1 DEF Replaced
    <3>. QED  BY <1>1, <3>2
  <2>. QED  BY <2>1, <2>2 DEF EntryOK
<1>5. \A k \in DOMAIN p.entries : EntryOK(i, k, p.entries[k], n, ret)
  BY <1>3, <1>4 DEF CacheOK
<1>. QED  BY <1>3, <1>5 DEF CacheOK

\* A moment that passes keeps a cache in order: what an entry loses of its time, its
\* data gains in age.
LEMMA AgingKeeps ==
  ASSUME NEW i \in Http, NEW c, NEW n \in Nat, NEW ret, NEW older,
         Replaced(n, ret), Replaced(n, older), \A v \in 0 .. n - 1 : older[v] <= ret[v] + 1,
         CacheOK(i, c, n, ret)
  PROVE  CacheOK(i, Aged(c), n, older)
<1>. PICK capacity : capacity = Enrichers[i].capacity
  OBVIOUS
<1>. PICK limit : limit = Enrichers[i].ttl + Enrichers[i].timeout
  OBVIOUS
<1>. PICK a : a = Aged(c)
  OBVIOUS
<1>1. capacity \in Nat /\ limit \in Nat /\ Enrichers[i].ttl \in Nat
  BY HttpIs
<1>2. InStep(c, capacity)
  BY DEF CacheOK
<1>3. /\ InStep(a, capacity)
      /\ DOMAIN a.entries = DOMAIN c.entries
      /\ \A k \in DOMAIN c.entries :
           a.entries[k] = [c.entries[k] EXCEPT !.left = IF @ = 0 THEN 0 ELSE @ - 1]
  BY <1>2, AgedIsTrue
<1>4. ASSUME NEW k \in DOMAIN c.entries PROVE EntryOK(i, k, a.entries[k], n, older)
  <2>. PICK entry : entry = c.entries[k]
    OBVIOUS
  <2>1. EntryOK(i, k, entry, n, ret)
    BY DEF CacheOK
  <2>2. PICK v \in 0 .. n, l \in 0 .. Enrichers[i].ttl :
          /\ entry = [labels |-> [resource |-> k, version |-> v], left |-> l]
          /\ l # 0 /\ v < n => ret[v] + l <= limit
    BY <2>1 DEF EntryOK
  <2>. PICK m : m = IF l = 0 THEN 0 ELSE l - 1
    OBVIOUS
  <2>. PICK about : about = [resource |-> k, version |-> v]
    OBVIOUS
  <2>3. a.entries[k] = [labels |-> about, left |-> m]
    <3>1. a.entries[k] = [entry EXCEPT !.left = IF @ = 0 THEN 0 ELSE @ - 1]
      BY <1>3
    <3>2. entry = [labels |-> about, left |-> l] /\ entry.left = l
      BY <2>2
    <3>3. [entry EXCEPT !.left = IF @ = 0 THEN 0 ELSE @ - 1] = [entry EXCEPT !.left = m]
      BY <3>2
    <3>4. [entry EXCEPT !.left = m] = [labels |-> about, left |-> m]
      BY <3>2
    <3>. QED  BY <3>1, <3>3, <3>4
  <2>4. m \in 0 .. Enrichers[i].ttl
    BY <1>1
  <2>5. m # 0 /\ v < n => older[v] + m <= limit
    <3>. SUFFICES ASSUME m # 0, v < n PROVE older[v] + m <= limit
      OBVIOUS
    <3>1. v \in 0 .. n - 1 /\ l # 0 /\ m = l - 1 /\ l \in Nat
      BY <1>1
    <3>2. ret[v] \in Nat /\ older[v] \in Nat /\ older[v] <= ret[v] + 1
      BY <3>1 DEF Replaced
    <3>3. ret[v] + l <= limit
      BY <2>2, <3>1
    <3>4. \A x, y, z, w \in Nat : z # 0 /\ x <= y + 1 /\ y + z <= w => x + (z - 1) <= w
      OBVIOUS
    <3>. QED  BY <1>1, <3>1, <3>2, <3>3, <3>4
  <2>6. k \in Seq(Char)
    BY <2>1 DEF EntryOK
  <2>. QED  BY <2>3, <2>4, <2>5, <2>6 DEF EntryOK
<1>5. \A k \in DOMAIN a.entries : EntryOK(i, k, a.entries[k], n, older)
  BY <1>3, <1>4
<1>. QED  BY <1>3, <1>5 DEF CacheOK

\* New data makes what the entries hold old as of now.
LEMMA ChangeKeeps ==
  ASSUME NEW i \in Http, NEW c, NEW n \in Nat, NEW ret, NEW newer,
         newer = [v \in 0 .. n |-> IF v = n THEN 0 ELSE ret[v]],
         CacheOK(i, c, n, ret)
  PROVE  CacheOK(i, c, n + 1, newer)
<1>1. Enrichers[i].ttl \in Nat /\ Enrichers[i].timeout \in Nat
  BY HttpIs
<1>2. ASSUME NEW k \in DOMAIN c.entries PROVE EntryOK(i, k, c.entries[k], n + 1, newer)
  <2>1. EntryOK(i, k, c.entries[k], n, ret)
    BY DEF CacheOK
  <2>2. PICK v \in 0 .. n, l \in 0 .. Enrichers[i].ttl :
          /\ c.entries[k] = [labels |-> [resource |-> k, version |-> v], left |-> l]
          /\ l # 0 /\ v < n => ret[v] + l <= Enrichers[i].ttl + Enrichers[i].timeout
    BY <2>1 DEF EntryOK
  <2>3. v \in 0 .. n + 1
    OBVIOUS
  <2>4. l # 0 => newer[v] + l <= Enrichers[i].ttl + Enrichers[i].timeout
    <3>1. CASE v = n
      <4>1. newer[v] = 0
        BY <3>1
      <4>. QED  BY <1>1, <4>1
    <3>2. CASE v # n
      <4>1. newer[v] = ret[v] /\ v < n
        BY <3>2
      <4>. QED  BY <2>2, <4>1
    <3>. QED  BY <3>1, <3>2
  <2>5. k \in Seq(Char)
    BY <2>1 DEF EntryOK
  <2>. QED  BY <2>2, <2>3, <2>4, <2>5 DEF EntryOK
<1>. QED  BY <1>2 DEF CacheOK

\* An answer that is being read grows old with the call that reads it.
LEMMA AnswerAges ==
  ASSUME NEW answer, NEW text, NEW since \in Nat, NEW n \in Nat, NEW ret, NEW older,
         Replaced(n, ret), Replaced(n, older), \A v \in 0 .. n - 1 : older[v] <= ret[v] + 1,
         AnswerOK(answer, text, since, n, ret)
  PROVE  AnswerOK(answer, text, since + 1, n, older)
<1>1. PICK v \in 0 .. n : /\ answer = <<[resource |-> text, version |-> v]>>
                          /\ v < n => ret[v] <= since
  BY DEF AnswerOK
<1>2. ASSUME v < n PROVE older[v] <= since + 1
  <2>1. v \in 0 .. n - 1
    BY <1>2
  <2>2. ret[v] \in Nat /\ older[v] \in Nat /\ older[v] <= ret[v] + 1 /\ ret[v] <= since
    BY <1>1, <1>2, <2>1 DEF Replaced
  <2>. QED  BY <2>2
<1>. QED  BY <1>1, <1>2 DEF AnswerOK

\* And is as old as nothing when the data changes.
LEMMA AnswerChanges ==
  ASSUME NEW answer, NEW text, NEW since \in Nat, NEW n \in Nat, NEW ret, NEW newer,
         newer = [v \in 0 .. n |-> IF v = n THEN 0 ELSE ret[v]],
         AnswerOK(answer, text, since, n, ret)
  PROVE  AnswerOK(answer, text, since, n + 1, newer)
<1>1. PICK v \in 0 .. n : /\ answer = <<[resource |-> text, version |-> v]>>
                          /\ v < n => ret[v] <= since
  BY DEF AnswerOK
<1>2. v \in 0 .. n + 1
  OBVIOUS
<1>3. newer[v] <= since
  <2>1. CASE v = n
    BY <2>1
  <2>2. CASE v # n
    BY <1>1, <2>2
  <2>. QED  BY <2>1, <2>2
<1>. QED  BY <1>1, <1>2, <1>3 DEF AnswerOK

\* The invariant holds at first.
LEMMA PathInit == Init => PathInv
<1>. SUFFICES ASSUME Init PROVE PathInv
  OBVIOUS
<1>1. /\ world \in Worlds /\ out = << >> /\ labels = << >> /\ at = 0 /\ call = NoCall
      /\ caches = [i \in Http |-> NewCache] /\ version = 0 /\ retired = << >>
  BY DEF Init
<1>2. Len(Enrichers) \in Nat
  BY EnrichersAssumption
<1>3. ShapeInv
  BY <1>1, <1>2, NoTexts DEF ShapeInv
<1>4. world.versions \in Nat /\ 0 < world.versions
  BY <1>1, WorldsAssumption
<1>5. Replaced(0, << >>)
  BY DEF Replaced
<1>6. DataInv
  BY <1>1, <1>4, <1>5 DEF DataInv
<1>7. ASSUME NEW i \in Http PROVE CacheOK(i, NewCache, version, retired)
  <2>1. Lists(<< >>, DOMAIN << >>)
    <3>1. << >> \in Seq(DOMAIN << >>) /\ Len(<< >>) = 0 /\ DOMAIN << >> = {}
      OBVIOUS
    <3>. QED  BY <3>1 DEF Lists
  <2>2. Len(<< >>) <= Enrichers[i].capacity
    BY HttpIs
  <2>3. InStep([entries |-> << >>, lru |-> << >>], Enrichers[i].capacity)
    BY <2>1, <2>2, MakeInStep
  <2>4. NewCache = [entries |-> << >>, lru |-> << >>]
    BY DEF NewCache
  <2>5. DOMAIN NewCache.entries = {}
    BY <2>4
  <2>. QED  BY <2>3, <2>4, <2>5 DEF CacheOK
<1>8. CacheInv
  BY <1>1, <1>7 DEF CacheInv
<1>9. CallInv /\ CarriesInv
  BY <1>1 DEF CallInv, CarriesInv
<1>. QED  BY <1>3, <1>6, <1>8, <1>9 DEF PathInv

\* What a step leaves alone keeps its part of the invariant.
LEMMA DataStays ==
  ASSUME PathInv, UNCHANGED <<world, version, retired>>
  PROVE  DataInv' /\ world' \in Worlds
BY DEF PathInv, DataInv, ShapeInv

\* So do the caches, as long as the data they are judged by stays.
LEMMA CachesStay ==
  ASSUME PathInv, UNCHANGED <<caches, version, retired>>
  PROVE  CacheInv'
BY DEF PathInv, CacheInv

\* An enricher that returns with texts to add: the call is over, and what the event
\* was written with stays.
LEMMA ReturnKeeps ==
  ASSUME PathInv, at \in DOMAIN Enrichers, NEW extra, Texts(extra), Return(extra),
         UNCHANGED <<world, parsed, out>>
  PROVE  ShapeInv' /\ CallInv' /\ CarriesInv'
<1>1. /\ at' = at + 1 /\ labels' = merge_in_place(labels, extra) /\ call' = NoCall
      /\ world' = world /\ parsed' = parsed /\ out' = out
  BY DEF Return
<1>2. Texts(labels) /\ world \in Worlds /\ (out # << >> => at = 0)
  BY DEF PathInv, ShapeInv
<1>3. at \in 1 .. Len(Enrichers) /\ Len(Enrichers) \in Nat
  BY EnrichersAssumption
<1>4. /\ Texts(labels')
      /\ \A k \in DOMAIN labels : k \in DOMAIN labels' /\ labels'[k] = labels[k]
  BY <1>1, <1>2, MergeIsTrue
<1>5. at + 1 \in 0 .. Len(Enrichers) + 1 /\ at # 0 /\ at + 1 # 0
  BY <1>3
<1>6. out = << >>
  BY <1>2, <1>5
<1>7. ShapeInv'
  BY <1>1, <1>2, <1>4, <1>5, <1>6 DEF ShapeInv
<1>8. Carries(labels, parsed[1].event)
  BY <1>5 DEF PathInv, CarriesInv
<1>9. Carries(labels', parsed'[1].event)
  BY <1>1, <1>4, <1>8 DEF Carries
<1>10. CarriesInv'
  BY <1>1, <1>6, <1>9 DEF CarriesInv
<1>11. CallInv'
  BY <1>1 DEF CallInv
<1>. QED  BY <1>7, <1>10, <1>11

\* The labels of an event that was written are texts, all of them.
LEMMA TakenLabels ==
  ASSUME NEW l \in world.lines, world \in Worlds, NEW event \in ToSet(l.documents)
  PROVE  Texts(take_labels(event)) /\ Carries(take_labels(event), event)
<1>1. \A k \in DOMAIN event.labels : event.labels[k] # << >> => event.labels[k][1] \in Seq(Char)
  BY WorldsAssumption
<1>. PICK kept : kept = {k \in DOMAIN event.labels : event.labels[k] # << >>}
  OBVIOUS
<1>. PICK ls : ls = [k \in kept |-> event.labels[k][1]]
  OBVIOUS
<1>2. take_labels(event) = ls
  BY DEF take_labels
<1>3. DOMAIN ls = kept /\ \A k \in kept : ls[k] = event.labels[k][1]
  OBVIOUS
<1>4. Texts(ls)
  BY <1>1, <1>3 DEF Texts
<1>5. Carries(ls, event)
  BY <1>3 DEF Carries
<1>. QED  BY <1>2, <1>4, <1>5

\* A line that is taken.
LEMMA TakeLineKeeps == PathInv /\ TakeLine => PathInv'
<1>. SUFFICES ASSUME PathInv, TakeLine PROVE PathInv'
  OBVIOUS
<1>1. /\ at = 0 /\ out' = << >>
      /\ UNCHANGED <<world, call, caches, version, retired>>
  BY DEF TakeLine
<1>2. PICK l \in world.lines :
        /\ parsed' = parse_line(Written(l))
        /\ IF parsed' = << >> THEN UNCHANGED <<at, labels>>
           ELSE at' = 1 /\ labels' = take_labels(parsed'[1].event)
  BY DEF TakeLine
<1>3. DataInv' /\ world' \in Worlds /\ CacheInv'
  BY <1>1, DataStays, CachesStay
<1>4. Len(Enrichers) \in Nat /\ world \in Worlds /\ labels = << >>
  BY <1>1, EnrichersAssumption DEF PathInv, ShapeInv
<1>5. CallInv'
  <2>1. \A i \in Http : i # 0
    BY HttpIs
  <2>2. ~CallOK(call, at, labels, version, retired)
    BY <1>1, <2>1 DEF CallOK
  <2>. QED  BY <1>1, <2>2 DEF PathInv, CallInv
<1>6. CASE parsed' = << >>
  <2>1. at' = 0 /\ labels' = << >>
    BY <1>1, <1>2, <1>4, <1>6
  <2>2. ShapeInv'
    BY <1>1, <1>3, <1>4, <2>1, NoTexts DEF ShapeInv
  <2>3. CarriesInv'
    BY <1>1, <2>1 DEF CarriesInv
  <2>. QED  BY <1>3, <1>5, <2>2, <2>3 DEF PathInv
<1>7. CASE parsed' # << >>
  <2>. PICK w : w = Written(l)
    OBVIOUS
  <2>1. w.documents = ToSet(l.documents)
    BY DEF Written
  <2>. PICK event : event = parse_line(w)[1].event
    OBVIOUS
  <2>2. event \in ToSet(l.documents)
    BY <1>2, <1>7, <2>1, EventIsWritten
  <2>3. at' = 1 /\ labels' = take_labels(event) /\ parsed'[1].event = event
    BY <1>2, <1>7
  <2>4. Texts(labels') /\ Carries(labels', event)
    BY <1>4, <2>2, <2>3, TakenLabels
  <2>5. 1 \in 0 .. Len(Enrichers) + 1
    BY <1>4
  <2>6. ShapeInv'
    BY <1>1, <1>3, <2>3, <2>4, <2>5 DEF ShapeInv
  <2>7. CarriesInv'
    BY <1>1, <2>3, <2>4 DEF CarriesInv
  <2>. QED  BY <1>3, <1>5, <2>6, <2>7 DEF PathInv
<1>. QED  BY <1>6, <1>7

\* A lookup adds what its table says of the label, if anything.
LEMMA LookupKeeps == PathInv /\ Lookup => PathInv'
<1>. SUFFICES ASSUME PathInv, Lookup PROVE PathInv'
  OBVIOUS
<1>1. /\ at \in DOMAIN Enrichers /\ Enrichers[at].kind = "lookup"
      /\ UNCHANGED <<world, line, parsed, caches, version, retired, out>>
  BY DEF Lookup, Enriching
<1>2. DataInv' /\ world' \in Worlds /\ CacheInv'
  BY <1>1, DataStays, CachesStay
<1>3. \/ Return(<< >>)
      \/ \E v \in DOMAIN Enrichers[at].table : Return(Enrichers[at].table[v])
  BY DEF Lookup
<1>4. CASE Return(<< >>)
  BY <1>1, <1>2, <1>4, NoTexts, ReturnKeeps DEF PathInv
<1>5. CASE \E v \in DOMAIN Enrichers[at].table : Return(Enrichers[at].table[v])
  <2>. PICK v \in DOMAIN Enrichers[at].table : Return(Enrichers[at].table[v])
    BY <1>5
  <2>1. Texts(Enrichers[at].table[v])
    BY <1>1, TableIs
  <2>. QED  BY <1>1, <1>2, <2>1, ReturnKeeps DEF PathInv
<1>. QED  BY <1>3, <1>4, <1>5

\* Every way an enricher ends without anything to add.
LEMMA EmptyReturnKeeps ==
  ASSUME PathInv, at \in DOMAIN Enrichers, Return(<< >>),
         UNCHANGED <<world, line, parsed, caches, version, retired, out>>
  PROVE  PathInv'
<1>1. DataInv' /\ CacheInv'
  BY DataStays, CachesStay
<1>2. ShapeInv' /\ CallInv' /\ CarriesInv'
  BY NoTexts, ReturnKeeps
<1>. QED  BY <1>1, <1>2 DEF PathInv

\* A request that is sent.
LEMMA SendKeeps ==
  ASSUME PathInv, at \in Http, Enrichers[at].onLabel \in DOMAIN labels,
         call' = [NoCall EXCEPT !.phase = "send"],
         UNCHANGED <<world, line, parsed, labels, at, version, retired, out>>
  PROVE  ShapeInv' /\ DataInv' /\ CallInv' /\ CarriesInv'
<1>1. DataInv' /\ ShapeInv' /\ CarriesInv'
  BY DEF PathInv, DataInv, ShapeInv, CarriesInv
<1>2. call' = [phase |-> "send", age |-> 0, since |-> 0, answer |-> << >>]
  BY DEF NoCall
<1>3. /\ 0 <= Enrichers[at].timeout /\ 0 <= OuterTimeout
  BY HttpIs, EnrichersAssumption DEF OuterTimeout
<1>. PICK c : c = [phase |-> "send", age |-> 0, since |-> 0, answer |-> << >>]
  OBVIOUS
<1>4. /\ c.phase = "send" /\ c.age = 0 /\ c.since = 0 /\ c.answer = << >>
      /\ c = [phase |-> c.phase, age |-> c.age, since |-> c.since, answer |-> c.answer]
  OBVIOUS
<1>5. 0 \in Nat /\ 0 <= 0
  OBVIOUS
<1>6. CallOK(c, at, labels, version, retired)
  BY <1>3, <1>4, <1>5 DEF CallOK
<1>7. CallInv'
  BY <1>2, <1>6 DEF CallInv
<1>. QED  BY <1>1, <1>7

\* The cache is asked, unless it keeps nothing.
LEMMA AskCacheKeeps == PathInv /\ AskCache => PathInv'
<1>. SUFFICES ASSUME PathInv, AskCache PROVE PathInv'
  OBVIOUS
<1>. PICK key : key = labels[Enrichers[at].onLabel]
  OBVIOUS
<1>. PICK read : read = get(caches[at], key)
  OBVIOUS
<1>1. /\ at \in DOMAIN Enrichers /\ Enrichers[at].kind = "http"
      /\ Enrichers[at].onLabel \in DOMAIN labels
      /\ UNCHANGED <<world, line, parsed, version, retired, out>>
  BY DEF AskCache, Enriching
<1>2. at \in Http
  BY <1>1 DEF Http
<1>3. CASE call' = [NoCall EXCEPT !.phase = "send"] /\ UNCHANGED <<at, labels, caches>>
  <2>1. ShapeInv' /\ DataInv' /\ CallInv' /\ CarriesInv'
    BY <1>1, <1>2, <1>3, SendKeeps
  <2>2. CacheInv'
    BY <1>1, <1>3, CachesStay
  <2>. QED  BY <2>1, <2>2 DEF PathInv
<1>4. CASE caches' = [caches EXCEPT ![at] = read.cache]
  <2>1. /\ CacheOK(at, read.cache, version, retired)
        /\ read.hit # << >> =>
             \E v \in 0 .. version : read.hit[1] = [resource |-> key, version |-> v]
    <3>. PICK c : c = caches[at]
      OBVIOUS
    <3>. PICK n : n = version
      OBVIOUS
    <3>1. CacheOK(at, c, n, retired)
      BY <1>2 DEF PathInv, CacheInv
    <3>2. ReadOK(at, get(c, key), key, n, retired)
      BY <1>2, <3>1, GetKeeps
    <3>. QED  BY <3>2 DEF ReadOK
  <2>2. CacheInv'
    <3>1. DOMAIN caches = Http /\ \A i \in Http : CacheOK(i, caches[i], version, retired)
      BY DEF PathInv, CacheInv
    <3>2. DOMAIN caches' = Http
      BY <1>4, <3>1
    <3>3. \A i \in Http : caches'[i] = IF i = at THEN read.cache ELSE caches[i]
      BY <1>4, <3>1
    <3>4. \A i \in Http : CacheOK(i, caches'[i], version, retired)
      BY <2>1, <3>1, <3>3
    <3>. QED  BY <1>1, <3>2, <3>4 DEF CacheInv
  <2>3. CASE read.hit # << >> /\ Return(AnswerLabels(at, read.hit[1]))
    <3>. PICK answer : answer = read.hit[1]
      OBVIOUS
    <3>1. PICK v \in 0 .. version : answer = [resource |-> key, version |-> v]
      BY <2>1, <2>3
    <3>2. key \in Seq(Char)
      BY <1>1 DEF PathInv, ShapeInv, Texts
    <3>3. Digits(v) \in Char
      <4>1. DataInv /\ world \in Worlds
        BY DEF PathInv, ShapeInv
      <4>. QED  BY <4>1, VersionsHaveDigits
    <3>4. Texts(AnswerLabels(at, answer))
      BY <3>1, <3>2, <3>3, AnswersAreTexts
    <3>5. ShapeInv' /\ CallInv' /\ CarriesInv'
      BY <1>1, <2>3, <3>4, ReturnKeeps
    <3>6. DataInv'
      BY <1>1, DataStays
    <3>. QED  BY <2>2, <3>5, <3>6 DEF PathInv
  <2>4. CASE call' = [NoCall EXCEPT !.phase = "send"] /\ UNCHANGED <<at, labels>>
    <3>1. ShapeInv' /\ DataInv' /\ CallInv' /\ CarriesInv'
      BY <1>1, <1>2, <2>4, SendKeeps
    <3>. QED  BY <2>2, <3>1 DEF PathInv
  <2>5. \/ read.hit # << >> /\ Return(AnswerLabels(at, read.hit[1]))
        \/ call' = [NoCall EXCEPT !.phase = "send"] /\ UNCHANGED <<at, labels>>
        \/ call' = [NoCall EXCEPT !.phase = "send"] /\ UNCHANGED <<at, labels, caches>>
    BY DEF AskCache
  <2>. QED  BY <1>3, <2>3, <2>4, <2>5
<1>5. \/ call' = [NoCall EXCEPT !.phase = "send"] /\ UNCHANGED <<at, labels, caches>>
      \/ caches' = [caches EXCEPT ![at] = read.cache]
  BY DEF AskCache
<1>. QED  BY <1>3, <1>4, <1>5

\* What is known of a call while it is made.
LEMMA TheCall ==
  ASSUME PathInv, call # NoCall
  PROVE  CallOK(call, at, labels, version, retired)
BY DEF PathInv, CallInv

\* A response begins: it is about the label's text, from the data of now.
LEMMA ResponseStartsKeeps == PathInv /\ ResponseStarts => PathInv'
<1>. SUFFICES ASSUME PathInv, ResponseStarts PROVE PathInv'
  OBVIOUS
<1>. PICK key : key = labels[Enrichers[at].onLabel]
  OBVIOUS
<1>1. /\ at \in Http /\ call.phase = "send"
      /\ UNCHANGED <<world, line, parsed, labels, at, caches, version, retired, out>>
  BY DEF ResponseStarts, Waiting
<1>2. call # NoCall
  BY <1>1 DEF NoCall
<1>3. CallOK(call, at, labels, version, retired)
  BY <1>2, TheCall
<1>4. key \in Seq(Char)
  BY <1>3 DEF CallOK, PathInv, ShapeInv, Texts
<1>. PICK answer : answer = [resource |-> key, version |-> version]
  OBVIOUS
<1>5. call' = [call EXCEPT !.phase = "body", !.since = 0, !.answer = <<answer>>]
  <2>1. Resource(build_enrich_url(Template, key)) = key
    BY <1>4, AskedAboutTheValue
  <2>2. call' = [call EXCEPT !.phase = "body", !.since = 0,
                   !.answer = <<[resource |-> Resource(build_enrich_url(Template, key)),
                                 version |-> version]>>]
    BY DEF ResponseStarts
  <2>. QED  BY <2>1, <2>2
<1>6. call' = [phase |-> "body", age |-> call.age, since |-> 0, answer |-> <<answer>>]
  BY <1>3, <1>5 DEF CallOK
<1>7. AnswerOK(<<answer>>, key, 0, version, retired)
  <2>1. version \in 0 .. version /\ ~(version < version)
    BY DEF PathInv, DataInv
  <2>. QED  BY <2>1 DEF AnswerOK
<1>8. CallOK(call', at, labels, version, retired)
  BY <1>3, <1>6, <1>7 DEF CallOK
<1>9. CallInv'
  BY <1>1, <1>8 DEF CallInv
<1>10. ShapeInv' /\ DataInv' /\ CacheInv' /\ CarriesInv'
  BY <1>1 DEF PathInv, ShapeInv, DataInv, CacheInv, CarriesInv
<1>. QED  BY <1>9, <1>10 DEF PathInv

\* The response has been read: its answer goes into the cache and the labels.
LEMMA ResponseReadKeeps == PathInv /\ ResponseRead => PathInv'
<1>. SUFFICES ASSUME PathInv, ResponseRead PROVE PathInv'
  OBVIOUS
<1>. PICK key : key = labels[Enrichers[at].onLabel]
  OBVIOUS
<1>. PICK answer : answer = call.answer[1]
  OBVIOUS
<1>1. /\ at \in Http /\ call.phase = "body" /\ Return(AnswerLabels(at, answer))
      /\ caches' = IF Enrichers[at].ttl = 0 THEN caches
                   ELSE [caches EXCEPT ![at] = put(caches[at], key, answer, Enrichers[at].ttl,
                                                   Enrichers[at].capacity)]
      /\ UNCHANGED <<world, line, parsed, version, retired, out>>
  BY DEF ResponseRead, Waiting
<1>2. CallOK(call, at, labels, version, retired)
  <2>1. call # NoCall
    BY <1>1 DEF NoCall
  <2>. QED  BY <2>1, TheCall
<1>3. at \in DOMAIN Enrichers /\ Enrichers[at].timeout \in Nat
  BY <1>1, HttpIs
<1>4. key \in Seq(Char)
  BY <1>2 DEF CallOK, PathInv, ShapeInv, Texts
<1>5. DataInv /\ world \in Worlds
  BY DEF PathInv, ShapeInv
<1>6. AnswerOK(call.answer, key, call.since, version, retired)
  BY <1>1, <1>2 DEF CallOK
<1>7. PICK v \in 0 .. version : /\ call.answer = <<[resource |-> key, version |-> v]>>
                                /\ v < version => retired[v] <= call.since
  BY <1>6 DEF AnswerOK
<1>. PICK a : a = [resource |-> key, version |-> v]
  OBVIOUS
<1>8. answer = a /\ a.resource = key /\ a.version = v
  <2>1. <<a>>[1] = a
    OBVIOUS
  <2>. QED  BY <1>7, <2>1
<1>9. ShapeInv' /\ CallInv' /\ CarriesInv'
  <2>1. Digits(v) \in Char
    BY <1>5, VersionsHaveDigits
  <2>2. Texts(AnswerLabels(at, answer))
    BY <1>4, <1>8, <2>1, AnswersAreTexts
  <2>. QED  BY <1>1, <1>3, <2>2, ReturnKeeps
<1>10. v < version => retired[v] <= Enrichers[at].timeout
  <2>. SUFFICES ASSUME v < version PROVE retired[v] <= Enrichers[at].timeout
    OBVIOUS
  <2>1. v \in 0 .. version - 1
    BY <1>5 DEF DataInv
  <2>2. retired[v] \in Nat
    BY <1>5, <2>1 DEF DataInv, Replaced
  <2>3. /\ call.since \in Nat /\ call.age \in Nat /\ call.since <= call.age
        /\ call.age <= Enrichers[at].timeout
    BY <1>2 DEF CallOK
  <2>4. \A x, y, z, w \in Nat : x <= y /\ y <= z /\ z <= w => x <= w
    OBVIOUS
  <2>. QED  BY <1>3, <1>7, <2>2, <2>3, <2>4
<1>. PICK c : c = caches[at]
  OBVIOUS
<1>. PICK p : p = put(c, key, a, Enrichers[at].ttl, Enrichers[at].capacity)
  OBVIOUS
<1>11. DOMAIN caches = Http /\ \A i \in Http : CacheOK(i, caches[i], version, retired)
  BY DEF PathInv, CacheInv
<1>12. CacheOK(at, p, version, retired)
  <2>1. CacheOK(at, c, version, retired) /\ version \in Nat /\ Replaced(version, retired)
    BY <1>1, <1>5, <1>11 DEF DataInv
  <2>2. CacheOK(at, put(c, key, [resource |-> key, version |-> v], Enrichers[at].ttl,
                        Enrichers[at].capacity), version, retired)
    BY <1>1, <1>4, <1>10, <2>1, PutKeeps
  <2>. QED  BY <2>2
<1>13. CacheInv'
  <2>1. CASE caches' = caches
    BY <1>1, <1>11, <2>1 DEF CacheInv
  <2>2. CASE caches' = [caches EXCEPT ![at] = p]
    <3>1. DOMAIN caches' = Http /\ \A i \in Http : caches'[i] = IF i = at THEN p ELSE caches[i]
      BY <1>11, <2>2
    <3>2. \A i \in Http : CacheOK(i, caches'[i], version, retired)
      BY <1>11, <1>12, <3>1
    <3>. QED  BY <1>1, <3>1, <3>2 DEF CacheInv
  <2>3. caches' = caches \/ caches' = [caches EXCEPT ![at] = p]
    BY <1>1, <1>8
  <2>. QED  BY <2>1, <2>2, <2>3
<1>14. DataInv'
  BY <1>1, DataStays
<1>. QED  BY <1>9, <1>13, <1>14 DEF PathInv

\* The envelope carries what the event was written with.
LEMMA FanOutKeeps == PathInv /\ FanOut => PathInv'
<1>. SUFFICES ASSUME PathInv, FanOut PROVE PathInv'
  OBVIOUS
<1>. PICK written : written = parsed[1].event
  OBVIOUS
<1>. PICK event : event = Unlabelled(written)
  OBVIOUS
<1>. PICK source : source = parsed[1].source
  OBVIOUS
<1>. PICK to : to = {s \in DOMAIN world.filters : matches(world.filters[s], labels, event)}
  OBVIOUS
<1>. PICK ls : ls = labels
  OBVIOUS
<1>. PICK envelope : envelope = [event |-> event, source |-> source, labels |-> ls, to |-> to]
  OBVIOUS
<1>1. /\ at = Len(Enrichers) + 1 /\ at' = 0 /\ labels' = << >>
      /\ UNCHANGED <<world, line, parsed, call, caches, version, retired>>
      /\ out' = <<envelope>>
  BY DEF FanOut
<1>2. Len(Enrichers) \in Nat
  BY EnrichersAssumption
<1>3. DataInv' /\ world' \in Worlds /\ CacheInv'
  BY <1>1, DataStays, CachesStay
<1>4. ShapeInv'
  BY <1>1, <1>2, <1>3, NoTexts DEF ShapeInv
<1>5. CallInv'
  <2>1. \A i \in Http : i # Len(Enrichers) + 1
    BY <1>2, HttpIs
  <2>2. ~CallOK(call, at, labels, version, retired)
    BY <1>1, <2>1 DEF CallOK
  <2>. QED  BY <1>1, <2>2 DEF PathInv, CallInv
<1>6. CarriesInv'
  <2>1. Carries(ls, written) /\ parsed'[1].event = written
    <3>1. at # 0
      BY <1>1, <1>2
    <3>. QED  BY <1>1, <3>1 DEF PathInv, CarriesInv
  <2>2. out'[1] = envelope /\ envelope.labels = ls
    <3>1. <<envelope>>[1] = envelope
      OBVIOUS
    <3>. QED  BY <1>1, <3>1
  <2>. QED  BY <1>1, <2>1, <2>2 DEF CarriesInv
<1>. QED  BY <1>3, <1>4, <1>5, <1>6 DEF PathInv

\* A call of another age, in a phase of another age.
AgedCall(c, k, l) == [c EXCEPT !.age = k, !.since = l]

\* Nothing else of it changes.
LEMMA CallWith ==
  ASSUME NEW phase, NEW age, NEW since, NEW answer, NEW k, NEW l,
         NEW c, c = [phase |-> phase, age |-> age, since |-> since, answer |-> answer]
  PROVE  AgedCall(c, k, l) = [phase |-> phase, age |-> k, since |-> l, answer |-> answer]
<1>1. PICK h : h = [c EXCEPT !.age = k]
  OBVIOUS
<1>2. h = [phase |-> phase, age |-> k, since |-> since, answer |-> answer]
  BY <1>1
<1>3. ASSUME NEW g, g = [phase |-> phase, age |-> k, since |-> since, answer |-> answer]
      PROVE  [g EXCEPT !.since = l] = [phase |-> phase, age |-> k, since |-> l, answer |-> answer]
  BY <1>3, SMTT(60)
<1>4. AgedCall(c, k, l) = [h EXCEPT !.since = l]
  BY <1>1 DEF AgedCall
<1>. QED  BY <1>2, <1>3, <1>4

\* A moment passes, for the call, the caches and the services' data.
LEMMA TickKeeps == PathInv /\ Tick => PathInv'
<1>. SUFFICES ASSUME PathInv, Tick PROVE PathInv'
  OBVIOUS
<1>1. /\ call # NoCall => ~InnerDue(call, at) /\ ~OuterDue(call)
      /\ call' = IF call = NoCall THEN call ELSE [call EXCEPT !.age = @ + 1, !.since = @ + 1]
      /\ caches' = [i \in Http |-> Aged(caches[i])]
      /\ retired' = [v \in DOMAIN retired |-> IF retired[v] = Old THEN Old ELSE retired[v] + 1]
      /\ UNCHANGED <<world, line, parsed, labels, at, version, out>>
  BY DEF Tick
<1>. PICK older : older = retired'
  OBVIOUS
<1>. PICK now : now = retired
  OBVIOUS
<1>. PICK n : n = version
  OBVIOUS
<1>2. n \in Nat /\ n < world.versions /\ Replaced(n, now)
  BY DEF PathInv, DataInv
<1>3. Replaced(n, older) /\ \A v \in 0 .. n - 1 : older[v] <= now[v] + 1
  <2>1. DOMAIN older = 0 .. n - 1
        /\ \A v \in 0 .. n - 1 : older[v] = IF now[v] = Old THEN now[v] ELSE now[v] + 1
    BY <1>1, <1>2 DEF Replaced
  <2>2. \A v \in 0 .. n - 1 : now[v] \in Nat
    BY <1>2 DEF Replaced
  <2>3. \A v \in 0 .. n - 1 : older[v] \in Nat /\ older[v] <= now[v] + 1
    BY <2>1, <2>2
  <2>. QED  BY <2>1, <2>3 DEF Replaced
<1>4. DataInv'
  BY <1>1, <1>2, <1>3 DEF DataInv
<1>5. ShapeInv' /\ CarriesInv'
  BY <1>1 DEF PathInv, ShapeInv, CarriesInv
<1>6. CacheInv'
  <2>1. \A i \in Http : CacheOK(i, caches[i], n, now)
    BY DEF PathInv, CacheInv
  <2>2. \A i \in Http : CacheOK(i, Aged(caches[i]), n, older)
    BY <1>2, <1>3, <2>1, AgingKeeps
  <2>3. DOMAIN caches' = Http /\ \A i \in Http : caches'[i] = Aged(caches[i])
    BY <1>1
  <2>. QED  BY <1>1, <2>2, <2>3 DEF CacheInv
<1>7. CASE call = NoCall
  <2>1. CallInv'
    BY <1>1, <1>7 DEF CallInv
  <2>. QED  BY <1>4, <1>5, <1>6, <2>1 DEF PathInv
<1>8. CASE call # NoCall
  <2>. PICK c : c = call
    OBVIOUS
  <2>. PICK i : i = at
    OBVIOUS
  <2>. PICK ls : ls = labels
    OBVIOUS
  <2>. PICK text : text = ls[Enrichers[i].onLabel]
    OBVIOUS
  <2>1. CallOK(c, i, ls, n, now)
    BY <1>8, TheCall
  <2>2. /\ i \in Http /\ c.age \in Nat /\ c.since \in Nat /\ c.since <= c.age
        /\ c = [phase |-> c.phase, age |-> c.age, since |-> c.since, answer |-> c.answer]
        /\ Enrichers[i].onLabel \in DOMAIN ls
    BY <2>1 DEF CallOK
  <2>3. Enrichers[i].timeout \in Nat /\ OuterTimeout \in Nat
    BY <2>2, HttpIs, EnrichersAssumption DEF OuterTimeout
  <2>4. ~(c.age >= Enrichers[i].timeout) /\ ~(c.age >= OuterTimeout)
    BY <1>1, <1>8 DEF InnerDue, OuterDue
  <2>. PICK d : d = [phase |-> c.phase, age |-> c.age + 1, since |-> c.since + 1,
                     answer |-> c.answer]
    OBVIOUS
  <2>5. call' = d
    <3>. PICK ag : ag = c.age + 1
      OBVIOUS
    <3>. PICK si : si = c.since + 1
      OBVIOUS
    <3>1. call' = AgedCall(c, ag, si)
      BY <1>1, <1>8 DEF AgedCall
    <3>. PICK ph : ph = c.phase
      OBVIOUS
    <3>. PICK an : an = c.answer
      OBVIOUS
    <3>. PICK x : x = c.age
      OBVIOUS
    <3>. PICK y : y = c.since
      OBVIOUS
    <3>2. c = [phase |-> ph, age |-> x, since |-> y, answer |-> an]
      BY <2>2
    <3>3. AgedCall(c, ag, si)
          = [phase |-> ph, age |-> ag, since |-> si, answer |-> an]
      BY <3>2, CallWith
    <3>. QED  BY <3>1, <3>3
  <2>6. /\ d.phase = c.phase /\ d.age = c.age + 1 /\ d.since = c.since + 1
        /\ d.answer = c.answer
        /\ d = [phase |-> d.phase, age |-> d.age, since |-> d.since, answer |-> d.answer]
    OBVIOUS
  <2>7. /\ d.age \in Nat /\ d.since \in Nat /\ d.since <= d.age
        /\ d.age <= Enrichers[i].timeout /\ d.age <= OuterTimeout
    <3>1. \A x, y, z \in Nat : y <= x /\ ~(x >= z) =>
            x + 1 \in Nat /\ y + 1 \in Nat /\ y + 1 <= x + 1 /\ x + 1 <= z
      OBVIOUS
    <3>. QED  BY <2>2, <2>3, <2>4, <2>6, <3>1
  <2>8. \/ d.phase = "send" /\ d.answer = << >>
        \/ d.phase = "body" /\ AnswerOK(d.answer, text, d.since, n, older)
    <3>1. CASE c.phase = "send" /\ c.answer = << >>
      BY <2>6, <3>1
    <3>2. CASE c.phase = "body" /\ AnswerOK(c.answer, text, c.since, n, now)
      <4>1. AnswerOK(c.answer, text, c.since + 1, n, older)
        BY <1>2, <1>3, <2>2, <3>2, AnswerAges
      <4>. QED  BY <2>6, <3>2, <4>1
    <3>. QED  BY <2>1, <3>1, <3>2 DEF CallOK
  <2>9. CallOK(d, i, ls, n, older)
    BY <2>2, <2>6, <2>7, <2>8 DEF CallOK
  <2>10. CallInv'
    BY <1>1, <2>5, <2>9 DEF CallInv
  <2>. QED  BY <1>4, <1>5, <1>6, <2>10 DEF PathInv
<1>. QED  BY <1>7, <1>8

\* The services' data changes under whatever is on its way.
LEMMA DataChangesKeeps == PathInv /\ DataChanges => PathInv'
<1>. SUFFICES ASSUME PathInv, DataChanges PROVE PathInv'
  OBVIOUS
<1>. PICK newer : newer = retired'
  OBVIOUS
<1>. PICK now : now = retired
  OBVIOUS
<1>. PICK n : n = version
  OBVIOUS
<1>1. /\ n + 1 < world.versions /\ version' = n + 1
      /\ newer = [v \in 0 .. n |-> IF v = n THEN 0 ELSE now[v]]
      /\ UNCHANGED <<world, line, parsed, labels, at, call, caches, out>>
  BY DEF DataChanges
<1>2. n \in Nat /\ Replaced(n, now)
  BY DEF PathInv, DataInv
<1>3. Replaced(n + 1, newer)
  <2>1. DOMAIN newer = 0 .. (n + 1) - 1
    BY <1>1, <1>2
  <2>2. \A v \in 0 .. (n + 1) - 1 : newer[v] \in Nat
    <3>. TAKE v \in 0 .. (n + 1) - 1
    <3>1. v \in 0 .. n /\ (v # n => v \in 0 .. n - 1)
      BY <1>2
    <3>2. newer[v] = IF v = n THEN 0 ELSE now[v]
      BY <1>1, <3>1
    <3>. QED  BY <1>2, <3>1, <3>2 DEF Replaced
  <2>. QED  BY <2>1, <2>2 DEF Replaced
<1>4. n + 1 \in Nat
  BY <1>2
<1>5. DataInv'
  BY <1>1, <1>3, <1>4 DEF DataInv
<1>6. ShapeInv' /\ CarriesInv'
  BY <1>1 DEF PathInv, ShapeInv, CarriesInv
<1>7. CacheInv'
  <2>1. DOMAIN caches = Http /\ \A i \in Http : CacheOK(i, caches[i], n, now)
    BY DEF PathInv, CacheInv
  <2>2. \A i \in Http : CacheOK(i, caches[i], n + 1, newer)
    BY <1>1, <1>2, <2>1, ChangeKeeps
  <2>. QED  BY <1>1, <2>1, <2>2 DEF CacheInv
<1>8. CallInv'
  <2>1. CASE call = NoCall
    BY <1>1, <2>1 DEF CallInv
  <2>2. CASE CallOK(call, at, labels, n, now)
    <3>. PICK c : c = call
      OBVIOUS
    <3>. PICK i : i = at
      OBVIOUS
    <3>. PICK ls : ls = labels
      OBVIOUS
    <3>. PICK text : text = ls[Enrichers[i].onLabel]
      OBVIOUS
    <3>1. CallOK(c, i, ls, n, now)
      BY <2>2
    <3>2. \/ c.phase = "send" /\ c.answer = << >>
          \/ c.phase = "body" /\ AnswerOK(c.answer, text, c.since, n + 1, newer)
      <4>1. CASE c.phase = "body" /\ AnswerOK(c.answer, text, c.since, n, now)
        <5>1. c.since \in Nat
          BY <3>1 DEF CallOK
        <5>2. AnswerOK(c.answer, text, c.since, n + 1, newer)
          BY <1>1, <1>2, <4>1, <5>1, AnswerChanges
        <5>. QED  BY <4>1, <5>2
      <4>. QED  BY <3>1, <4>1 DEF CallOK
    <3>3. CallOK(c, i, ls, n + 1, newer)
      BY <3>1, <3>2 DEF CallOK
    <3>. QED  BY <1>1, <3>3 DEF CallInv
  <2>. QED  BY <2>1, <2>2 DEF PathInv, CallInv
<1>. QED  BY <1>5, <1>6, <1>7, <1>8 DEF PathInv

\* The invariant is one of every step.
LEMMA PathNext == PathInv /\ [Next]_vars => PathInv'
<1>. SUFFICES ASSUME PathInv, [Next]_vars PROVE PathInv'
  OBVIOUS
<1>1. CASE TakeLine
  BY <1>1, TakeLineKeeps
<1>2. CASE Lookup
  BY <1>2, LookupKeeps
<1>3. CASE NothingToLookUp
  BY <1>3, EmptyReturnKeeps DEF NothingToLookUp, Enriching
<1>4. CASE AskCache
  BY <1>4, AskCacheKeeps
<1>5. CASE ResponseStarts
  BY <1>5, ResponseStartsKeeps
<1>6. CASE ResponseRead
  BY <1>6, ResponseReadKeeps
<1>7. CASE CallFails
  <2>1. /\ at \in Http /\ Return(<< >>)
        /\ UNCHANGED <<world, line, parsed, caches, version, retired, out>>
    BY <1>7 DEF CallFails
  <2>. QED  BY <2>1, HttpIs, EmptyReturnKeeps
<1>8. CASE InnerTimeoutFires
  <2>1. /\ at \in Http /\ Return(<< >>)
        /\ UNCHANGED <<world, line, parsed, caches, version, retired, out>>
    BY <1>8 DEF InnerTimeoutFires
  <2>. QED  BY <2>1, HttpIs, EmptyReturnKeeps
<1>9. CASE OuterTimeoutFires
  <2>1. /\ at \in Http /\ Return(<< >>)
        /\ UNCHANGED <<world, line, parsed, caches, version, retired, out>>
    BY <1>9 DEF OuterTimeoutFires
  <2>. QED  BY <2>1, HttpIs, EmptyReturnKeeps
<1>10. CASE FanOut
  BY <1>10, FanOutKeeps
<1>11. CASE Tick
  BY <1>11, TickKeeps
<1>12. CASE DataChanges
  BY <1>12, DataChangesKeeps
<1>13. CASE UNCHANGED vars
  BY <1>13 DEF vars, PathInv, ShapeInv, DataInv, CallInv, CacheInv, CarriesInv
<1>. QED  BY <1>1, <1>2, <1>3, <1>4, <1>5, <1>6, <1>7, <1>8, <1>9, <1>10, <1>11, <1>12, <1>13
          DEF Next, Parser

\* The inductive invariant holds of every behaviour.
THEOREM PathStaysTrue == Spec => []PathInv
<1>. QED  BY PathInit, PathNext, PTL DEF Spec

-----------------------------------------------------------------------------
(* What it implies.                                                        *)

\* One event is enriched at a time, by one call at most, and no call, headers and
\* body together, outlasts the enricher's own timeout or the one around it
\* (pipeline.rs process_one, enrichers/http.rs HttpEnricher::enrich).
THEOREM EnrichmentStaysBounded == Spec => []EnrichmentBounded
<1>1. PathInv => EnrichmentBounded
  <2>. SUFFICES ASSUME PathInv PROVE EnrichmentBounded
    OBVIOUS
  <2>1. call = NoCall \/ CallOK(call, at, labels, version, retired)
    BY DEF PathInv, CallInv
  <2>2. DelayBounded
    BY <2>1 DEF DelayBounded, CallOK
  <2>3. call = NoCall \/ (at \in Http /\ call.phase \in {"send", "body"})
    BY <2>1 DEF CallOK
  <2>4. call.phase = "body" <=> call.answer # << >>
    <3>1. CASE call = NoCall
      BY <3>1 DEF NoCall
    <3>2. CASE CallOK(call, at, labels, version, retired)
      <4>1. CASE call.phase = "send" /\ call.answer = << >>
        BY <4>1
      <4>2. CASE call.phase = "body"
                 /\ AnswerOK(call.answer, labels[Enrichers[at].onLabel], call.since, version, retired)
        <5>1. call.answer # << >>
          BY <4>2 DEF AnswerOK
        <5>. QED  BY <4>2, <5>1
      <4>. QED  BY <3>2, <4>1, <4>2 DEF CallOK
    <3>. QED  BY <2>1, <3>1, <3>2
  <2>5. TypeOK
    BY <2>3, <2>4 DEF PathInv, ShapeInv, DataInv, Replaced, TypeOK
  <2>. QED  BY <2>2, <2>5 DEF EnrichmentBounded
<1>. QED  BY <1>1, PathStaysTrue, PTL

\* Whatever enrichers there are and whatever services answer, the labels the audit
\* line was written with reach the subscribers as they were (merge_in_place).
THEOREM OperatorAlwaysWins == Spec => []OperatorWins
<1>1. PathInv => OperatorWins
  BY DEF PathInv, CarriesInv, Carries, OperatorWins
<1>. QED  BY <1>1, PathStaysTrue, PTL

\* What a cache holds and a service is asked is about the label's own text, entries
\* that can be served are no older than their time explains, and the queue stays in
\* step with the entries, within the capacity (enrichers/http.rs Cache).
THEOREM CacheStaysTrue == Spec => []CacheIsTrue
<1>1. PathInv => CacheIsTrue
  <2>. SUFFICES ASSUME PathInv PROVE CacheIsTrue
    OBVIOUS
  <2>1. \A i \in Http : CacheOK(i, caches[i], version, retired)
    BY DEF PathInv, CacheInv
  <2>2. CacheInStep
    <3>. SUFFICES ASSUME NEW i \in Http
                  PROVE  /\ ToSet(caches[i].lru) = DOMAIN caches[i].entries
                         /\ Len(caches[i].lru) = Cardinality(DOMAIN caches[i].entries)
                         /\ Len(caches[i].lru) <= Enrichers[i].capacity
      BY DEF CacheInStep
    <3>1. /\ Lists(caches[i].lru, DOMAIN caches[i].entries)
          /\ Len(caches[i].lru) <= Enrichers[i].capacity
      BY <2>1 DEF CacheOK, InStep
    <3>. QED  BY <3>1, ListsCount
  <2>3. ASSUME NEW i \in Http, NEW k \in DOMAIN caches[i].entries
        PROVE  /\ caches[i].entries[k].labels.resource = k
               /\ ~Expired(caches[i].entries[k]) /\ caches[i].entries[k].labels.version < version =>
                    retired[caches[i].entries[k].labels.version]
                      <= Enrichers[i].ttl - caches[i].entries[k].left + Enrichers[i].timeout
    <3>. PICK e : e = caches[i].entries[k]
      OBVIOUS
    <3>. PICK n : n = version
      OBVIOUS
    <3>. PICK now : now = retired
      OBVIOUS
    <3>1. EntryOK(i, k, e, n, now) /\ n \in Nat /\ Replaced(n, now)
      BY <2>1 DEF CacheOK, PathInv, DataInv
    <3>2. PICK v \in 0 .. n, l \in 0 .. Enrichers[i].ttl :
            /\ e = [labels |-> [resource |-> k, version |-> v], left |-> l]
            /\ l # 0 /\ v < n => now[v] + l <= Enrichers[i].ttl + Enrichers[i].timeout
      BY <3>1 DEF EntryOK
    <3>3. e.labels.resource = k /\ e.labels.version = v /\ e.left = l
      BY <3>2
    <3>4. Enrichers[i].ttl \in Nat /\ Enrichers[i].timeout \in Nat
      BY HttpIs
    <3>5. l # 0 /\ v < n => now[v] <= Enrichers[i].ttl - l + Enrichers[i].timeout
      <4>. SUFFICES ASSUME l # 0, v < n PROVE now[v] <= Enrichers[i].ttl - l + Enrichers[i].timeout
        OBVIOUS
      <4>1. v \in 0 .. n - 1
        BY <3>1
      <4>2. now[v] \in Nat
        BY <3>1, <4>1 DEF Replaced
      <4>3. now[v] + l <= Enrichers[i].ttl + Enrichers[i].timeout
        BY <3>2
      <4>4. \A x, y, z, w \in Nat : x + y <= z + w => x <= z - y + w
        OBVIOUS
      <4>5. l \in Nat
        OBVIOUS
      <4>. QED  BY <3>4, <4>2, <4>3, <4>4, <4>5
    <3>. QED  BY <3>3, <3>5 DEF Expired
  <2>4. call.answer # << >> => call.answer[1].resource = labels[Enrichers[at].onLabel]
    <3>. SUFFICES ASSUME call.answer # << >>
                  PROVE  call.answer[1].resource = labels[Enrichers[at].onLabel]
      OBVIOUS
    <3>1. call # NoCall
      BY DEF NoCall
    <3>. PICK text : text = labels[Enrichers[at].onLabel]
      OBVIOUS
    <3>2. AnswerOK(call.answer, text, call.since, version, retired)
      BY <3>1, TheCall DEF CallOK
    <3>3. PICK v \in 0 .. version : call.answer = <<[resource |-> text, version |-> v]>>
      BY <3>2 DEF AnswerOK
    <3>. PICK a : a = [resource |-> text, version |-> v]
      OBVIOUS
    <3>4. <<a>>[1] = a /\ a.resource = text
      OBVIOUS
    <3>. QED  BY <3>3, <3>4
  <2>5. AnswersAreAboutTheValue
    BY <2>3, <2>4 DEF AnswersAreAboutTheValue
  <2>6. StalenessBounded
    BY <2>3 DEF StalenessBounded
  <2>. QED  BY <2>2, <2>5, <2>6 DEF CacheIsTrue
<1>. QED  BY <1>1, PathStaysTrue, PTL

-----------------------------------------------------------------------------
(* Recursions over the first numbers.                                      *)

\* Induction up to a number, for a set of those that are so.
LEMMA Climb ==
  ASSUME NEW m \in Nat, NEW T \in SUBSET (0 .. m), 0 \in T,
         \A n \in T : n # m => n + 1 \in T
  PROVE  T = 0 .. m
<1>. DEFINE Bad == (0 .. m) \ T
<1>. SUFFICES ASSUME Bad # {} PROVE FALSE
  OBVIOUS
<1>1. Bad \in SUBSET Nat
  OBVIOUS
<1>2. PICK k \in Bad : \A j \in Bad : k <= j
  BY <1>1, LeastMember
<1>3. k \in 0 .. m /\ k # 0
  OBVIOUS
<1>4. k - 1 \in 0 .. m /\ ~(k <= k - 1) /\ k - 1 # m /\ k - 1 + 1 = k
  BY <1>3
<1>5. k - 1 \in T
  BY <1>2, <1>4
<1>. QED  BY <1>4, <1>5

\* f is what comes of a by the steps of h.
Iterated(f, V, a, m, h) ==
  f \in [0 .. m -> V] /\ f[0] = a /\ \A n \in 1 .. m : f[n] = h[<<n, f[n - 1]>>]

\* A recursion over the first numbers has a solution.
LEMMA Iterates ==
  ASSUME NEW V, NEW a \in V, NEW m \in Nat, NEW h \in [(1 .. m) \X V -> V]
  PROVE  \E f : Iterated(f, V, a, m, h)
<1>. DEFINE Solves(f, k) == Iterated(f, V, a, k, h)
            T == {k \in 0 .. m : \E f : Solves(f, k)}
<1>1. 0 \in T
  <2>. DEFINE f == [n \in 0 .. 0 |-> a]
  <2>1. f \in [0 .. 0 -> V] /\ f[0] = a
    OBVIOUS
  <2>2. \A n \in 1 .. 0 : FALSE
    OBVIOUS
  <2>. HIDE DEF f
  <2>3. Solves(f, 0)
    BY <2>1, <2>2 DEF Iterated
  <2>. QED  BY <2>3
<1>2. ASSUME NEW k \in T, k # m PROVE k + 1 \in T
  <2>. PICK f : Solves(f, k)
    OBVIOUS
  <2>1. k \in 0 .. m /\ k + 1 \in 0 .. m /\ k + 1 \in 1 .. m /\ k \in Nat
    BY <1>2
  <2>0. f \in [0 .. k -> V] /\ f[0] = a /\ \A n \in 1 .. k : f[n] = h[<<n, f[n - 1]>>]
    BY DEF Iterated
  <2>2. f[k] \in V
    BY <2>0, <2>1
  <2>. DEFINE g == [n \in 0 .. k + 1 |-> IF n = k + 1 THEN h[<<k + 1, f[k]>>] ELSE f[n]]
  <2>3. h[<<k + 1, f[k]>>] \in V
    BY <2>1, <2>2
  <2>4. \A n \in 0 .. k + 1 : n # k + 1 => n \in 0 .. k
    BY <2>1
  <2>5. g \in [0 .. k + 1 -> V]
    BY <2>0, <2>3, <2>4
  <2>6. g[k + 1] = h[<<k + 1, f[k]>>] /\ \A n \in 0 .. k : g[n] = f[n]
    BY <2>1
  <2>. HIDE DEF g
  <2>7. ASSUME NEW n \in 1 .. k + 1 PROVE g[n] = h[<<n, g[n - 1]>>]
    <3>1. CASE n = k + 1
      <4>1. k \in 0 .. k /\ n - 1 = k
        BY <2>1, <3>1
      <4>. QED  BY <2>6, <3>1, <4>1
    <3>2. CASE n # k + 1
      <4>1. n \in 1 .. k /\ n \in 0 .. k /\ n - 1 \in 0 .. k
        BY <2>1, <3>2
      <4>. QED  BY <2>0, <2>6, <4>1
    <3>. QED  BY <3>1, <3>2
  <2>8. g[0] = a
    BY <2>0, <2>1, <2>6
  <2>9. Solves(g, k + 1)
    BY <2>5, <2>7, <2>8 DEF Iterated
  <2>. QED  BY <2>1, <2>9
<1>. HIDE DEF Solves
<1>3. T = 0 .. m
  <2>1. T \in SUBSET (0 .. m)
    OBVIOUS
  <2>. HIDE DEF T
  <2>. QED  BY <1>1, <1>2, <2>1, Climb
<1>4. PICK f : Solves(f, m)
  BY <1>3
<1>. QED  BY <1>4 DEF Solves

-----------------------------------------------------------------------------
(* The globs: the parts of a pattern.                                      *)

Cut == [parts : Seq(Seq(Char)), part : Seq(Char)]

CutStep(c, x) ==
  IF x = "*" THEN [parts |-> Filed(c), part |-> << >>]
  ELSE [parts |-> c.parts, part |-> Append(c.part, x)]

Cuts(f, p) ==
  f = [n \in 0 .. Len(p) |-> IF n = 0 THEN [parts |-> << >>, part |-> << >>]
                             ELSE CutStep(f[n - 1], p[n])]

Pattern == Seq(Char \cup {"*"})

\* What is cut are texts.
LEMMA CutIsCut ==
  ASSUME NEW c \in Cut
  PROVE  /\ c.parts \in Seq(Seq(Char)) /\ c.part \in Seq(Char)
         /\ Filed(c) \in Seq(Seq(Char))
         /\ \A x \in Char \cup {"*"} : CutStep(c, x) \in Cut
<1>1. c.parts \in Seq(Seq(Char)) /\ c.part \in Seq(Char)
  BY DEF Cut
<1>2. Filed(c) \in Seq(Seq(Char))
  BY <1>1 DEF Filed
<1>3. ASSUME NEW x \in Char \cup {"*"} PROVE CutStep(c, x) \in Cut
  <2>1. CASE x = "*"
    BY <1>2, <2>1 DEF CutStep, Cut
  <2>2. CASE x # "*"
    <3>1. Append(c.part, x) \in Seq(Char)
      BY <1>1, <2>2
    <3>. QED  BY <1>1, <2>2, <3>1 DEF CutStep, Cut
  <2>. QED  BY <2>1, <2>2
<1>. QED  BY <1>1, <1>2, <1>3

\* The parts are those of the last cut.
LEMMA PartsAreCut ==
  ASSUME NEW p \in Pattern
  PROVE  \E f \in [0 .. Len(p) -> Cut] : Cuts(f, p) /\ Parts(p) = Filed(f[Len(p)])
<1>1. Len(p) \in Nat /\ \A n \in 1 .. Len(p) : p[n] \in Char \cup {"*"}
  BY ElementOfSeq DEF Pattern
<1>. PICK m : m = Len(p)
  OBVIOUS
<1>. DEFINE none == [parts |-> << >>, part |-> << >>]
<1>2. none \in Cut
  BY DEF Cut
<1>3. \E g : Cuts(g, p)
  <2>. DEFINE h == [x \in (1 .. m) \X Cut |-> CutStep(x[2], p[x[1]])]
  <2>1. h \in [(1 .. m) \X Cut -> Cut]
    BY <1>1, CutIsCut
  <2>2. \A n \in 1 .. m, c \in Cut : h[<<n, c>>] = CutStep(c, p[n])
    OBVIOUS
  <2>. HIDE DEF h, none
  <2>. PICK g : Iterated(g, Cut, none, m, h)
    BY <1>1, <1>2, <2>1, Iterates
  <2>3. g \in [0 .. m -> Cut] /\ g[0] = none /\ \A n \in 1 .. m : g[n] = h[<<n, g[n - 1]>>]
    BY DEF Iterated
  <2>4. ASSUME NEW n \in 0 .. m PROVE g[n] = IF n = 0 THEN none ELSE CutStep(g[n - 1], p[n])
    <3>1. CASE n = 0
      BY <2>3, <3>1
    <3>2. CASE n # 0
      <4>1. n \in 1 .. m /\ n - 1 \in 0 .. m
        BY <1>1, <3>2
      <4>. QED  BY <2>2, <2>3, <3>2, <4>1
    <3>. QED  BY <3>1, <3>2
  <2>5. g = [n \in 0 .. m |-> g[n]]
    BY <2>3
  <2>. QED  BY <2>4, <2>5 DEF Cuts, none
<1>. DEFINE f == CHOOSE g : g = [n \in 0 .. Len(p) |->
                   IF n = 0 THEN [parts |-> << >>, part |-> << >>]
                   ELSE IF p[n] = "*" THEN [parts |-> Filed(g[n - 1]), part |-> << >>]
                   ELSE [parts |-> g[n - 1].parts, part |-> Append(g[n - 1].part, p[n])]]
<1>4. Parts(p) = Filed(f[Len(p)])
  BY DEF Parts
<1>5. Cuts(f, p)
  <2>1. \E g : g = [n \in 0 .. Len(p) |->
                   IF n = 0 THEN [parts |-> << >>, part |-> << >>]
                   ELSE IF p[n] = "*" THEN [parts |-> Filed(g[n - 1]), part |-> << >>]
                   ELSE [parts |-> g[n - 1].parts, part |-> Append(g[n - 1].part, p[n])]]
    BY <1>3 DEF Cuts, CutStep
  <2>2. f = [n \in 0 .. Len(p) |->
                   IF n = 0 THEN [parts |-> << >>, part |-> << >>]
                   ELSE IF p[n] = "*" THEN [parts |-> Filed(f[n - 1]), part |-> << >>]
                   ELSE [parts |-> f[n - 1].parts, part |-> Append(f[n - 1].part, p[n])]]
    BY <2>1
  <2>. QED  BY <2>2 DEF Cuts, CutStep
<1>. HIDE DEF f
<1>6. f \in [0 .. m -> Cut]
  <2>1. /\ f = [n \in 0 .. m |-> f[n]] /\ f[0] = none
        /\ \A n \in 0 .. m : n # 0 => f[n] = CutStep(f[n - 1], p[n])
    BY <1>1, <1>5 DEF Cuts
  <2>. DEFINE T == {n \in 0 .. m : f[n] \in Cut}
  <2>2. 0 \in T
    BY <1>1, <1>2, <2>1
  <2>3. ASSUME NEW n \in T, n # m PROVE n + 1 \in T
    <3>1. n + 1 \in 0 .. m /\ n + 1 \in 1 .. m /\ n + 1 # 0 /\ n + 1 - 1 = n /\ f[n] \in Cut
      BY <1>1, <2>3
    <3>2. f[n + 1] = CutStep(f[n], p[n + 1])
      BY <2>1, <3>1
    <3>3. CutStep(f[n], p[n + 1]) \in Cut
      BY <1>1, <3>1, CutIsCut
    <3>. QED  BY <3>1, <3>2, <3>3
  <2>4. T = 0 .. m
    <3>1. T \in SUBSET (0 .. m)
      OBVIOUS
    <3>. HIDE DEF T
    <3>. QED  BY <1>1, <2>2, <2>3, <3>1, Climb
  <2>. QED  BY <2>1, <2>4
<1>. QED  BY <1>4, <1>5, <1>6

-----------------------------------------------------------------------------
(* What a glob means, and where the cursor goes.                           *)

ReachStep(r, x, s) ==
  IF x = "*" THEN {j \in 0 .. Len(s) : \E k \in r : k <= j}
  ELSE {j \in 1 .. Len(s) : s[j] = x /\ j - 1 \in r}

Reaches(f, p, s) ==
  f = [n \in 0 .. Len(p) |-> IF n = 0 THEN {0} ELSE ReachStep(f[n - 1], p[n], s)]

\* What a glob means is what its last character reaches.
LEMMA MeansIsReached ==
  ASSUME NEW p \in Pattern, NEW s \in Seq(Char)
  PROVE  \E f : /\ f[0] = {0}
                /\ \A n \in 1 .. Len(p) : f[n] = ReachStep(f[n - 1], p[n], s)
                /\ GlobMeans(p, s) <=> Len(s) \in f[Len(p)]
<1>1. Len(p) \in Nat /\ Len(s) \in Nat
  BY DEF Pattern
<1>. PICK m : m = Len(p)
  OBVIOUS
<1>2. \E g : Reaches(g, p, s)
  <2>. DEFINE V == SUBSET (0 .. Len(s))
              h == [x \in (1 .. m) \X V |-> ReachStep(x[2], p[x[1]], s)]
  <2>1. \A n \in 1 .. m, r \in V : ReachStep(r, p[n], s) \in V
    BY <1>1 DEF ReachStep
  <2>2. h \in [(1 .. m) \X V -> V]
    BY <2>1
  <2>3. \A n \in 1 .. m, r \in V : h[<<n, r>>] = ReachStep(r, p[n], s)
    OBVIOUS
  <2>4. {0} \in V
    BY <1>1
  <2>. HIDE DEF h, V
  <2>. PICK g : Iterated(g, V, {0}, m, h)
    BY <1>1, <2>2, <2>4, Iterates
  <2>5. g \in [0 .. m -> V] /\ g[0] = {0} /\ \A n \in 1 .. m : g[n] = h[<<n, g[n - 1]>>]
    BY DEF Iterated
  <2>6. ASSUME NEW n \in 0 .. m PROVE g[n] = IF n = 0 THEN {0} ELSE ReachStep(g[n - 1], p[n], s)
    <3>1. CASE n = 0
      BY <2>5, <3>1
    <3>2. CASE n # 0
      <4>1. n \in 1 .. m /\ n - 1 \in 0 .. m
        BY <1>1, <3>2
      <4>. QED  BY <2>3, <2>5, <3>2, <4>1
    <3>. QED  BY <3>1, <3>2
  <2>7. g = [n \in 0 .. m |-> g[n]]
    BY <2>5
  <2>8. g = [n \in 0 .. m |-> IF n = 0 THEN {0} ELSE ReachStep(g[n - 1], p[n], s)]
    BY ZenonT(60), <2>6, <2>7
  <2>. QED  BY <2>8 DEF Reaches
<1>. DEFINE f == CHOOSE g : g = [n \in 0 .. Len(p) |->
                   IF n = 0 THEN {0}
                   ELSE IF p[n] = "*" THEN {j \in 0 .. Len(s) : \E k \in g[n - 1] : k <= j}
                   ELSE {j \in 1 .. Len(s) : s[j] = p[n] /\ j - 1 \in g[n - 1]}]
<1>3. GlobMeans(p, s) <=> Len(s) \in f[Len(p)]
  BY DEF GlobMeans
<1>4. Reaches(f, p, s)
  <2>1. \E g : g = [n \in 0 .. Len(p) |->
                   IF n = 0 THEN {0}
                   ELSE IF p[n] = "*" THEN {j \in 0 .. Len(s) : \E k \in g[n - 1] : k <= j}
                   ELSE {j \in 1 .. Len(s) : s[j] = p[n] /\ j - 1 \in g[n - 1]}]
    BY <1>2 DEF Reaches, ReachStep
  <2>2. f = [n \in 0 .. Len(p) |->
                   IF n = 0 THEN {0}
                   ELSE IF p[n] = "*" THEN {j \in 0 .. Len(s) : \E k \in f[n - 1] : k <= j}
                   ELSE {j \in 1 .. Len(s) : s[j] = p[n] /\ j - 1 \in f[n - 1]}]
    BY <2>1
  <2>. QED  BY <2>2 DEF Reaches, ReachStep
<1>. HIDE DEF f
<1>5. f[0] = {0}
  BY <1>1, <1>4 DEF Reaches
<1>6. ASSUME NEW n \in 1 .. Len(p) PROVE f[n] = ReachStep(f[n - 1], p[n], s)
  <2>1. n \in 0 .. Len(p) /\ n # 0
    BY <1>1
  <2>. QED  BY <1>4, <2>1 DEF Reaches
<1>. QED  BY <1>3, <1>5, <1>6

\* The text up to e ends in the part.
EndsAt(s, e, part) ==
  Len(part) <= e /\ \A i \in 1 .. Len(part) : s[e - Len(part) + i] = part[i]

\* The same with SubSeq.
LEMMA EndsIsSubSeq ==
  ASSUME NEW s \in Seq(Char), NEW part \in Seq(Char), NEW e \in 0 .. Len(s), Len(part) <= e,
         NEW first, first = e - Len(part) + 1
  PROVE  SubSeq(s, first, e) = part <=> EndsAt(s, e, part)
<1>. PICK k \in Nat : k = Len(part)
  OBVIOUS
<1>0. first = e - k + 1
  OBVIOUS
<1>. PICK t : t = SubSeq(s, e - k + 1, e)
  OBVIOUS
<1>1. e - k + 1 \in 1 .. Len(s) + 1 /\ e \in (e - k + 1) - 1 .. Len(s)
  OBVIOUS
<1>2. /\ t \in Seq(Char) /\ Len(t) = e - (e - k + 1) + 1
      /\ \A i \in 1 .. e - (e - k + 1) + 1 : t[i] = s[e - k + 1 + i - 1]
  BY <1>1, SubSeqProperties
<1>3. e - (e - k + 1) + 1 = k /\ \A i \in 1 .. k : e - k + 1 + i - 1 = e - k + i
  OBVIOUS
<1>4. Len(t) = k /\ \A i \in 1 .. k : t[i] = s[e - k + i]
  BY <1>2, <1>3
<1>5. t = part <=> \A i \in 1 .. k : t[i] = part[i]
  BY <1>2, <1>4, SeqEqual
<1>. QED  BY <1>0, <1>4, <1>5 DEF EndsAt

\* IsPrefix, position by position.
LEMMA PrefixIs ==
  ASSUME NEW s \in Seq(Char), NEW part \in Seq(Char)
  PROVE  IsPrefix(part, s) <=> Len(part) <= Len(s) /\ EndsAt(s, Len(part), part)
<1>. PICK k \in Nat : k = Len(part)
  OBVIOUS
<1>. SUFFICES ASSUME k <= Len(s)
              PROVE  SubSeq(part, 1, k) = SubSeq(s, 1, k) <=> EndsAt(s, k, part)
  BY DEF IsPrefix
<1>1. SubSeq(part, 1, k) = part
  OBVIOUS
<1>2. k \in 0 .. Len(s) /\ Len(part) <= k /\ 1 = k - Len(part) + 1
  OBVIOUS
<1>3. SubSeq(s, 1, k) = part <=> EndsAt(s, k, part)
  BY <1>2, EndsIsSubSeq
<1>. QED  BY <1>1, <1>2, <1>3

\* Reverse, position by position.
LEMMA ReverseIs ==
  ASSUME NEW s \in Seq(Char)
  PROVE  /\ Reverse(s) \in Seq(Char) /\ Len(Reverse(s)) = Len(s)
         /\ \A i \in 1 .. Len(s) : Reverse(s)[i] = s[Len(s) - i + 1]
<1>1. \A i \in 1 .. Len(s) : Len(s) - i + 1 \in 1 .. Len(s)
  OBVIOUS
<1>. QED  BY <1>1 DEF Reverse

\* IsSuffix, position by position.
LEMMA SuffixIs ==
  ASSUME NEW s \in Seq(Char), NEW part \in Seq(Char)
  PROVE  IsSuffix(part, s) <=> Len(part) <= Len(s) /\ EndsAt(s, Len(s), part)
<1>. PICK k \in Nat : k = Len(part)
  OBVIOUS
<1>. PICK m \in Nat : m = Len(s)
  OBVIOUS
<1>. PICK a : a = Reverse(part)
  OBVIOUS
<1>. PICK b : b = Reverse(s)
  OBVIOUS
<1>1. /\ a \in Seq(Char) /\ Len(a) = k /\ \A i \in 1 .. k : a[i] = part[k - i + 1]
      /\ b \in Seq(Char) /\ Len(b) = m /\ \A i \in 1 .. m : b[i] = s[m - i + 1]
  BY ReverseIs
<1>2. IsSuffix(part, s) <=> k <= m /\ EndsAt(b, k, a)
  BY <1>1, PrefixIs DEF IsSuffix
<1>. SUFFICES ASSUME k <= m PROVE EndsAt(b, k, a) <=> EndsAt(s, m, part)
  BY <1>2
<1>3. EndsAt(b, k, a) <=> \A i \in 1 .. k : b[i] = a[i]
  BY <1>1 DEF EndsAt
<1>4. EndsAt(s, m, part) <=> \A i \in 1 .. k : s[m - k + i] = part[i]
  BY DEF EndsAt
<1>5. ASSUME NEW i \in 1 .. k
      PROVE  /\ k - i + 1 \in 1 .. k /\ k - (k - i + 1) + 1 = i
             /\ m - k + i = m - (k - i + 1) + 1 /\ k - i + 1 \in 1 .. m /\ i \in 1 .. m
             /\ m - k + (k - i + 1) = m - i + 1
  OBVIOUS
<1>6. ASSUME \A i \in 1 .. k : b[i] = a[i], NEW i \in 1 .. k PROVE s[m - k + i] = part[i]
  <2>. PICK j \in 1 .. k : j = k - i + 1
    BY <1>5
  <2>1. b[j] = s[m - j + 1] /\ a[j] = part[k - j + 1]
    BY <1>1, <1>5
  <2>2. m - j + 1 = m - k + i /\ k - j + 1 = i
    OBVIOUS
  <2>. QED  BY <1>6, <2>1, <2>2
<1>7. ASSUME \A i \in 1 .. k : s[m - k + i] = part[i], NEW i \in 1 .. k PROVE b[i] = a[i]
  <2>. PICK j \in 1 .. k : j = k - i + 1
    BY <1>5
  <2>1. b[i] = s[m - i + 1] /\ a[i] = part[k - i + 1] /\ s[m - k + j] = part[j]
    BY <1>1, <1>5, <1>7
  <2>2. m - k + j = m - i + 1
    OBVIOUS
  <2>. QED  BY <2>1, <2>2
<1>. QED  BY <1>3, <1>4, <1>6, <1>7

\* Any text ends in the empty part.
LEMMA EndsInNone == ASSUME NEW s, NEW e \in Nat PROVE EndsAt(s, e, << >>)
BY DEF EndsAt

\* What a text that ends in a longer part says.
LEMMA EndsInMore ==
  ASSUME NEW s \in Seq(Char), NEW part \in Seq(Char), NEW x \in Char, NEW e \in 0 .. Len(s)
  PROVE  EndsAt(s, e, Append(part, x)) <=> e # 0 /\ s[e] = x /\ EndsAt(s, e - 1, part)
<1>. PICK k \in Nat : k = Len(part)
  OBVIOUS
<1>. PICK q : q = Append(part, x)
  OBVIOUS
<1>1. Len(q) = k + 1 /\ q[k + 1] = x /\ \A i \in 1 .. k : q[i] = part[i]
  BY AppendProperties
<1>2. EndsAt(s, e, q) <=> k + 1 <= e /\ \A i \in 1 .. k + 1 : s[e - (k + 1) + i] = q[i]
  BY <1>1 DEF EndsAt
<1>3. EndsAt(s, e - 1, part) <=> k <= e - 1 /\ \A i \in 1 .. k : s[e - 1 - k + i] = part[i]
  BY DEF EndsAt
<1>4. \A i \in 1 .. k + 1 : e - (k + 1) + i = e - 1 - k + i /\ (i = k + 1 \/ i \in 1 .. k)
  OBVIOUS
<1>5. \A i \in 1 .. k : i \in 1 .. k + 1
  OBVIOUS
<1>6. e - (k + 1) + (k + 1) = e /\ k + 1 \in 1 .. k + 1
  OBVIOUS
<1>7. (\A i \in 1 .. k + 1 : s[e - (k + 1) + i] = q[i])
        <=> s[e] = x /\ \A i \in 1 .. k : s[e - 1 - k + i] = part[i]
  <2>1. ASSUME \A i \in 1 .. k + 1 : s[e - (k + 1) + i] = q[i]
        PROVE  s[e] = x /\ \A i \in 1 .. k : s[e - 1 - k + i] = part[i]
    <3>1. s[e] = x
      BY <1>1, <1>6, <2>1
    <3>2. ASSUME NEW i \in 1 .. k PROVE s[e - 1 - k + i] = part[i]
      BY <1>1, <1>4, <1>5, <2>1
    <3>. QED  BY <3>1, <3>2
  <2>2. ASSUME s[e] = x, \A i \in 1 .. k : s[e - 1 - k + i] = part[i], NEW i \in 1 .. k + 1
        PROVE  s[e - (k + 1) + i] = q[i]
    <3>1. CASE i = k + 1
      BY <1>1, <1>6, <2>2, <3>1
    <3>2. CASE i \in 1 .. k
      <4>1. e - (k + 1) + i = e - 1 - k + i
        BY <1>4
      <4>. QED  BY <1>1, <2>2, <3>2, <4>1
    <3>. QED  BY <1>4, <3>1, <3>2
  <2>. QED  BY <2>1, <2>2
<1>8. k + 1 <= e <=> e # 0 /\ k <= e - 1
  OBVIOUS
<1>. QED  BY <1>2, <1>3, <1>7, <1>8

-----------------------------------------------------------------------------
(* Where the cursor goes.                                                  *)

Cursors(s) == {<< >>} \cup {<<e>> : e \in 0 .. Len(s)}

\* v is the first end of the part behind x, or says that there is none.
Found(v, s, x, part) ==
  \/ /\ v = << >>
     /\ \A e \in 0 .. Len(s) : x + Len(part) <= e => ~EndsAt(s, e, part)
  \/ \E e \in 0 .. Len(s) :
       /\ v = <<e>> /\ x + Len(part) <= e /\ EndsAt(s, e, part)
       /\ \A d \in 0 .. Len(s) : x + Len(part) <= d /\ EndsAt(s, d, part) => e <= d

\* str::find finds the first end.
LEMMA FindIs ==
  ASSUME NEW s \in Seq(Char), NEW part \in Seq(Char), NEW x \in Nat
  PROVE  Found(Find(s, x, part), s, x, part)
<1>. PICK k \in Nat : k = Len(part)
  OBVIOUS
<1>. DEFINE Hit(e) == SubSeq(s, e - k + 1, e) = part
            E == {e \in (x + k) .. Len(s) : Hit(e)}
<1>1. \A e : e \in E <=> e \in 0 .. Len(s) /\ x + k <= e /\ EndsAt(s, e, part)
  <2>1. \A e \in (x + k) .. Len(s) : e \in 0 .. Len(s) /\ k <= e
    OBVIOUS
  <2>2. ASSUME NEW e \in (x + k) .. Len(s)
        PROVE  Hit(e) <=> EndsAt(s, e, part)
    <3>. PICK a : a = e - k + 1
      OBVIOUS
    <3>1. e \in 0 .. Len(s) /\ Len(part) <= e /\ a = e - Len(part) + 1
      BY <2>1
    <3>2. SubSeq(s, a, e) = part <=> EndsAt(s, e, part)
      BY <3>1, EndsIsSubSeq
    <3>. QED  BY <3>2
  <2>. HIDE DEF Hit
  <2>3. \A e : e \in (x + k) .. Len(s) <=> e \in 0 .. Len(s) /\ x + k <= e
    OBVIOUS
  <2>. QED  BY <2>2, <2>3
<1>2. Find(s, x, part) = IF E = {} THEN << >> ELSE <<CHOOSE e \in E : \A d \in E : e <= d>>
  BY DEF Find
<1>. HIDE DEF E
<1>3. CASE E = {}
  BY <1>1, <1>2, <1>3 DEF Found
<1>4. CASE E # {}
  <2>1. E \in SUBSET Nat
    BY <1>1
  <2>2. \E e \in E : \A d \in E : e <= d
    BY <1>4, <2>1, LeastMember
  <2>3. PICK e \in E : Find(s, x, part) = <<e>> /\ \A d \in E : e <= d
    BY <1>2, <1>4, <2>2
  <2>. QED  BY <1>1, <2>3 DEF Found
<1>. QED  BY <1>3, <1>4

\* One step of the cursor, from part to part.
CursorStep(p, ps, s, i, v) ==
  IF i = 1 THEN IF StartsWild(p) THEN Find(s, 0, ps[1])
                ELSE IF IsPrefix(ps[1], s) THEN <<Len(ps[1])>> ELSE << >>
  ELSE IF v = << >> THEN << >>
  ELSE IF i = Len(ps) /\ ~EndsWild(p) THEN EndsWith(s, v[1], ps[i])
  ELSE Find(s, v[1], ps[i])

\* The cursor stays in the text.
LEMMA CursorStays ==
  ASSUME NEW p, NEW ps \in Seq(Seq(Char)), NEW s \in Seq(Char), NEW i \in 1 .. Len(ps),
         NEW v \in Cursors(s)
  PROVE  CursorStep(p, ps, s, i, v) \in Cursors(s)
<1>1. ASSUME NEW part \in Seq(Char), NEW x \in Nat PROVE Find(s, x, part) \in Cursors(s)
  <2>1. Found(Find(s, x, part), s, x, part)
    BY FindIs
  <2>. QED  BY <2>1 DEF Found, Cursors
<1>2. ps[1] \in Seq(Char) /\ ps[i] \in Seq(Char)
  OBVIOUS
<1>3. Len(s) \in 0 .. Len(s) /\ Len(ps[1]) \in Nat
  BY <1>2
<1>4. IsPrefix(ps[1], s) => Len(ps[1]) \in 0 .. Len(s)
  BY <1>3 DEF IsPrefix
<1>5. v # << >> => v[1] \in Nat
  <2>1. \A e : <<e>>[1] = e
    OBVIOUS
  <2>. QED  BY <2>1 DEF Cursors
<1>6. ASSUME NEW x PROVE EndsWith(s, x, ps[i]) \in Cursors(s)
  BY <1>3 DEF EndsWith, Cursors
<1>7. << >> \in Cursors(s) /\ \A e \in 0 .. Len(s) : <<e>> \in Cursors(s)
  BY DEF Cursors
<1>. QED  BY <1>1, <1>2, <1>4, <1>5, <1>6, <1>7 DEF CursorStep

Runs(g, p, ps, s) ==
  /\ g \in [0 .. Len(ps) -> Cursors(s)]
  /\ g[0] = <<0>>
  /\ \A i \in 1 .. Len(ps) : g[i] = CursorStep(p, ps, s, i, g[i - 1])

\* What a pattern matches is where its cursor comes to.
LEMMA MatchesIsRun ==
  ASSUME NEW p, Parts(p) \in Seq(Seq(Char)), NEW s \in Seq(Char)
  PROVE  \E g : /\ Runs(g, p, Parts(p), s)
                /\ GlobMatches(p, s) <=>
                     \/ Parts(p) = << >>
                     \/ /\ g[Len(Parts(p))] # << >>
                        /\ EndsWild(p) \/ g[Len(Parts(p))][1] = Len(s)
<1>. PICK ps : ps = Parts(p)
  OBVIOUS
<1>. PICK m \in Nat : m = Len(ps)
  OBVIOUS
<1>1. \E g : Runs(g, p, ps, s)
  <2>. DEFINE h == [x \in (1 .. m) \X Cursors(s) |-> CursorStep(p, ps, s, x[1], x[2])]
  <2>1. h \in [(1 .. m) \X Cursors(s) -> Cursors(s)]
    BY CursorStays
  <2>2. \A i \in 1 .. m, v \in Cursors(s) : h[<<i, v>>] = CursorStep(p, ps, s, i, v)
    OBVIOUS
  <2>3. <<0>> \in Cursors(s)
    BY DEF Cursors
  <2>. HIDE DEF h
  <2>. PICK g : Iterated(g, Cursors(s), <<0>>, m, h)
    BY <2>1, <2>3, Iterates
  <2>4. g \in [0 .. m -> Cursors(s)] /\ g[0] = <<0>> /\ \A n \in 1 .. m : g[n] = h[<<n, g[n - 1]>>]
    BY DEF Iterated
  <2>5. ASSUME NEW i \in 1 .. m PROVE g[i] = CursorStep(p, ps, s, i, g[i - 1])
    <3>1. i - 1 \in 0 .. m
      OBVIOUS
    <3>. QED  BY <2>2, <2>4, <3>1
  <2>. QED  BY <2>4, <2>5 DEF Runs
<1>2. PICK g : Runs(g, p, ps, s)
  BY <1>1
<1>3. /\ g \in [0 .. m -> Cursors(s)] /\ g[0] = <<0>>
      /\ \A i \in 1 .. m : g[i] = CursorStep(p, ps, s, i, g[i - 1])
  BY <1>2 DEF Runs
<1>. DEFINE first == IF StartsWild(p) THEN Find(s, 0, ps[1])
                     ELSE IF IsPrefix(ps[1], s) THEN <<Len(ps[1])>> ELSE << >>
            Step2(c, i) == IF i = 1 THEN first
                     ELSE IF c[i - 1] = << >> THEN << >>
                     ELSE IF i = Len(ps) /\ ~EndsWild(p) THEN EndsWith(s, c[i - 1][1], ps[i])
                     ELSE Find(s, c[i - 1][1], ps[i])
            cursor == CHOOSE c : c = [i \in 1 .. Len(ps) |-> Step2(c, i)]
<1>4. GlobMatches(p, s) <=>
        \/ ps = << >>
        \/ cursor[Len(ps)] # << >> /\ (EndsWild(p) \/ cursor[Len(ps)][1] = Len(s))
  BY DEF GlobMatches
<1>5. \A c, i : Step2(c, i) = CursorStep(p, ps, s, i, c[i - 1])
  BY DEF CursorStep
<1>6. \E c : c = [i \in 1 .. Len(ps) |-> Step2(c, i)]
  <2>. DEFINE c == [i \in 1 .. m |-> g[i]]
  <2>1. ASSUME NEW i \in 1 .. m PROVE Step2(c, i) = g[i]
    <3>1. CASE i = 1
      BY <1>3, <3>1 DEF CursorStep
    <3>2. CASE i # 1
      <4>1. i - 1 \in 1 .. m
        BY <3>2
      <4>2. c[i - 1] = g[i - 1]
        BY <4>1
      <4>. HIDE DEF c, Step2
      <4>3. Step2(c, i) = CursorStep(p, ps, s, i, g[i - 1])
        BY <1>5, <4>2
      <4>. QED  BY <1>3, <4>3
    <3>. QED  BY <3>1, <3>2
  <2>. HIDE DEF Step2
  <2>2. c = [i \in 1 .. Len(ps) |-> Step2(c, i)]
    BY <2>1
  <2>. QED  BY <2>2
<1>. HIDE DEF Step2
<1>7. cursor = [i \in 1 .. Len(ps) |-> Step2(cursor, i)]
  BY <1>6
<1>. HIDE DEF cursor
<1>8. \A i \in 1 .. m : cursor[i] = CursorStep(p, ps, s, i, cursor[i - 1])
  BY <1>5, <1>7
<1>. DEFINE T == {i \in 0 .. m : i = 0 \/ cursor[i] = g[i]}
<1>9. T = 0 .. m
  <2>1. 0 \in T /\ T \in SUBSET (0 .. m)
    OBVIOUS
  <2>2. ASSUME NEW n \in T, n # m PROVE n + 1 \in T
    <3>. PICK i : i = n + 1
      OBVIOUS
    <3>1. i \in 1 .. m /\ i \in 0 .. m /\ i - 1 = n /\ n \in 0 .. m
      BY <2>2
    <3>2. cursor[i] = CursorStep(p, ps, s, i, cursor[n]) /\ g[i] = CursorStep(p, ps, s, i, g[n])
      BY <1>3, <1>8, <3>1
    <3>3. CASE n = 0
      <4>1. i = 1
        BY <3>1, <3>3
      <4>2. CursorStep(p, ps, s, i, cursor[n]) = CursorStep(p, ps, s, i, g[n])
        BY <4>1 DEF CursorStep
      <4>. QED  BY <3>1, <3>2, <4>2
    <3>4. CASE n # 0
      <4>1. cursor[n] = g[n]
        BY <3>4
      <4>. QED  BY <3>1, <3>2, <4>1
    <3>. QED  BY <3>3, <3>4
  <2>. HIDE DEF T
  <2>. QED  BY <2>1, <2>2, Climb
<1>10. ps # << >> => cursor[m] = g[m]
  <2>1. ps # << >> => m # 0
    OBVIOUS
  <2>2. m \in T
    BY <1>9
  <2>. QED  BY <2>1, <2>2
<1>. QED  BY <1>2, <1>4, <1>10

-----------------------------------------------------------------------------
(* The parts found so far lead the parts of the whole pattern.             *)

Leads(a, b) == Len(a) <= Len(b) /\ \A i \in 1 .. Len(a) : a[i] = b[i]

\* Leads is transitive.
LEMMA LeadsOn ==
  ASSUME NEW S, NEW a \in Seq(S), NEW b \in Seq(S), NEW c \in Seq(S), Leads(a, b), Leads(b, c)
  PROVE  Leads(a, c)
<1>1. Len(a) \in Nat /\ Len(b) \in Nat /\ Len(c) \in Nat
  OBVIOUS
<1>2. \A i \in 1 .. Len(a) : i \in 1 .. Len(b)
  BY <1>1 DEF Leads
<1>. QED  BY <1>1, <1>2 DEF Leads

\* A part that is filed comes behind the others.
LEMMA FiledLeads ==
  ASSUME NEW c \in Cut
  PROVE  /\ Leads(c.parts, Filed(c))
         /\ Filed(c) \in Seq(Seq(Char))
         /\ c.part = << >> => Filed(c) = c.parts
         /\ c.part # << >> => /\ Len(Filed(c)) = Len(c.parts) + 1
                              /\ Filed(c)[Len(c.parts) + 1] = c.part
<1>1. c.parts \in Seq(Seq(Char)) /\ c.part \in Seq(Char)
  BY DEF Cut
<1>2. CASE c.part = << >>
  BY <1>1, <1>2 DEF Filed, Leads
<1>3. CASE c.part # << >>
  <2>1. Filed(c) = Append(c.parts, c.part)
    BY <1>3 DEF Filed
  <2>. QED  BY <1>1, <1>3, <2>1, AppendProperties DEF Leads
<1>. QED  BY <1>2, <1>3

\* The parts are found from the front to the back.
LEMMA CutsLead ==
  ASSUME NEW p \in Pattern, NEW f \in [0 .. Len(p) -> Cut], Cuts(f, p)
  PROVE  \A n \in 0 .. Len(p) : Leads(f[n].parts, f[Len(p)].parts)
<1>. PICK m \in Nat : m = Len(p)
  BY DEF Pattern
<1>0. \A n \in 0 .. m : f[n] \in Cut /\ f[n].parts \in Seq(Seq(Char))
  BY DEF Cut
<1>1. \A n \in 0 .. m : n # 0 => f[n] = CutStep(f[n - 1], p[n])
  BY DEF Cuts
<1>2. ASSUME NEW n \in 0 .. m, n # 0 PROVE Leads(f[n - 1].parts, f[n].parts)
  <2>1. n - 1 \in 0 .. m
    BY <1>2
  <2>2. f[n].parts = Filed(f[n - 1]) \/ f[n].parts = f[n - 1].parts
    BY <1>1, <1>2 DEF CutStep
  <2>3. Leads(f[n - 1].parts, Filed(f[n - 1]))
    BY <2>1, FiledLeads
  <2>4. Leads(f[n - 1].parts, f[n - 1].parts)
    BY <1>0, <2>1 DEF Leads
  <2>. QED  BY <2>2, <2>3, <2>4
<1>. DEFINE T == {d \in 0 .. m : Leads(f[m - d].parts, f[m].parts)}
<1>3. 0 \in T
  <2>1. m - 0 = m /\ m \in 0 .. m
    OBVIOUS
  <2>. QED  BY <1>0, <2>1 DEF Leads
<1>4. ASSUME NEW d \in T, d # m PROVE d + 1 \in T
  <2>. PICK n : n = m - d
    OBVIOUS
  <2>1. n \in 0 .. m /\ n # 0 /\ n - 1 = m - (d + 1) /\ n - 1 \in 0 .. m /\ d + 1 \in 0 .. m
    BY <1>4
  <2>2. Leads(f[n].parts, f[m].parts) /\ m \in 0 .. m
    BY <1>4
  <2>3. Leads(f[n - 1].parts, f[n].parts)
    BY <1>2, <2>1
  <2>4. Leads(f[n - 1].parts, f[m].parts)
    BY <1>0, <2>1, <2>2, <2>3, LeadsOn
  <2>. QED  BY <2>1, <2>4
<1>5. T = 0 .. m
  <2>1. T \in SUBSET (0 .. m)
    OBVIOUS
  <2>. HIDE DEF T
  <2>. QED  BY <1>3, <1>4, <2>1, Climb
<1>6. ASSUME NEW n \in 0 .. m PROVE Leads(f[n].parts, f[m].parts)
  <2>1. m - n \in 0 .. m /\ m - (m - n) = n
    OBVIOUS
  <2>. QED  BY <1>5, <2>1
<1>. QED  BY <1>6

\* What the cuts of a pattern say of its parts: at every character those found so
\* far lead them, at a star those with the one that ends there; the last part is
\* still to come when the pattern does not end in a star.
CutsFit(f, p, ps) ==
  /\ \A n \in 0 .. Len(p) : Leads(f[n].parts, ps)
  /\ f[0].parts = << >> /\ f[0].part = << >>
  /\ \A n \in 1 .. Len(p) : f[n] = CutStep(f[n - 1], p[n])
  /\ ps = Filed(f[Len(p)])
  /\ ~EndsWild(p) /\ p # << >> =>
       /\ f[Len(p)].part # << >>
       /\ \A n \in 0 .. Len(p) : Len(f[n].parts) < Len(ps)

\* So the cuts fit.
LEMMA CutsDoFit ==
  ASSUME NEW p \in Pattern
  PROVE  \E f \in [0 .. Len(p) -> Cut] : CutsFit(f, p, Parts(p)) /\ Parts(p) \in Seq(Seq(Char))
<1>. PICK m \in Nat : m = Len(p)
  BY DEF Pattern
<1>. PICK f \in [0 .. Len(p) -> Cut] : Cuts(f, p) /\ Parts(p) = Filed(f[Len(p)])
  BY PartsAreCut
<1>. PICK ps : ps = Parts(p)
  OBVIOUS
<1>1. \A n \in 0 .. m : f[n] \in Cut /\ f[n].parts \in Seq(Seq(Char)) /\ f[n].part \in Seq(Char)
  BY DEF Cut
<1>2. m \in 0 .. m
  OBVIOUS
<1>3. /\ ps \in Seq(Seq(Char)) /\ Leads(f[m].parts, ps)
      /\ f[m].part # << >> => Len(ps) = Len(f[m].parts) + 1
  BY <1>2, FiledLeads
<1>4. \A n \in 0 .. m : Leads(f[n].parts, f[m].parts)
  BY CutsLead
<1>5. \A n \in 0 .. m : Leads(f[n].parts, ps)
  BY <1>1, <1>2, <1>3, <1>4, LeadsOn
<1>6. f[0].parts = << >> /\ f[0].part = << >>
  <2>1. 0 \in 0 .. Len(p)
    OBVIOUS
  <2>. QED  BY <2>1 DEF Cuts
<1>7. \A n \in 1 .. m : f[n] = CutStep(f[n - 1], p[n])
  <2>1. \A n \in 1 .. m : n \in 0 .. m /\ n # 0
    OBVIOUS
  <2>. QED  BY <2>1 DEF Cuts
<1>8. ASSUME ~EndsWild(p), p # << >>
      PROVE  f[m].part # << >> /\ \A n \in 0 .. m : Len(f[n].parts) < Len(ps)
  <2>1. m \in 1 .. m /\ m - 1 \in 0 .. m
    BY <1>8 DEF Pattern
  <2>2. p[m] # "*" /\ p[m] \in Char
    <3>1. p[m] \in Char \cup {"*"}
      BY <2>1 DEF Pattern
    <3>. QED  BY <1>8, <3>1 DEF EndsWild, Last
  <2>. PICK c : c = f[m - 1]
    OBVIOUS
  <2>. PICK y : y = p[m]
    OBVIOUS
  <2>3. f[m] = CutStep(c, y) /\ y # "*" /\ y \in Char /\ c.part \in Seq(Char)
    BY <1>1, <1>7, <2>1, <2>2
  <2>4. f[m].part # << >>
    <3>1. f[m] = [parts |-> c.parts, part |-> Append(c.part, y)]
      BY <2>3 DEF CutStep
    <3>2. Append(c.part, y) # << >>
      BY <2>3, AppendProperties
    <3>. QED  BY <3>1, <3>2
  <2>5. ASSUME NEW n \in 0 .. m PROVE Len(f[n].parts) < Len(ps)
    <3>1. Len(f[n].parts) <= Len(f[m].parts)
      BY <1>4 DEF Leads
    <3>2. Len(f[n].parts) \in Nat /\ Len(f[m].parts) \in Nat
      BY <1>1, <1>2
    <3>. QED  BY <1>3, <2>4, <3>1, <3>2
  <2>. QED  BY <2>4, <2>5
<1>. QED  BY <1>3, <1>5, <1>6, <1>7, <1>8 DEF CutsFit

-----------------------------------------------------------------------------
(* The cursor and what the pattern means, character by character.          *)

Starred(p, n) == \E i \in 1 .. n : p[i] = "*"

\* v lets the part end at j: the cursor is there, and the part fits behind it.
Lets(v, s, part, j) == v # << >> /\ v[1] + Len(part) <= j /\ EndsAt(s, j, part)

\* After n characters of p the parts and the part of the cut are found, and r is what
\* they reach: before the first star the one text they are, and then any text behind
\* the cursor of the parts that ends in the part.
Tracks(p, s, g, n, c, r) ==
  IF Starred(p, n)
  THEN /\ c.parts = << >> => StartsWild(p)
       /\ \A j \in 0 .. Len(s) : j \in r <=> Lets(g[Len(c.parts)], s, c.part, j)
  ELSE /\ c.parts = << >> /\ Len(c.part) = n
       /\ \A j \in 0 .. Len(s) : j \in r <=> j = n /\ EndsAt(s, n, c.part)

\* What a cursor is.
LEMMA CursorIs ==
  ASSUME NEW s \in Seq(Char), NEW v \in Cursors(s), v # << >>
  PROVE  v[1] \in 0 .. Len(s) /\ v = <<v[1]>>
<1>1. \A e : <<e>>[1] = e
  OBVIOUS
<1>. QED  BY <1>1 DEF Cursors

\* A letter that is no star makes the part longer.
LEMMA LetterTracks ==
  ASSUME NEW p \in Pattern, NEW s \in Seq(Char), NEW ps, NEW g, Runs(g, p, ps, s),
         NEW n \in 0 .. Len(p), n # Len(p), p[n + 1] # "*",
         NEW c \in Cut, Len(c.parts) \in 0 .. Len(ps), NEW r, Tracks(p, s, g, n, c, r)
  PROVE  Tracks(p, s, g, n + 1, CutStep(c, p[n + 1]), ReachStep(r, p[n + 1], s))
<1>. PICK m \in Nat : m = Len(s)
  OBVIOUS
<1>. PICK y : y = p[n + 1]
  OBVIOUS
<1>. PICK w : w = Append(c.part, y)
  OBVIOUS
<1>. PICK t : t = ReachStep(r, y, s)
  OBVIOUS
<1>. PICK d : d = CutStep(c, y)
  OBVIOUS
<1>1. Len(p) \in Nat /\ n + 1 \in 1 .. Len(p) /\ y # "*" /\ y \in Char
  <2>1. Len(p) \in Nat /\ n + 1 \in 1 .. Len(p)
    BY DEF Pattern
  <2>2. y \in Char \cup {"*"}
    BY <2>1 DEF Pattern
  <2>. QED  BY <2>1, <2>2
<1>2. c.part \in Seq(Char) /\ c.parts \in Seq(Seq(Char)) /\ d.parts = c.parts /\ d.part = w
  BY <1>1 DEF Cut, CutStep
<1>3. Len(c.part) \in Nat /\ Len(w) = Len(c.part) + 1
  BY <1>1, <1>2, AppendProperties
<1>4. Starred(p, n + 1) <=> Starred(p, n)
  <2>1. \A i \in 1 .. n + 1 : i = n + 1 \/ i \in 1 .. n
    OBVIOUS
  <2>2. \A i \in 1 .. n : i \in 1 .. n + 1
    OBVIOUS
  <2>. QED  BY <2>1, <2>2, <1>1 DEF Starred
<1>5. \A j \in 0 .. m : j \in t <=> j # 0 /\ s[j] = y /\ j - 1 \in r
  <2>1. \A j \in 0 .. m : j \in 1 .. m <=> j # 0
    OBVIOUS
  <2>. QED  BY <1>1, <2>1 DEF ReachStep
<1>6. \A j \in 0 .. m : EndsAt(s, j, w) <=> j # 0 /\ s[j] = y /\ EndsAt(s, j - 1, c.part)
  BY <1>1, <1>2, EndsInMore
<1>7. \A j \in 0 .. m : j # 0 => j - 1 \in 0 .. m
  OBVIOUS
<1>8. CASE Starred(p, n)
  <2>. PICK v : v = g[Len(c.parts)]
    OBVIOUS
  <2>1. v \in Cursors(s)
    BY DEF Runs
  <2>2. \A j \in 0 .. m : j \in r <=> Lets(v, s, c.part, j)
    BY <1>8 DEF Tracks
  <2>3. ASSUME NEW j \in 0 .. m PROVE j \in t <=> Lets(v, s, w, j)
    <3>1. v # << >> /\ j # 0 => (v[1] + Len(w) <= j <=> v[1] + Len(c.part) <= j - 1)
      <4>1. \A x \in Nat : x + Len(w) <= j <=> x + Len(c.part) <= j - 1
        BY <1>3
      <4>2. v # << >> => v[1] \in Nat
        BY <2>1, CursorIs
      <4>. QED  BY <4>1, <4>2
    <3>2. j # 0 => (j - 1 \in r <=> Lets(v, s, c.part, j - 1))
      BY <1>7, <2>2
    <3>3. j \in t <=> j # 0 /\ s[j] = y /\ j - 1 \in r
      BY <1>5
    <3>4. EndsAt(s, j, w) <=> j # 0 /\ s[j] = y /\ EndsAt(s, j - 1, c.part)
      BY <1>6
    <3>. QED  BY <3>1, <3>2, <3>3, <3>4 DEF Lets
  <2>4. c.parts = << >> => StartsWild(p)
    BY <1>8 DEF Tracks
  <2>5. Tracks(p, s, g, n + 1, d, t)
    BY <1>2, <1>4, <1>8, <2>3, <2>4 DEF Tracks
  <2>. QED  BY <2>5
<1>9. CASE ~Starred(p, n)
  <2>1. c.parts = << >> /\ Len(c.part) = n /\ \A j \in 0 .. m : j \in r <=> j = n /\ EndsAt(s, n, c.part)
    BY <1>9 DEF Tracks
  <2>2. Len(w) = n + 1
    BY <1>3, <2>1
  <2>3. ASSUME NEW j \in 0 .. m PROVE j \in t <=> j = n + 1 /\ EndsAt(s, n + 1, w)
    <3>1. j # 0 => (j - 1 \in r <=> j - 1 = n /\ EndsAt(s, n, c.part))
      BY <1>7, <2>1
    <3>2. j # 0 /\ j - 1 = n <=> j = n + 1
      OBVIOUS
    <3>3. EndsAt(s, j, w) <=> j # 0 /\ s[j] = y /\ EndsAt(s, j - 1, c.part)
      BY <1>6
    <3>. QED  BY <1>5, <3>1, <3>2, <3>3
  <2>4. Tracks(p, s, g, n + 1, d, t)
    BY <1>2, <1>4, <1>9, <2>1, <2>2, <2>3 DEF Tracks
  <2>. QED  BY <2>4
<1>. QED  BY <1>8, <1>9

\* A text is reached behind a star when one before it was: from the first end of the
\* part on.
LEMMA StarLets ==
  ASSUME NEW s \in Seq(Char), NEW part \in Seq(Char), NEW v \in Cursors(s), NEW w,
         IF v = << >> THEN w = << >> ELSE Found(w, s, v[1], part), NEW j \in 0 .. Len(s)
  PROVE  (\E i \in 0 .. Len(s) : Lets(v, s, part, i) /\ i <= j) <=> Lets(w, s, << >>, j)
<1>. PICK m \in Nat : m = Len(s)
  OBVIOUS
<1>. PICK k \in Nat : k = Len(part)
  OBVIOUS
<1>0. EndsAt(s, j, << >>) /\ Len(<< >>) = 0
  BY EndsInNone
<1>1. CASE v = << >>
  BY <1>1 DEF Lets
<1>2. CASE v # << >> /\ w = << >>
  <2>1. Found(w, s, v[1], part)
    BY <1>2
  <2>2. \A e \in 0 .. m : v[1] + k <= e => ~EndsAt(s, e, part)
    <3>1. \A e : << >> # <<e>>
      OBVIOUS
    <3>. QED  BY <1>2, <2>1, <3>1 DEF Found
  <2>. QED  BY <1>2, <2>2 DEF Lets
<1>3. CASE v # << >> /\ w # << >>
  <2>1. Found(w, s, v[1], part)
    BY <1>3
  <2>2. PICK e \in 0 .. m :
          /\ w = <<e>> /\ v[1] + k <= e /\ EndsAt(s, e, part)
          /\ \A d \in 0 .. m : v[1] + k <= d /\ EndsAt(s, d, part) => e <= d
    BY <1>3, <2>1 DEF Found
  <2>3. w[1] = e /\ e + 0 = e
    BY <2>2
  <2>4. Lets(w, s, << >>, j) <=> e <= j
    BY <1>0, <1>3, <2>3 DEF Lets
  <2>5. e <= j => Lets(v, s, part, e)
    BY <1>3, <2>2 DEF Lets
  <2>6. ASSUME NEW i \in 0 .. m, Lets(v, s, part, i), i <= j PROVE e <= j
    <3>1. e <= i
      BY <2>2, <2>6 DEF Lets
    <3>. QED  BY <2>6, <3>1
  <2>. QED  BY <2>4, <2>5, <2>6
<1>. QED  BY <1>1, <1>2, <1>3

\* A star ends the part and lets any text follow.
LEMMA StarTracks ==
  ASSUME NEW p \in Pattern, NEW s \in Seq(Char), NEW ps \in Seq(Seq(Char)), NEW g,
         Runs(g, p, ps, s),
         NEW n \in 0 .. Len(p), n # Len(p), p[n + 1] = "*",
         NEW c \in Cut, Leads(c.parts, ps), Leads(Filed(c), ps),
         EndsWild(p) \/ Len(Filed(c)) < Len(ps),
         NEW r \in SUBSET (0 .. Len(s)), Tracks(p, s, g, n, c, r)
  PROVE  Tracks(p, s, g, n + 1, CutStep(c, p[n + 1]), ReachStep(r, p[n + 1], s))
<1>. PICK m \in Nat : m = Len(s)
  OBVIOUS
<1>. PICK t : t = ReachStep(r, "*", s)
  OBVIOUS
<1>. PICK q : q = Filed(c)
  OBVIOUS
<1>. PICK d : d = CutStep(c, "*")
  OBVIOUS
<1>1. d.parts = q /\ d.part = << >>
  BY DEF CutStep
<1>2. \A j \in 0 .. m : j \in t <=> \E i \in 0 .. m : i \in r /\ i <= j
  BY DEF ReachStep
<1>3. Len(p) \in Nat /\ n + 1 \in 1 .. Len(p) /\ Starred(p, n + 1) /\ p # << >>
  BY DEF Pattern, Starred
<1>4. c.part \in Seq(Char) /\ c.parts \in Seq(Seq(Char)) /\ q \in Seq(Seq(Char))
  BY FiledLeads DEF Cut
<1>5. \A i \in 0 .. Len(ps) : g[i] \in Cursors(s)
  BY DEF Runs
<1>6. g[0] = <<0>> /\ \A i \in 1 .. Len(ps) : g[i] = CursorStep(p, ps, s, i, g[i - 1])
  BY DEF Runs
<1>. PICK k : k = Len(c.parts)
  OBVIOUS
<1>7. k \in Nat /\ k \in 0 .. Len(ps) /\ (k = 0 <=> c.parts = << >>)
  BY <1>4 DEF Leads
<1>. SUFFICES /\ q = << >> => StartsWild(p)
              /\ \A j \in 0 .. m : j \in t <=> Lets(g[Len(q)], s, << >>, j)
  <2>1. Tracks(p, s, g, n + 1, d, t)
    BY <1>1, <1>3 DEF Tracks
  <2>. QED  BY <2>1
<1>8. CASE c.part = << >> /\ Starred(p, n)
  <2>1. q = c.parts
    BY <1>8, FiledLeads
  <2>. PICK v : v = g[k]
    OBVIOUS
  <2>2. v \in Cursors(s) /\ \A j \in 0 .. m : j \in r <=> Lets(v, s, << >>, j)
    BY <1>5, <1>7, <1>8 DEF Tracks
  <2>3. \A j \in 0 .. m : Lets(v, s, << >>, j) <=> v # << >> /\ v[1] <= j
    <3>1. \A j \in 0 .. m : EndsAt(s, j, << >>)
      BY EndsInNone
    <3>2. v # << >> => v[1] + Len(<< >>) = v[1]
      BY <2>2, CursorIs
    <3>. QED  BY <3>1, <3>2 DEF Lets
  <2>4. v # << >> => v[1] \in 0 .. m
    BY <2>2, CursorIs
  <2>5. ASSUME NEW j \in 0 .. m PROVE j \in t <=> Lets(v, s, << >>, j)
    <3>1. j \in r => j \in t
      BY <1>2
    <3>2. ASSUME NEW i \in 0 .. m, i \in r, i <= j PROVE j \in r
      <4>1. v # << >> /\ v[1] <= i
        BY <2>2, <2>3, <3>2
      <4>2. v[1] <= j
        BY <2>4, <3>2, <4>1
      <4>. QED  BY <2>2, <2>3, <4>1, <4>2
    <3>. QED  BY <1>2, <2>2, <3>1, <3>2
  <2>. QED  BY <1>8, <2>1, <2>5 DEF Tracks
<1>9. CASE c.part # << >> /\ Starred(p, n)
  <2>1. Len(q) = k + 1 /\ q[k + 1] = c.part
    BY <1>9, FiledLeads
  <2>2. k + 1 \in 1 .. Len(ps) /\ ps[k + 1] = c.part
    <3>1. Len(q) <= Len(ps) /\ \A i \in 1 .. Len(q) : q[i] = ps[i]
      BY DEF Leads
    <3>2. k + 1 \in 1 .. Len(q)
      BY <1>7, <2>1
    <3>3. q[k + 1] = ps[k + 1]
      BY <3>1, <3>2
    <3>4. \A x \in Nat : k + 1 <= x => k + 1 \in 1 .. x
      BY <1>7
    <3>5. k + 1 <= Len(ps) /\ Len(ps) \in Nat
      BY <2>1, <3>1
    <3>. QED  BY <2>1, <3>3, <3>4, <3>5
  <2>. PICK v : v = g[k]
    OBVIOUS
  <2>. PICK w : w = g[k + 1]
    OBVIOUS
  <2>3. v \in Cursors(s) /\ \A j \in 0 .. m : j \in r <=> Lets(v, s, c.part, j)
    BY <1>5, <1>7, <1>9 DEF Tracks
  <2>4. w = CursorStep(p, ps, s, k + 1, v)
    <3>1. k + 1 - 1 = k
      BY <1>7
    <3>. QED  BY <1>6, <2>2, <3>1
  <2>5. v # << >> => v[1] \in Nat
    BY <2>3, CursorIs
  <2>6. v # << >> => w = Find(s, v[1], c.part)
    <3>1. CASE k = 0
      <4>1. StartsWild(p)
        BY <1>7, <1>9, <3>1 DEF Tracks
      <4>2. v = <<0>> /\ v[1] = 0 /\ k + 1 = 1
        <5>1. <<0>>[1] = 0
          OBVIOUS
        <5>. QED  BY <1>6, <3>1, <5>1
      <4>. QED  BY <2>2, <2>4, <4>1, <4>2 DEF CursorStep
    <3>2. CASE k # 0
      <4>1. k + 1 # 1 /\ ~(k + 1 = Len(ps) /\ ~EndsWild(p))
        BY <1>7, <2>1, <3>2
      <4>. QED  BY <2>2, <2>4, <4>1 DEF CursorStep
    <3>. QED  BY <3>1, <3>2
  <2>7. v = << >> => w = << >>
    <3>1. v = << >> => k # 0
      <4>1. << >> # <<0>>
        OBVIOUS
      <4>. QED  BY <1>6, <4>1
    <3>2. v = << >> => k + 1 # 1
      BY <1>7, <3>1
    <3>. QED  BY <2>4, <3>2 DEF CursorStep
  <2>8. IF v = << >> THEN w = << >> ELSE Found(w, s, v[1], c.part)
    <3>1. ASSUME v # << >> PROVE Found(w, s, v[1], c.part)
      BY <1>4, <2>5, <2>6, <3>1, FindIs
    <3>. QED  BY <2>7, <3>1
  <2>9. ASSUME NEW j \in 0 .. m PROVE j \in t <=> Lets(w, s, << >>, j)
    <3>1. (\E i \in 0 .. m : Lets(v, s, c.part, i) /\ i <= j) <=> Lets(w, s, << >>, j)
      BY <1>4, <2>3, <2>8, StarLets
    <3>. QED  BY <1>2, <2>3, <3>1
  <2>10. q # << >>
    BY <1>7, <2>1
  <2>. QED  BY <2>1, <2>9, <2>10
<1>10. CASE ~Starred(p, n) /\ n = 0
  <2>1. /\ c.parts = << >> /\ Len(c.part) = 0
        /\ \A j \in 0 .. m : j \in r <=> j = 0 /\ EndsAt(s, 0, c.part)
    BY <1>10 DEF Tracks
  <2>2. c.part = << >> /\ q = << >> /\ Len(q) = 0
    BY <1>4, <2>1, FiledLeads
  <2>3. StartsWild(p)
    BY <1>3, <1>10 DEF StartsWild, Pattern
  <2>4. EndsAt(s, 0, << >>) /\ \A j \in 0 .. m : EndsAt(s, j, << >>)
    BY EndsInNone
  <2>5. 0 \in r /\ 0 \in 0 .. m
    BY <2>1, <2>2, <2>4
  <2>6. \A j \in 0 .. m : j \in t
    BY <1>2, <2>5
  <2>7. \A j \in 0 .. m : Lets(g[0], s, << >>, j)
    <3>1. <<0>>[1] = 0 /\ <<0>> # << >> /\ Len(<< >>) = 0
      OBVIOUS
    <3>2. \A j \in 0 .. m : 0 + 0 <= j
      OBVIOUS
    <3>. QED  BY <1>6, <2>4, <3>1, <3>2 DEF Lets
  <2>. QED  BY <2>2, <2>3, <2>6, <2>7
<1>11. CASE ~Starred(p, n) /\ n # 0
  <2>1. /\ c.parts = << >> /\ Len(c.part) = n
        /\ \A j \in 0 .. m : j \in r <=> j = n /\ EndsAt(s, n, c.part)
    BY <1>11 DEF Tracks
  <2>2. c.part # << >> /\ Len(c.parts) = 0
    BY <1>11, <2>1
  <2>3. Len(q) = 1 /\ q[1] = c.part
    <3>1. Len(q) = Len(c.parts) + 1 /\ q[Len(c.parts) + 1] = c.part
      BY <2>2, FiledLeads
    <3>2. Len(c.parts) + 1 = 1
      BY <2>2
    <3>. QED  BY <3>1, <3>2
  <2>4. 1 \in 1 .. Len(ps) /\ ps[1] = c.part
    BY <2>3 DEF Leads
  <2>5. ~StartsWild(p)
    <3>1. 1 \in 1 .. n
      BY <1>11
    <3>. QED  BY <1>3, <1>11, <3>1 DEF StartsWild, Starred, Pattern
  <2>6. g[1] = IF IsPrefix(c.part, s) THEN <<n>> ELSE << >>
    BY <1>6, <2>1, <2>4, <2>5 DEF CursorStep
  <2>7. IsPrefix(c.part, s) <=> n <= m /\ EndsAt(s, n, c.part)
    BY <1>4, <2>1, PrefixIs
  <2>8. ASSUME NEW j \in 0 .. m PROVE j \in t <=> Lets(g[1], s, << >>, j)
    <3>1. EndsAt(s, j, << >>) /\ Len(<< >>) = 0 /\ <<n>>[1] = n /\ <<n>> # << >> /\ n + 0 = n
      BY EndsInNone
    <3>2. j \in t <=> n <= j /\ n \in 0 .. m /\ EndsAt(s, n, c.part)
      BY <1>2, <2>1
    <3>3. n <= j /\ n \in 0 .. m <=> n <= j /\ n <= m
      OBVIOUS
    <3>4. Lets(g[1], s, << >>, j) <=> IsPrefix(c.part, s) /\ n <= j
      <4>1. CASE IsPrefix(c.part, s)
        <5>1. g[1] = <<n>>
          BY <2>6, <4>1
        <5>. QED  BY <3>1, <4>1, <5>1 DEF Lets
      <4>2. CASE ~IsPrefix(c.part, s)
        BY <2>6, <4>2 DEF Lets
      <4>. QED  BY <4>1, <4>2
    <3>. QED  BY <2>7, <3>2, <3>3, <3>4
  <2>9. q # << >>
    <3>1. q = << >> => Len(q) = 0
      OBVIOUS
    <3>2. Len(q) # 0
      BY <2>3
    <3>. QED  BY <3>1, <3>2
  <2>. QED  BY <2>3, <2>8, <2>9
<1>. QED  BY <1>8, <1>9, <1>10, <1>11

\* So it is after every character.
LEMMA AlwaysTracks ==
  ASSUME NEW p \in Pattern, NEW s \in Seq(Char), NEW ps \in Seq(Seq(Char)), NEW g,
         Runs(g, p, ps, s), NEW f \in [0 .. Len(p) -> Cut], CutsFit(f, p, ps), p # << >>,
         NEW R, R[0] = {0}, \A n \in 1 .. Len(p) : R[n] = ReachStep(R[n - 1], p[n], s)
  PROVE  Tracks(p, s, g, Len(p), f[Len(p)], R[Len(p)])
<1>. PICK m \in Nat : m = Len(p)
  BY DEF Pattern
<1>0. \A n \in 0 .. m : f[n] \in Cut /\ Leads(f[n].parts, ps)
  BY DEF CutsFit
<1>1. \A n \in 1 .. m : f[n] = CutStep(f[n - 1], p[n])
  BY DEF CutsFit
<1>2. EndsWild(p) \/ \A n \in 0 .. m : Len(f[n].parts) < Len(ps)
  BY DEF CutsFit
<1>. DEFINE T == {n \in 0 .. m : R[n] \in SUBSET (0 .. Len(s)) /\ Tracks(p, s, g, n, f[n], R[n])}
<1>3. 0 \in T
  <2>1. ~Starred(p, 0)
    BY DEF Starred
  <2>2. f[0].parts = << >> /\ f[0].part = << >> /\ Len(<< >>) = 0
    BY DEF CutsFit
  <2>3. EndsAt(s, 0, << >>)
    BY EndsInNone
  <2>4. R[0] \in SUBSET (0 .. Len(s))
    <3>1. Len(s) \in Nat
      OBVIOUS
    <3>. QED  BY <3>1
  <2>5. Tracks(p, s, g, 0, f[0], R[0])
    BY <2>1, <2>2, <2>3 DEF Tracks
  <2>6. 0 \in 0 .. m
    OBVIOUS
  <2>. QED  BY <2>4, <2>5, <2>6
<1>4. ASSUME NEW n \in T, n # m PROVE n + 1 \in T
  <2>. PICK c : c = f[n]
    OBVIOUS
  <2>. PICK r : r = R[n]
    OBVIOUS
  <2>1. /\ n \in 0 .. m /\ n + 1 \in 0 .. m /\ n + 1 \in 1 .. m /\ n + 1 - 1 = n
        /\ r \in SUBSET (0 .. Len(s)) /\ Tracks(p, s, g, n, c, r)
    BY <1>4
  <2>2. f[n + 1] = CutStep(c, p[n + 1]) /\ R[n + 1] = ReachStep(r, p[n + 1], s)
    BY <1>1, <2>1
  <2>3. c \in Cut /\ Leads(c.parts, ps) /\ Leads(f[n + 1].parts, ps)
    BY <1>0, <2>1
  <2>4. Len(c.parts) \in 0 .. Len(ps)
    <3>1. c.parts \in Seq(Seq(Char))
      BY <2>3 DEF Cut
    <3>. QED  BY <2>3, <3>1 DEF Leads
  <2>5. Tracks(p, s, g, n + 1, CutStep(c, p[n + 1]), ReachStep(r, p[n + 1], s))
    <3>0. n \in 0 .. Len(p) /\ n # Len(p)
      BY <1>4, <2>1
    <3>1. CASE p[n + 1] = "*"
      <4>1. f[n + 1].parts = Filed(c)
        BY <2>2, <3>1 DEF CutStep
      <4>2. Leads(Filed(c), ps) /\ (EndsWild(p) \/ Len(Filed(c)) < Len(ps))
        BY <1>2, <2>1, <2>3, <4>1
      <4>. QED  BY <2>1, <2>3, <3>0, <3>1, <4>2, StarTracks
    <3>2. CASE p[n + 1] # "*"
      BY <2>1, <2>3, <2>4, <3>0, <3>2, LetterTracks
    <3>. QED  BY <3>1, <3>2
  <2>6. R[n + 1] \in SUBSET (0 .. Len(s))
    BY <2>2 DEF ReachStep
  <2>7. Tracks(p, s, g, n + 1, f[n + 1], R[n + 1])
    BY <2>2, <2>5
  <2>. QED  BY <2>1, <2>6, <2>7
<1>5. T = 0 .. m
  <2>1. T \in SUBSET (0 .. m)
    OBVIOUS
  <2>. HIDE DEF T
  <2>. QED  BY <1>3, <1>4, <2>1, Climb
<1>6. m \in 0 .. m
  OBVIOUS
<1>. QED  BY <1>5, <1>6

\* Glob::matches: a pattern that is not empty matches what it means, and no more; a
\* lone part behind a star may miss some of it.
LEMMA GlobIsMeant ==
  ASSUME NEW p \in Pattern, p # << >>, NEW s \in Seq(Char)
  PROVE  /\ GlobMatches(p, s) => GlobMeans(p, s)
         /\ GlobMeans(p, s) /\ ~LoneTail(p) => GlobMatches(p, s)
<1>. PICK m \in Nat : m = Len(s)
  OBVIOUS
<1>. PICK n \in Nat : n = Len(p)
  BY DEF Pattern
<1>. PICK ps : ps = Parts(p)
  OBVIOUS
<1>. PICK f \in [0 .. n -> Cut] : CutsFit(f, p, ps) /\ ps \in Seq(Seq(Char))
  BY CutsDoFit
<1>. PICK g : /\ Runs(g, p, ps, s)
              /\ GlobMatches(p, s) <=> \/ ps = << >>
                                       \/ /\ g[Len(ps)] # << >>
                                          /\ EndsWild(p) \/ g[Len(ps)][1] = m
  BY MatchesIsRun
<1>. PICK R : /\ R[0] = {0}
              /\ \A i \in 1 .. n : R[i] = ReachStep(R[i - 1], p[i], s)
              /\ GlobMeans(p, s) <=> m \in R[n]
  BY MeansIsReached
<1>. PICK c : c = f[n]
  OBVIOUS
<1>. PICK r : r = R[n]
  OBVIOUS
<1>. PICK k : k = Len(c.parts)
  OBVIOUS
<1>1. Tracks(p, s, g, n, c, r)
  BY AlwaysTracks
<1>2. /\ c \in Cut /\ ps = Filed(c) /\ c.part \in Seq(Char) /\ c.parts \in Seq(Seq(Char))
      /\ k \in Nat /\ (k = 0 <=> c.parts = << >>)
  BY DEF CutsFit, Cut
<1>3. n \in 1 .. n /\ n # 0 /\ n - 1 \in 0 .. n /\ p[n] = Last(p) /\ m \in 0 .. m
  BY DEF Pattern, Last
<1>4. /\ g[0] = <<0>> /\ (\A i \in 0 .. Len(ps) : g[i] \in Cursors(s))
      /\ \A i \in 1 .. Len(ps) : g[i] = CursorStep(p, ps, s, i, g[i - 1])
  BY DEF Runs
<1>5. CASE EndsWild(p)
  <2>1. p[n] = "*" /\ Starred(p, n)
    BY <1>3, <1>5 DEF EndsWild, Starred
  <2>2. c = CutStep(f[n - 1], p[n])
    BY <1>3 DEF CutsFit
  <2>3. c.part = << >>
    BY <2>1, <2>2 DEF CutStep
  <2>4. ps = c.parts /\ Len(ps) = k
    BY <1>2, <2>3, FiledLeads
  <2>. PICK v : v = g[k]
    OBVIOUS
  <2>5. GlobMeans(p, s) <=> Lets(v, s, << >>, m)
    BY <1>1, <1>3, <2>1, <2>3 DEF Tracks
  <2>6. Lets(v, s, << >>, m) <=> v # << >>
    <3>1. EndsAt(s, m, << >>) /\ Len(<< >>) = 0
      BY EndsInNone
    <3>2. v \in Cursors(s)
      BY <1>2, <1>4, <2>4
    <3>3. v # << >> => v[1] \in 0 .. m
      BY <3>2, CursorIs
    <3>4. v # << >> => v[1] + 0 <= m
      BY <3>3
    <3>. QED  BY <3>1, <3>4 DEF Lets
  <2>7. ps = << >> => v # << >>
    <3>1. <<0>> # << >>
      OBVIOUS
    <3>. QED  BY <1>2, <1>4, <2>4, <3>1
  <2>. QED  BY <1>5, <2>4, <2>5, <2>6, <2>7
<1>6. CASE ~EndsWild(p)
  <2>1. c.part # << >> /\ k < Len(ps)
    <3>1. n \in 0 .. n
      OBVIOUS
    <3>. QED  BY <1>6, <3>1 DEF CutsFit
  <2>2. Len(ps) = k + 1 /\ ps[k + 1] = c.part
    BY <1>2, <2>1, FiledLeads
  <2>3. k + 1 \in 1 .. Len(ps) /\ k \in 0 .. Len(ps) /\ k + 1 - 1 = k /\ ps # << >>
    BY <1>2, <2>2
  <2>. PICK w : w = g[k + 1]
    OBVIOUS
  <2>. PICK v : v = g[k]
    OBVIOUS
  <2>4. w = CursorStep(p, ps, s, k + 1, v) /\ v \in Cursors(s)
    BY <1>4, <2>3
  <2>5. GlobMatches(p, s) <=> w # << >> /\ w[1] = m
    BY <1>6, <2>2, <2>3
  <2>6. GlobMeans(p, s) <=> m \in r
    OBVIOUS
  <2>7. Len(c.part) \in Nat
    BY <1>2
  <2>8. CASE ~Starred(p, n)
    <3>1. k = 0 /\ Len(c.part) = n /\ (m \in r <=> m = n /\ EndsAt(s, n, c.part))
      BY <1>1, <1>2, <1>3, <2>8 DEF Tracks
    <3>2. ~StartsWild(p)
      <4>1. 1 \in 1 .. n
        BY <1>3
      <4>. QED  BY <2>8, <4>1 DEF StartsWild, Starred, Pattern
    <3>3. w = IF IsPrefix(c.part, s) THEN <<n>> ELSE << >>
      <4>1. k + 1 = 1 /\ ps[1] = c.part
        BY <2>2, <3>1
      <4>. QED  BY <2>4, <3>1, <3>2, <4>1 DEF CursorStep
    <3>4. IsPrefix(c.part, s) <=> n <= m /\ EndsAt(s, n, c.part)
      BY <1>2, <3>1, PrefixIs
    <3>5. <<n>> # << >> /\ <<n>>[1] = n
      OBVIOUS
    <3>6. w # << >> /\ w[1] = m <=> IsPrefix(c.part, s) /\ n = m
      BY <3>3, <3>5
    <3>7. n = m => n <= m
      OBVIOUS
    <3>. QED  BY <2>5, <2>6, <3>1, <3>4, <3>6, <3>7
  <2>9. CASE Starred(p, n) /\ k = 0
    <3>1. StartsWild(p) /\ (m \in r <=> Lets(v, s, c.part, m))
      BY <1>1, <1>2, <1>3, <2>9 DEF Tracks
    <3>2. LoneTail(p)
      BY <1>6, <2>2, <2>9, <3>1 DEF LoneTail
    <3>3. v = <<0>> /\ <<0>> # << >> /\ <<0>>[1] = 0
      BY <1>4, <2>9
    <3>4. w = Find(s, 0, c.part)
      <4>1. k + 1 = 1 /\ ps[1] = c.part
        BY <2>2, <2>9
      <4>. QED  BY <2>4, <3>1, <4>1 DEF CursorStep
    <3>5. Found(w, s, 0, c.part)
      BY <1>2, <3>4, FindIs
    <3>6. ASSUME w # << >>, w[1] = m PROVE 0 + Len(c.part) <= m /\ EndsAt(s, m, c.part)
      <4>1. PICK e \in 0 .. Len(s) : w = <<e>> /\ 0 + Len(c.part) <= e /\ EndsAt(s, e, c.part)
        BY <3>5, <3>6 DEF Found
      <4>2. w[1] = e
        BY <4>1
      <4>. QED  BY <3>6, <4>1, <4>2
    <3>. QED  BY <2>5, <2>6, <3>1, <3>2, <3>3, <3>6 DEF Lets
  <2>10. CASE Starred(p, n) /\ k # 0
    <3>1. m \in r <=> Lets(v, s, c.part, m)
      BY <1>1, <1>3, <2>10 DEF Tracks
    <3>2. w = IF v = << >> THEN << >> ELSE EndsWith(s, v[1], c.part)
      <4>1. k + 1 # 1
        BY <1>2, <2>10
      <4>. QED  BY <1>6, <2>2, <2>4, <4>1 DEF CursorStep
    <3>3. IsSuffix(c.part, s) <=> Len(c.part) <= m /\ EndsAt(s, m, c.part)
      BY <1>2, SuffixIs
    <3>4. v # << >> => v[1] \in Nat
      BY <2>4, CursorIs
    <3>5. v # << >> => (v[1] + Len(c.part) <= m <=> Len(c.part) <= m /\ m - Len(c.part) >= v[1])
      <4>1. \A x \in Nat : x + Len(c.part) <= m <=> Len(c.part) <= m /\ m - Len(c.part) >= x
        BY <2>7
      <4>. QED  BY <3>4, <4>1
    <3>6. <<m>> # << >> /\ <<m>>[1] = m
      OBVIOUS
    <3>7. w # << >> /\ w[1] = m <=>
            v # << >> /\ IsSuffix(c.part, s) /\ m - Len(c.part) >= v[1]
      BY <3>2, <3>6 DEF EndsWith
    <3>. QED  BY <2>5, <2>6, <3>1, <3>3, <3>5, <3>7 DEF Lets
  <2>. QED  BY <2>8, <2>9, <2>10
<1>. QED  BY <1>5, <1>6

\* Glob::matches: the empty pattern matches everything.
LEMMA EmptyMatches == ASSUME NEW s PROVE GlobMatches(<< >>, s)
<1>. PICK p : p = << >>
  OBVIOUS
<1>1. p \in Pattern /\ Len(p) = 0
  BY DEF Pattern
<1>. PICK f \in [0 .. Len(p) -> Cut] : CutsFit(f, p, Parts(p))
  BY <1>1, CutsDoFit
<1>2. f[0].parts = << >> /\ f[0].part = << >> /\ Parts(p) = Filed(f[0])
  BY <1>1 DEF CutsFit
<1>3. Parts(p) = << >>
  BY <1>2 DEF Filed
<1>. QED  BY <1>3 DEF GlobMatches

-----------------------------------------------------------------------------
(* What the subscribers are offered.                                       *)

RulesOf(event) == ToSet(event.blockedRule) \cup ToSet(event.wouldBlock)

\* The event being enriched has rules that are texts, and so has the last envelope,
\* which went to the subscribers whose filters match.
ParsedInv == at # 0 => RulesOf(parsed[1].event) \subseteq Seq(Char)
OfferInv  == out # << >> =>
               /\ RulesOf(out[1].event) \subseteq Seq(Char)
               /\ out[1].to = {s \in DOMAIN world.filters :
                                 matches(world.filters[s], out[1].labels, out[1].event)}

FilterInv == ParsedInv /\ OfferInv

\* The other steps of the parser's task keep both.
LEMMA OtherStepsKeep ==
  ASSUME FilterInv, UNCHANGED <<world, parsed, out>>, at' = at \/ at # 0
  PROVE  FilterInv'
BY DEF FilterInv, ParsedInv, OfferInv

\* So it is in every state.
LEMMA FilterNext == PathInv /\ FilterInv /\ [Next]_vars => FilterInv'
<1>. SUFFICES ASSUME PathInv, FilterInv, [Next]_vars PROVE FilterInv'
  OBVIOUS
<1>0. (at \in DOMAIN Enrichers \/ at \in Http) => at # 0
  <2>1. \A i \in Http : i # 0
    BY HttpIs
  <2>2. 0 \notin DOMAIN Enrichers
    BY EnrichersAssumption
  <2>. QED  BY <2>1, <2>2
<1>1. CASE TakeLine
  <2>1. out' = << >>
    BY <1>1 DEF TakeLine
  <2>2. PICK l \in world.lines :
          /\ parsed' = parse_line(Written(l))
          /\ parsed' = << >> => at' = at
    BY <1>1 DEF TakeLine
  <2>3. at = 0 /\ world \in Worlds
    BY <1>1 DEF TakeLine, PathInv, ShapeInv
  <2>4. ASSUME parsed' # << >> PROVE RulesOf(parsed'[1].event) \subseteq Seq(Char)
    <3>. PICK w : w = Written(l)
      OBVIOUS
    <3>1. w.documents = ToSet(l.documents)
      BY DEF Written
    <3>. PICK event : event = parse_line(w)[1].event
      OBVIOUS
    <3>2. event \in ToSet(l.documents) /\ parsed'[1].event = event
      BY <2>2, <2>4, <3>1, EventIsWritten
    <3>3. ToSet(event.blockedRule) \cup ToSet(event.wouldBlock) \subseteq Seq(Char)
      BY <2>3, <3>2, WorldsAssumption
    <3>. QED  BY <3>2, <3>3 DEF RulesOf
  <2>. QED  BY <2>1, <2>2, <2>3, <2>4 DEF FilterInv, ParsedInv, OfferInv
<1>2. CASE FanOut
  <2>. PICK written : written = parsed[1].event
    OBVIOUS
  <2>. PICK event : event = Unlabelled(written)
    OBVIOUS
  <2>. PICK source : source = parsed[1].source
    OBVIOUS
  <2>. PICK to : to = {s \in DOMAIN world.filters : matches(world.filters[s], labels, event)}
    OBVIOUS
  <2>. PICK ls : ls = labels
    OBVIOUS
  <2>. PICK envelope : envelope = [event |-> event, source |-> source, labels |-> ls, to |-> to]
    OBVIOUS
  <2>1. at = Len(Enrichers) + 1 /\ at' = 0 /\ world' = world /\ out' = <<envelope>>
    BY <1>2 DEF FanOut
  <2>2. at # 0
    BY <2>1, EnrichersAssumption
  <2>3. RulesOf(event) \subseteq Seq(Char)
    <3>1. RulesOf(written) \subseteq Seq(Char)
      BY <2>2 DEF FilterInv, ParsedInv
    <3>2. event.blockedRule = written.blockedRule /\ event.wouldBlock = written.wouldBlock
      BY DEF Unlabelled
    <3>. QED  BY <3>1, <3>2 DEF RulesOf
  <2>4. out'[1] = envelope /\ envelope.labels = ls /\ envelope.event = event /\ envelope.to = to
    <3>1. <<envelope>>[1] = envelope
      OBVIOUS
    <3>. QED  BY <2>1, <3>1
  <2>5. OfferInv'
    BY <2>1, <2>3, <2>4 DEF OfferInv
  <2>. QED  BY <2>1, <2>5 DEF FilterInv, ParsedInv
<1>3. CASE Lookup
  BY <1>0, <1>3, OtherStepsKeep DEF Lookup, Enriching
<1>4. CASE NothingToLookUp
  BY <1>0, <1>4, OtherStepsKeep DEF NothingToLookUp, Enriching
<1>5. CASE AskCache
  BY <1>0, <1>5, OtherStepsKeep DEF AskCache, Enriching
<1>6. CASE ResponseStarts
  BY <1>0, <1>6, OtherStepsKeep DEF ResponseStarts, Waiting
<1>7. CASE ResponseRead
  BY <1>0, <1>7, OtherStepsKeep DEF ResponseRead, Waiting
<1>8. CASE CallFails
  BY <1>0, <1>8, OtherStepsKeep DEF CallFails
<1>9. CASE InnerTimeoutFires
  BY <1>0, <1>9, OtherStepsKeep DEF InnerTimeoutFires
<1>10. CASE OuterTimeoutFires
  BY <1>0, <1>10, OtherStepsKeep DEF OuterTimeoutFires
<1>11. CASE Tick
  BY <1>11, OtherStepsKeep DEF Tick
<1>12. CASE DataChanges
  BY <1>12, OtherStepsKeep DEF DataChanges
<1>13. CASE UNCHANGED vars
  BY <1>13, OtherStepsKeep DEF vars
<1>. QED  BY <1>1, <1>2, <1>3, <1>4, <1>5, <1>6, <1>7, <1>8, <1>9, <1>10, <1>11, <1>12, <1>13
          DEF Next, Parser

\* The severity a filter asks for, spelled out.
LEMMA SeverityIs ==
  ASSUME NEW filter, NEW event
  PROVE  SeverityMatches(filter, event) <=>
           (filter.severityMin # << >> =>
              \E r \in 1 .. 4 : /\ r >= SeverityRank[filter.severityMin[1]]
                                /\ event.severity \in {"low", "medium", "high", "critical"}
                                /\ SeverityRank[event.severity] = r)
<1>1. DOMAIN SeverityRank = {"low", "medium", "high", "critical"}
  BY DEF SeverityRank
<1>2. \A t \in DOMAIN SeverityRank : SeverityRank[t] \in 1 .. 4
  BY DEF SeverityRank
<1>. QED  BY <1>1, <1>2 DEF SeverityMatches

\* Every subscriber gets the events its three clauses describe and no others,
\* whatever the pattern and the rules are (subscribers/filter.rs
\* CompiledFilter::matches, Glob::matches).
THEOREM FiltersStayExact == Spec => []FilterExact
<1>1. Init => FilterInv
  BY DEF Init, FilterInv, ParsedInv, OfferInv
<1>2. PathInv /\ FilterInv => FilterExact
  <2>. SUFFICES ASSUME PathInv, FilterInv, out # << >>, NEW s \in DOMAIN world.filters
                PROVE  LET filter == world.filters[s]
                           event  == out[1].event
                           rules  == ToSet(event.blockedRule) \cup ToSet(event.wouldBlock)
                           others == /\ \A k \in DOMAIN filter.labels :
                                          k \in DOMAIN out[1].labels /\ out[1].labels[k] = filter.labels[k]
                                     /\ filter.severityMin # << >> =>
                                          \E r \in 1 .. 4 : /\ r >= SeverityRank[filter.severityMin[1]]
                                                            /\ event.severity \in {"low", "medium", "high", "critical"}
                                                            /\ SeverityRank[event.severity] = r
                           meant  == filter.pattern = << >> \/
                                     \E rule \in rules : filter.pattern[1] = << >> \/ GlobMeans(filter.pattern[1], rule)
                           got    == s \in out[1].to
                       IN  /\ got => others /\ meant
                           /\ others /\ meant => got \/ (filter.pattern # << >> /\ LoneTail(filter.pattern[1]))
    BY DEF FilterExact
  <2>. PICK filter : filter = world.filters[s]
    OBVIOUS
  <2>. PICK event : event = out[1].event
    OBVIOUS
  <2>. PICK ls : ls = out[1].labels
    OBVIOUS
  <2>. PICK to : to = out[1].to
    OBVIOUS
  <2>. PICK rules : rules = ToSet(event.blockedRule) \cup ToSet(event.wouldBlock)
    OBVIOUS
  <2>. PICK pattern : pattern = filter.pattern
    OBVIOUS
  <2>1. /\ pattern \in Seq(Seq(Char \cup {"*"}))
        /\ pattern # << >> => pattern[1] \in Pattern
    <3>1. world \in Worlds
      BY DEF PathInv, ShapeInv
    <3>2. pattern \in Seq(Seq(Char \cup {"*"}))
      BY <3>1, WorldsAssumption
    <3>. QED  BY <3>2 DEF Pattern
  <2>2. rules \in SUBSET Seq(Char) /\ (s \in to <=> matches(filter, ls, event))
    BY DEF FilterInv, OfferInv, RulesOf
  <2>3. RuleMatches(filter, event) <=> pattern = << >> \/ \E rule \in rules : GlobMatches(pattern[1], rule)
    BY DEF RuleMatches
  <2>4. ASSUME pattern # << >>, NEW rule \in rules
        PROVE  /\ GlobMatches(pattern[1], rule) => pattern[1] = << >> \/ GlobMeans(pattern[1], rule)
               /\ pattern[1] = << >> => GlobMatches(pattern[1], rule)
               /\ GlobMeans(pattern[1], rule) /\ pattern[1] # << >> /\ ~LoneTail(pattern[1])
                    => GlobMatches(pattern[1], rule)
    <3>. PICK p : p = pattern[1]
      OBVIOUS
    <3>1. p \in Pattern /\ rule \in Seq(Char)
      BY <2>1, <2>2, <2>4
    <3>. QED  BY <3>1, GlobIsMeant, EmptyMatches
  <2>. DEFINE others == /\ \A k \in DOMAIN filter.labels : k \in DOMAIN ls /\ ls[k] = filter.labels[k]
                        /\ filter.severityMin # << >> =>
                             \E r \in 1 .. 4 : /\ r >= SeverityRank[filter.severityMin[1]]
                                               /\ event.severity \in {"low", "medium", "high", "critical"}
                                               /\ SeverityRank[event.severity] = r
              meant  == pattern = << >> \/
                        \E rule \in rules : pattern[1] = << >> \/ GlobMeans(pattern[1], rule)
  <2>5. others <=> LabelsMatch(filter, ls) /\ SeverityMatches(filter, event)
    BY SeverityIs DEF LabelsMatch
  <2>6. s \in to <=> others /\ RuleMatches(filter, event)
    BY <2>2, <2>5 DEF matches
  <2>7. RuleMatches(filter, event) => meant
    BY <2>3, <2>4
  <2>8. meant => RuleMatches(filter, event) \/ (pattern # << >> /\ LoneTail(pattern[1]))
    BY <2>3, <2>4
  <2>9. /\ s \in to => others /\ meant
        /\ others /\ meant => s \in to \/ (pattern # << >> /\ LoneTail(pattern[1]))
    <3>. HIDE DEF others, meant
    <3>. QED  BY <2>6, <2>7, <2>8
  <2>. QED  BY <2>9
<1>. QED  BY <1>1, <1>2, FilterNext, PathStaysTrue, PTL DEF Spec

-----------------------------------------------------------------------------
(* The parser: what strip_ansi leaves of a text.                           *)

\* What strip_ansi carries along.
Stripping(P) == [out : Seq(P), inside : BOOLEAN]

\* f is what strip_ansi has after every piece.
Strips(f, s) ==
  /\ f[0] = [out |-> << >>, inside |-> FALSE]
  /\ \A n \in 1 .. Len(s) : f[n] = StripStep(f[n - 1], s[n])

\* One piece more.
LEMMA StripStepIs ==
  ASSUME NEW P, NEW acc \in Stripping(P), NEW p \in P
  PROVE  StripStep(acc, p) \in Stripping(P)
<1>. PICK o : o = acc.out
  OBVIOUS
<1>1. o \in Seq(P) /\ acc.inside \in BOOLEAN /\ acc = [out |-> o, inside |-> acc.inside]
  BY DEF Stripping
<1>2. Append(o, p) \in Seq(P)
  BY <1>1
<1>3. CASE acc.inside
  <2>1. StripStep(acc, p) = [out |-> o, inside |-> p \notin Letters]
    BY <1>1, <1>3 DEF StripStep
  <2>. QED  BY <1>1, <2>1 DEF Stripping
<1>4. CASE ~acc.inside /\ p = "ESC"
  <2>1. StripStep(acc, p) = [out |-> o, inside |-> TRUE]
    BY <1>1, <1>4 DEF StripStep
  <2>. QED  BY <1>1, <2>1 DEF Stripping
<1>5. CASE ~acc.inside /\ p # "ESC"
  <2>1. StripStep(acc, p) = [out |-> Append(o, p), inside |-> FALSE]
    BY <1>1, <1>5 DEF StripStep
  <2>. QED  BY <1>1, <1>2, <2>1 DEF Stripping
<1>. QED  BY <1>3, <1>4, <1>5

\* Within a sequence and between two.
Opened(o) == [out |-> o, inside |-> TRUE]
Shut(o)   == [out |-> o, inside |-> FALSE]

\* The four cases of a step.
LEMMA StripCases ==
  ASSUME NEW o, NEW p
  PROVE  /\ p \in Letters => StripStep(Opened(o), p) = Shut(o)
         /\ p \notin Letters => StripStep(Opened(o), p) = Opened(o)
         /\ p = "ESC" => StripStep(Shut(o), p) = Opened(o)
         /\ p # "ESC" => StripStep(Shut(o), p) = Shut(Append(o, p))
<1>. PICK a : a = Opened(o)
  OBVIOUS
<1>. PICK b : b = Shut(o)
  OBVIOUS
<1>1. a.out = o /\ a.inside = TRUE
  BY DEF Opened
<1>2. b.out = o /\ b.inside = FALSE
  BY DEF Shut
<1>3. StripStep(a, p) = [out |-> o, inside |-> p \notin Letters]
  BY <1>1 DEF StripStep
<1>4. p = "ESC" => StripStep(b, p) = Opened(o)
  BY <1>2 DEF StripStep, Opened
<1>5. p # "ESC" => StripStep(b, p) = Shut(Append(o, p))
  BY <1>2 DEF StripStep, Shut
<1>6. p \in Letters => StripStep(a, p) = Shut(o)
  BY <1>3 DEF Shut
<1>7. p \notin Letters => StripStep(a, p) = Opened(o)
  BY <1>3 DEF Opened
<1>. QED  BY <1>4, <1>5, <1>6, <1>7

\* strip_ansi is this recursion.
LEMMA StripIs ==
  ASSUME NEW P, NEW s \in Seq(P)
  PROVE  \E f \in [0 .. Len(s) -> Stripping(P)] : Strips(f, s) /\ strip_ansi(s) = f[Len(s)].out
<1>. PICK m \in Nat : m = Len(s)
  OBVIOUS
<1>. DEFINE none == [out |-> << >>, inside |-> FALSE]
            StripAt(c, n) == IF n = 0 THEN none ELSE StripStep(c[n - 1], s[n])
            acc == CHOOSE c : c = [n \in 0 .. Len(s) |-> StripAt(c, n)]
<1>1. none \in Stripping(P)
  BY DEF Stripping
<1>2. strip_ansi(s) = acc[m].out
  BY DEF strip_ansi
<1>3. \E c : c = [n \in 0 .. m |-> StripAt(c, n)]
  <2>. DEFINE h == [x \in (1 .. m) \X Stripping(P) |-> StripStep(x[2], s[x[1]])]
  <2>1. \A n \in 1 .. m : s[n] \in P
    OBVIOUS
  <2>2. h \in [(1 .. m) \X Stripping(P) -> Stripping(P)]
    BY <2>1, StripStepIs
  <2>3. \A n \in 1 .. m, c \in Stripping(P) : h[<<n, c>>] = StripStep(c, s[n])
    OBVIOUS
  <2>. HIDE DEF h, none
  <2>. PICK g : Iterated(g, Stripping(P), none, m, h)
    BY <1>1, <2>2, Iterates
  <2>4. g \in [0 .. m -> Stripping(P)] /\ g[0] = none /\ \A n \in 1 .. m : g[n] = h[<<n, g[n - 1]>>]
    BY DEF Iterated
  <2>5. ASSUME NEW n \in 0 .. m PROVE g[n] = StripAt(g, n)
    <3>1. CASE n = 0
      BY <2>4, <3>1
    <3>2. CASE n # 0
      <4>1. n \in 1 .. m /\ n - 1 \in 0 .. m
        BY <3>2
      <4>. QED  BY <2>3, <2>4, <3>2, <4>1
    <3>. QED  BY <3>1, <3>2
  <2>. HIDE DEF StripAt
  <2>6. g = [n \in 0 .. m |-> StripAt(g, n)]
    BY <2>4, <2>5
  <2>. QED  BY <2>6
<1>4. acc = [n \in 0 .. m |-> StripAt(acc, n)]
  <2>. HIDE DEF StripAt
  <2>. QED  BY <1>3
<1>. HIDE DEF acc
<1>5. acc[0] = none /\ \A n \in 1 .. m : acc[n] = StripStep(acc[n - 1], s[n])
  <2>1. 0 \in 0 .. m /\ \A n \in 1 .. m : n \in 0 .. m /\ n # 0
    OBVIOUS
  <2>. QED  BY <1>4, <2>1
<1>6. Strips(acc, s)
  BY <1>5 DEF Strips
<1>. DEFINE T == {n \in 0 .. m : acc[n] \in Stripping(P)}
<1>7. T = 0 .. m
  <2>1. 0 \in T /\ T \in SUBSET (0 .. m)
    BY <1>1, <1>5
  <2>2. ASSUME NEW n \in T, n # m PROVE n + 1 \in T
    <3>1. n + 1 \in 0 .. m /\ n + 1 \in 1 .. m /\ n + 1 - 1 = n /\ acc[n] \in Stripping(P)
      BY <2>2
    <3>2. acc[n + 1] = StripStep(acc[n], s[n + 1]) /\ s[n + 1] \in P
      BY <1>5, <3>1
    <3>3. StripStep(acc[n], s[n + 1]) \in Stripping(P)
      BY <3>1, <3>2, StripStepIs
    <3>. QED  BY <3>1, <3>2, <3>3
  <2>. HIDE DEF T, none
  <2>. QED  BY <2>1, <2>2, Climb
<1>8. acc \in [0 .. m -> Stripping(P)]
  BY <1>4, <1>7
<1>. QED  BY <1>2, <1>6, <1>8

\* From between sequences to between sequences, strip_ansi makes o of s.
StripsTo(P, s, o) ==
  \E f \in [0 .. Len(s) -> Stripping(P)] :
    Strips(f, s) /\ f[Len(s)] = [out |-> o, inside |-> FALSE]

\* What it makes of a text is one thing.
LEMMA StripsOneWay ==
  ASSUME NEW P, NEW s \in Seq(P), NEW o, StripsTo(P, s, o)
  PROVE  strip_ansi(s) = o
<1>. PICK f : f \in [0 .. Len(s) -> Stripping(P)] /\ Strips(f, s) /\ strip_ansi(s) = f[Len(s)].out
  BY StripIs
<1>. PICK g : Strips(g, s) /\ g[Len(s)] = [out |-> o, inside |-> FALSE]
  BY DEF StripsTo
<1>. PICK m \in Nat : m = Len(s)
  OBVIOUS
<1>. DEFINE T == {n \in 0 .. m : f[n] = g[n]}
<1>1. 0 \in T /\ T \in SUBSET (0 .. m)
  <2>1. f[0] = g[0]
    BY DEF Strips
  <2>. QED  BY <2>1
<1>2. ASSUME NEW n \in T, n # m PROVE n + 1 \in T
  <2>1. n + 1 \in 0 .. m /\ n + 1 \in 1 .. m /\ n + 1 - 1 = n /\ f[n] = g[n]
    BY <1>2
  <2>2. f[n + 1] = StripStep(f[n], s[n + 1]) /\ g[n + 1] = StripStep(g[n], s[n + 1])
    BY <2>1 DEF Strips
  <2>. QED  BY <2>1, <2>2
<1>3. T = 0 .. m
  <2>. HIDE DEF T
  <2>. QED  BY <1>1, <1>2, Climb
<1>4. f[m] = g[m]
  <2>1. m \in T
    BY <1>3
  <2>. QED  BY <2>1
<1>. QED  BY <1>4

\* A state of strip_ansi with q in front of what is out.
Behind(q, acc) == [out |-> q \o acc.out, inside |-> acc.inside]

\* A step does not look at what is out.
LEMMA StripBehind ==
  ASSUME NEW P, NEW q \in Seq(P), NEW acc \in Stripping(P), NEW p \in P
  PROVE  /\ Behind(q, acc) \in Stripping(P)
         /\ StripStep(Behind(q, acc), p) = Behind(q, StripStep(acc, p))
<1>. PICK o : o = acc.out
  OBVIOUS
<1>. PICK b : b = q \o o
  OBVIOUS
<1>1. o \in Seq(P) /\ acc.inside \in BOOLEAN /\ acc = [out |-> o, inside |-> acc.inside] /\ b \in Seq(P)
  BY DEF Stripping
<1>2. Behind(q, acc) = [out |-> b, inside |-> acc.inside]
  BY DEF Behind
<1>. PICK c : c = Behind(q, acc)
  OBVIOUS
<1>3. c = [out |-> b, inside |-> acc.inside] /\ c.out = b /\ c.inside = acc.inside /\ c \in Stripping(P)
  BY <1>1, <1>2 DEF Stripping
<1>4. CASE acc.inside
  <2>1. StripStep(acc, p) = [out |-> o, inside |-> p \notin Letters]
    BY <1>1, <1>4 DEF StripStep
  <2>2. StripStep(c, p) = [out |-> b, inside |-> p \notin Letters]
    BY <1>3, <1>4 DEF StripStep
  <2>3. Behind(q, StripStep(acc, p)) = [out |-> b, inside |-> p \notin Letters]
    BY <2>1 DEF Behind
  <2>. QED  BY <1>3, <2>2, <2>3
<1>5. CASE ~acc.inside /\ p = "ESC"
  <2>1. StripStep(acc, p) = [out |-> o, inside |-> TRUE]
    BY <1>1, <1>5 DEF StripStep
  <2>2. StripStep(c, p) = [out |-> b, inside |-> TRUE]
    BY <1>3, <1>5 DEF StripStep
  <2>3. Behind(q, StripStep(acc, p)) = [out |-> b, inside |-> TRUE]
    BY <2>1 DEF Behind
  <2>. QED  BY <1>3, <2>2, <2>3
<1>6. CASE ~acc.inside /\ p # "ESC"
  <2>1. StripStep(acc, p) = [out |-> Append(o, p), inside |-> FALSE]
    BY <1>1, <1>6 DEF StripStep
  <2>2. StripStep(c, p) = [out |-> Append(b, p), inside |-> FALSE]
    BY <1>3, <1>6 DEF StripStep
  <2>3. Behind(q, StripStep(acc, p)) = [out |-> q \o Append(o, p), inside |-> FALSE]
    BY <2>1 DEF Behind
  <2>4. q \o Append(o, p) = Append(b, p)
    BY <1>1, JoinsGrow DEF GrowsAtTheEnd
  <2>. QED  BY <1>3, <2>2, <2>3, <2>4
<1>. QED  BY <1>4, <1>5, <1>6

\* What it makes of two texts is both, one behind the other.
BothStrip(P, s, o, u, v) == StripsTo(P, s \o u, o \o v)

\* It is.
LEMMA StripsJoin ==
  ASSUME NEW P, NEW s \in Seq(P), NEW u \in Seq(P), NEW o, NEW v,
         StripsTo(P, s, o), StripsTo(P, u, v)
  PROVE  BothStrip(P, s, o, u, v)
<1>. PICK t : t = s \o u
  OBVIOUS
<1>. PICK w : w = o \o v
  OBVIOUS
<1>. PICK m \in Nat : m = Len(s)
  OBVIOUS
<1>. PICK k \in Nat : k = Len(u)
  OBVIOUS
<1>. PICK f \in [0 .. m -> Stripping(P)] :
       Strips(f, s) /\ f[m] = [out |-> o, inside |-> FALSE]
  BY DEF StripsTo
<1>. PICK g \in [0 .. k -> Stripping(P)] :
       Strips(g, u) /\ g[k] = [out |-> v, inside |-> FALSE]
  BY DEF StripsTo
<1>1. /\ t \in Seq(P) /\ Len(t) = m + k
      /\ \A i \in 1 .. m : t[i] = s[i]
      /\ \A i \in 1 .. k : t[m + i] = u[i]
  OBVIOUS
<1>4. \A n \in 0 .. m : f[n] \in Stripping(P)
  OBVIOUS
<1>41. \A n \in 0 .. k : g[n] \in Stripping(P)
  OBVIOUS
<1>5. o \in Seq(P) /\ v \in Seq(P)
  <2>1. f[m] \in Stripping(P) /\ g[k] \in Stripping(P)
    <3>1. m \in 0 .. m /\ k \in 0 .. k
      OBVIOUS
    <3>. QED  BY <1>4, <1>41, <3>1
  <2>. QED  BY <2>1 DEF Stripping
<1>6. \A n \in 0 .. k : Behind(o, g[n]) \in Stripping(P)
  <2>2. ASSUME NEW c \in Stripping(P) PROVE Behind(o, c) \in Stripping(P)
    BY <1>5 DEF Behind, Stripping
  <2>. QED  BY <1>41, <2>2
<1>. DEFINE h == [n \in 0 .. m + k |-> IF n <= m THEN f[n] ELSE Behind(o, g[n - m])]
<1>7. \A n \in 0 .. m : h[n] = f[n] /\ h[n] \in Stripping(P)
  <2>1. ASSUME NEW n \in 0 .. m PROVE h[n] = f[n]
    <3>1. n \in 0 .. m + k /\ n <= m
      OBVIOUS
    <3>. QED  BY <3>1
  <2>. HIDE DEF h
  <2>. QED  BY <1>4, <2>1
<1>8. \A n \in 0 .. k : h[m + n] = Behind(o, g[n]) /\ h[m + n] \in Stripping(P)
  <2>1. ASSUME NEW n \in 0 .. k PROVE h[m + n] = Behind(o, g[n])
    <3>1. CASE n = 0
      <4>1. g[0] = [out |-> << >>, inside |-> FALSE]
        BY DEF Strips
      <4>2. o \o << >> = o
        BY <1>5
      <4>3. Behind(o, g[0]) = [out |-> o, inside |-> FALSE]
        BY <4>1, <4>2 DEF Behind
      <4>4. h[m + n] = f[m]
        <5>1. m \in 0 .. m /\ m + n = m
          BY <3>1
        <5>. QED  BY <1>7, <5>1
      <4>. QED  BY <3>1, <4>3, <4>4
    <3>2. CASE n # 0
      <4>1. m + n \in 0 .. m + k /\ ~(m + n <= m) /\ m + n - m = n
        BY <3>2
      <4>. QED  BY <4>1
    <3>. QED  BY <3>1, <3>2
  <2>. HIDE DEF h
  <2>. QED  BY <1>6, <2>1
<1>9. h \in [0 .. m + k -> Stripping(P)]
  <2>1. ASSUME NEW n \in 0 .. m + k PROVE h[n] \in Stripping(P)
    <3>1. CASE n \in 0 .. m
      BY <1>7, <3>1
    <3>2. CASE n \notin 0 .. m
      <4>1. n - m \in 0 .. k /\ m + (n - m) = n
        BY <3>2
      <4>. HIDE DEF h
      <4>. QED  BY <1>8, <4>1
    <3>. QED  BY <3>1, <3>2
  <2>2. h = [n \in 0 .. m + k |-> h[n]]
    OBVIOUS
  <2>. HIDE DEF h
  <2>. QED  BY <2>1, <2>2
<1>. HIDE DEF h
<1>10. ASSUME NEW n \in 1 .. m + k PROVE h[n] = StripStep(h[n - 1], t[n])
  <2>1. CASE n \in 1 .. m
    <3>1. n \in 0 .. m /\ n - 1 \in 0 .. m /\ t[n] = s[n]
      BY <1>1, <2>1
    <3>2. f[n] = StripStep(f[n - 1], s[n])
      BY <2>1 DEF Strips
    <3>3. h[n] = f[n] /\ h[n - 1] = f[n - 1]
      BY <1>7, <3>1
    <3>. QED  BY <3>1, <3>2, <3>3
  <2>2. CASE n \notin 1 .. m
    <3>0. n - m \in 1 .. k
      BY <2>2
    <3>. PICK i \in 1 .. k : i = n - m
      BY <3>0
    <3>1. n = m + i /\ n - 1 = m + (i - 1) /\ i \in 0 .. k /\ i - 1 \in 0 .. k
      BY <2>2
    <3>2. g[i] = StripStep(g[i - 1], u[i])
      BY DEF Strips
    <3>3. u[i] \in P /\ g[i - 1] \in Stripping(P) /\ t[n] = u[i]
      BY <1>1, <1>41, <3>1
    <3>4. StripStep(Behind(o, g[i - 1]), u[i]) = Behind(o, StripStep(g[i - 1], u[i]))
      BY <1>5, <3>3, StripBehind
    <3>5. h[n] = Behind(o, g[i]) /\ h[n - 1] = Behind(o, g[i - 1])
      BY <1>8, <3>1
    <3>. QED  BY <3>2, <3>3, <3>4, <3>5
  <2>. QED  BY <2>1, <2>2
<1>11. Strips(h, t)
  <2>1. h[0] = [out |-> << >>, inside |-> FALSE]
    <3>1. f[0] = [out |-> << >>, inside |-> FALSE] /\ 0 \in 0 .. m
      BY DEF Strips
    <3>. QED  BY <1>7, <3>1
  <2>. QED  BY <1>1, <1>10, <2>1 DEF Strips
<1>12. h[m + k] = [out |-> w, inside |-> FALSE]
  <2>1. h[m + k] = Behind(o, g[k])
    <3>1. k \in 0 .. k
      OBVIOUS
    <3>. QED  BY <1>8, <3>1
  <2>2. Behind(o, g[k]) = [out |-> o \o v, inside |-> FALSE]
    BY DEF Behind
  <2>. QED  BY <2>1, <2>2
<1>13. StripsTo(P, t, w)
  BY <1>1, <1>9, <1>11, <1>12 DEF StripsTo
<1>. QED  BY <1>13 DEF BothStrip

\* A text without ESC stays what it is.
LEMMA StripsPlain ==
  ASSUME NEW P, NEW s \in Seq(P), \A i \in 1 .. Len(s) : s[i] # "ESC"
  PROVE  StripsTo(P, s, s)
<1>. PICK m \in Nat : m = Len(s)
  OBVIOUS
<1>. DEFINE o(n) == SubSeq(s, 1, n)
            f == [n \in 0 .. m |-> Shut(o(n))]
<1>1. \A n \in 0 .. m : o(n) \in Seq(P)
  OBVIOUS
<1>2. o(0) = << >> /\ o(m) = s
  OBVIOUS
<1>3. ASSUME NEW n \in 1 .. m PROVE o(n) = Append(o(n - 1), s[n])
  <2>1. n \in Nat /\ n # 0 /\ n <= m
    OBVIOUS
  <2>. DEFINE a == SubSeq(s, 1, n)
              b == Append(SubSeq(s, 1, n - 1), s[n])
  <2>2. a \in Seq(P) /\ Len(a) = n /\ \A i \in 1 .. n : a[i] = s[i]
    BY <2>1
  <2>3. /\ SubSeq(s, 1, n - 1) \in Seq(P) /\ Len(SubSeq(s, 1, n - 1)) = n - 1
        /\ \A i \in 1 .. n - 1 : SubSeq(s, 1, n - 1)[i] = s[i]
    BY <2>1
  <2>4. b \in Seq(P) /\ Len(b) = n /\ \A i \in 1 .. n : b[i] = s[i]
    BY <2>1, <2>3
  <2>. HIDE DEF a, b
  <2>5. a = b
    BY <2>2, <2>4, SeqEqual
  <2>. QED  BY <2>5 DEF a, b
<1>. HIDE DEF o
<1>4. \A x \in Seq(P) : Shut(x) \in Stripping(P)
  BY DEF Stripping, Shut
<1>5. f \in [0 .. m -> Stripping(P)] /\ \A n \in 0 .. m : f[n] = Shut(o(n))
  BY <1>1, <1>4
<1>. HIDE DEF f
<1>6. ASSUME NEW n \in 1 .. m PROVE f[n] = StripStep(f[n - 1], s[n])
  <2>1. n \in 0 .. m /\ n - 1 \in 0 .. m /\ s[n] # "ESC"
    OBVIOUS
  <2>. PICK x : x = o(n - 1)
    OBVIOUS
  <2>2. f[n - 1] = Shut(x) /\ f[n] = Shut(o(n)) /\ o(n) = Append(x, s[n])
    BY <1>3, <1>5, <2>1
  <2>3. StripStep(Shut(x), s[n]) = Shut(Append(x, s[n]))
    BY <2>1, StripCases
  <2>. QED  BY <2>2, <2>3
<1>7. f[0] = Shut(<< >>) /\ f[m] = Shut(s)
  <2>1. 0 \in 0 .. m /\ m \in 0 .. m
    OBVIOUS
  <2>. QED  BY <1>2, <1>5, <2>1
<1>8. Strips(f, s)
  BY <1>6, <1>7 DEF Strips, Shut
<1>. QED  BY <1>5, <1>7, <1>8 DEF StripsTo, Shut

\* A colour goes.
LEMMA StripsColour ==
  ASSUME NEW P
  PROVE  StripsTo(P, <<"ESC", "[", "m">>, << >>)
<1>. DEFINE f == [n \in 0 .. 3 |-> IF n \in {1, 2} THEN Opened(<< >>) ELSE Shut(<< >>)]
            s == <<"ESC", "[", "m">>
<1>1. Len(s) = 3 /\ s[1] = "ESC" /\ s[2] = "[" /\ s[3] = "m"
  OBVIOUS
<1>2. f \in [0 .. 3 -> Stripping(P)]
  <2>1. Opened(<< >>) \in Stripping(P) /\ Shut(<< >>) \in Stripping(P)
    BY DEF Stripping, Opened, Shut
  <2>. QED  BY <2>1
<1>3. f[0] = Shut(<< >>) /\ f[1] = Opened(<< >>) /\ f[2] = Opened(<< >>) /\ f[3] = Shut(<< >>)
  OBVIOUS
<1>. HIDE DEF f, s
<1>4. /\ StripStep(Shut(<< >>), "ESC") = Opened(<< >>)
      /\ StripStep(Opened(<< >>), "[") = Opened(<< >>)
      /\ StripStep(Opened(<< >>), "m") = Shut(<< >>)
  <2>1. "[" \notin Letters /\ "m" \in Letters
    BY DEF Letters
  <2>. QED  BY <2>1, StripCases
<1>5. ASSUME NEW n \in 1 .. 3 PROVE f[n] = StripStep(f[n - 1], s[n])
  <2>1. CASE n = 1
    BY <1>1, <1>3, <1>4, <2>1
  <2>2. CASE n = 2
    BY <1>1, <1>3, <1>4, <2>2
  <2>3. CASE n = 3
    BY <1>1, <1>3, <1>4, <2>3
  <2>. QED  BY <2>1, <2>2, <2>3
<1>6. Strips(f, s)
  BY <1>1, <1>3, <1>5 DEF Strips, Shut
<1>7. StripsTo(P, s, << >>)
  BY <1>1, <1>2, <1>3, <1>6 DEF StripsTo, Shut
<1>. QED  BY <1>7 DEF s

\* Every ESC of s has a letter behind it.
Closed(s) ==
  \A i \in 1 .. Len(s) : s[i] = "ESC" => \E j \in 1 .. Len(s) : i < j /\ s[j] \in Letters

\* In a text whose colours are closed, nothing is left open.
LEMMA StripsClosed ==
  ASSUME NEW P, NEW s \in Seq(P), Closed(s)
  PROVE  \E o \in Seq(P) : StripsTo(P, s, o)
<1>. PICK m \in Nat : m = Len(s)
  OBVIOUS
<1>. PICK f \in [0 .. m -> Stripping(P)] : Strips(f, s)
  BY StripIs
<1>. DEFINE Open(n) == \E i \in 1 .. n : s[i] = "ESC" /\ \A j \in i + 1 .. n : s[j] \notin Letters
            T == {n \in 0 .. m : f[n].inside => Open(n)}
<1>1. 0 \in T /\ T \in SUBSET (0 .. m)
  <2>1. f[0].inside = FALSE
    BY DEF Strips
  <2>. QED  BY <2>1
<1>2. ASSUME NEW n \in T, n # m PROVE n + 1 \in T
  <2>1. n + 1 \in 0 .. m /\ n + 1 \in 1 .. m /\ n + 1 - 1 = n /\ n \in 0 .. m
    BY <1>2
  <2>. SUFFICES ASSUME f[n + 1].inside PROVE Open(n + 1)
    BY <2>1
  <2>. PICK c : c = f[n]
    OBVIOUS
  <2>. PICK p : p = s[n + 1]
    OBVIOUS
  <2>2. f[n + 1] = StripStep(c, p)
    BY <2>1 DEF Strips
  <2>. PICK o : o = c.out
    OBVIOUS
  <2>3. c = [out |-> o, inside |-> c.inside] /\ c.inside \in BOOLEAN
    BY <2>1 DEF Stripping
  <2>4. CASE c.inside
    <3>1. StripStep(c, p) = [out |-> o, inside |-> p \notin Letters]
      BY <2>3, <2>4 DEF StripStep
    <3>2. p \notin Letters
      BY <2>2, <3>1
    <3>3. Open(n)
      BY <2>4
    <3>. PICK i \in 1 .. n : s[i] = "ESC" /\ \A j \in i + 1 .. n : s[j] \notin Letters
      BY <3>3
    <3>4. i \in 1 .. n + 1
      BY <2>1
    <3>5. ASSUME NEW j \in i + 1 .. n + 1 PROVE s[j] \notin Letters
      <4>1. CASE j = n + 1
        BY <3>2, <4>1
      <4>2. CASE j # n + 1
        <5>1. j \in i + 1 .. n
          BY <2>1, <4>2
        <5>. QED  BY <5>1
      <4>. QED  BY <4>1, <4>2
    <3>. QED  BY <3>4, <3>5
  <2>5. CASE ~c.inside
    <3>1. CASE p = "ESC"
      <4>1. n + 1 \in 1 .. n + 1 /\ \A j \in (n + 1) + 1 .. n + 1 : FALSE
        BY <2>1
      <4>. QED  BY <3>1, <4>1
    <3>2. CASE p # "ESC"
      <4>1. StripStep(c, p) = [out |-> Append(o, p), inside |-> c.inside]
        BY <2>3, <2>5, <3>2 DEF StripStep
      <4>2. StripStep(c, p).inside = c.inside
        BY <4>1
      <4>. QED  BY <2>2, <2>5, <4>2
    <3>. QED  BY <3>1, <3>2
  <2>. QED  BY <2>3, <2>4, <2>5
<1>3. T = 0 .. m
  <2>. HIDE DEF T
  <2>. QED  BY <1>1, <1>2, Climb
<1>4. ~f[m].inside
  <2>. SUFFICES ASSUME f[m].inside PROVE FALSE
    OBVIOUS
  <2>1. m \in T
    BY <1>3
  <2>2. PICK i \in 1 .. m : s[i] = "ESC" /\ \A j \in i + 1 .. m : s[j] \notin Letters
    BY <2>1
  <2>3. PICK j \in 1 .. m : i < j /\ s[j] \in Letters
    BY <2>2 DEF Closed
  <2>4. j \in i + 1 .. m
    BY <2>3
  <2>. QED  BY <2>2, <2>3, <2>4
<1>. PICK c : c = f[m]
  OBVIOUS
<1>. PICK o : o = c.out
  OBVIOUS
<1>5. c \in Stripping(P)
  <2>1. m \in 0 .. m
    OBVIOUS
  <2>. QED  BY <2>1
<1>6. o \in Seq(P) /\ c = [out |-> o, inside |-> FALSE]
  BY <1>4, <1>5 DEF Stripping
<1>. QED  BY <1>6 DEF StripsTo

-----------------------------------------------------------------------------
(* The texts: pieces one behind the other.                                 *)

\* f is what there is of the pieces of s after each of them.
Joins(f, s) == f[0] = << >> /\ \A n \in 1 .. Len(s) : f[n] = f[n - 1] \o s[n]

\* FlattenSeq puts one piece behind the other.
LEMMA FlattenIs ==
  ASSUME NEW P, NEW s \in Seq(Seq(P))
  PROVE  \E f \in [0 .. Len(s) -> Seq(P)] : Joins(f, s) /\ FlattenSeq(s) = f[Len(s)]
<1>. PICK m \in Nat : m = Len(s)
  OBVIOUS
<1>1. \A n \in 1 .. m : s[n] \in Seq(P)
  OBVIOUS
<1>2. \E f : Glued(f, s)
  <2>. DEFINE h == [x \in (1 .. m) \X Seq(P) |-> x[2] \o s[x[1]]]
  <2>1. h \in [(1 .. m) \X Seq(P) -> Seq(P)]
    BY <1>1
  <2>2. \A n \in 1 .. m, c \in Seq(P) : h[<<n, c>>] = c \o s[n]
    OBVIOUS
  <2>3. << >> \in Seq(P)
    OBVIOUS
  <2>. HIDE DEF h
  <2>. PICK g : Iterated(g, Seq(P), << >>, m, h)
    BY <2>1, <2>3, Iterates
  <2>4. g \in [0 .. m -> Seq(P)] /\ g[0] = << >> /\ \A n \in 1 .. m : g[n] = h[<<n, g[n - 1]>>]
    BY DEF Iterated
  <2>5. ASSUME NEW n \in 1 .. m PROVE n - 1 \in 0 .. m /\ g[n - 1] \in Seq(P)
    <3>1. n - 1 \in 0 .. m
      OBVIOUS
    <3>. QED  BY <2>4, <3>1
  <2>. DEFINE f == [n \in 1 .. m |-> g[n]]
  <2>6. \A n \in 1 .. m : f[n] = g[n]
    OBVIOUS
  <2>7. ASSUME NEW n \in 1 .. m PROVE f[n] = IF n = 1 THEN s[n] ELSE f[n - 1] \o s[n]
    <3>1. f[n] = g[n - 1] \o s[n]
      BY <2>2, <2>4, <2>5, <2>6
    <3>2. CASE n = 1
      <4>1. g[n - 1] = << >> /\ << >> \o s[n] = s[n]
        BY <1>1, <2>4, <3>2
      <4>. QED  BY <3>1, <3>2, <4>1
    <3>3. CASE n # 1
      <4>1. n - 1 \in 1 .. m
        BY <3>3
      <4>. QED  BY <2>6, <3>1, <3>3, <4>1
    <3>. QED  BY <3>2, <3>3
  <2>8. f = [n \in 1 .. m |-> f[n]]
    OBVIOUS
  <2>. HIDE DEF f
  <2>9. f = [n \in 1 .. m |-> IF n = 1 THEN s[n] ELSE f[n - 1] \o s[n]]
    BY <2>7, <2>8
  <2>. QED  BY <2>9 DEF Glued
<1>. PICK g : g = CHOOSE f : Glued(f, s)
  OBVIOUS
<1>3. Glued(g, s)
  BY <1>2
<1>4. g = [n \in 1 .. m |-> IF n = 1 THEN s[n] ELSE g[n - 1] \o s[n]]
  BY <1>3 DEF Glued
<1>5. \A n \in 1 .. m : g[n] = IF n = 1 THEN s[n] ELSE g[n - 1] \o s[n]
  BY <1>4
<1>6. FlattenSeq(s) = IF m = 0 THEN s ELSE g[m]
  BY DEF FlattenSeq, Glued
<1>. DEFINE f == [n \in 0 .. m |-> IF n = 0 THEN << >> ELSE g[n]]
<1>7. f[0] = << >> /\ \A n \in 1 .. m : f[n] = g[n]
  OBVIOUS
<1>8. f = [n \in 0 .. m |-> f[n]]
  OBVIOUS
<1>. HIDE DEF f
<1>9. ASSUME NEW n \in 1 .. m PROVE f[n] = f[n - 1] \o s[n]
  <2>1. CASE n = 1
    <3>1. f[n] = s[n] /\ f[n - 1] = << >>
      <4>1. n - 1 = 0
        BY <2>1
      <4>. QED  BY <1>5, <1>7, <2>1, <4>1
    <3>. QED  BY <1>1, <3>1
  <2>2. CASE n # 1
    <3>1. n - 1 \in 1 .. m
      BY <2>2
    <3>. QED  BY <1>5, <1>7, <2>2, <3>1
  <2>. QED  BY <2>1, <2>2
<1>10. Joins(f, s)
  BY <1>7, <1>9 DEF Joins
<1>. DEFINE T == {n \in 0 .. m : f[n] \in Seq(P)}
<1>11. T = 0 .. m
  <2>0. << >> \in Seq(P)
    OBVIOUS
  <2>01. 0 \in 0 .. m /\ f[0] \in Seq(P)
    BY <1>7, <2>0
  <2>1. 0 \in T /\ T \in SUBSET (0 .. m)
    BY <2>01
  <2>2. ASSUME NEW n \in T, n # m PROVE n + 1 \in T
    <3>1. n + 1 \in 0 .. m /\ n + 1 \in 1 .. m /\ n + 1 - 1 = n /\ f[n] \in Seq(P)
      BY <2>2
    <3>. PICK k \in 1 .. m : k = n + 1
      BY <3>1
    <3>2. s[n + 1] \in Seq(P) /\ f[n + 1] = f[n] \o s[n + 1]
      <4>1. s[k] \in Seq(P)
        BY <1>1
      <4>2. f[k] = f[k - 1] \o s[k]
        BY <1>9
      <4>3. k - 1 = n
        BY <3>1
      <4>. QED  BY <4>1, <4>2, <4>3
    <3>. PICK a \in Seq(P) : a = f[n]
      BY <3>1
    <3>. PICK b \in Seq(P) : b = s[n + 1]
      BY <3>2
    <3>3. f[n + 1] = a \o b /\ a \o b \in Seq(P)
      BY <3>1, <3>2
    <3>. QED  BY <3>1, <3>3
  <2>. HIDE DEF T
  <2>. QED  BY <2>1, <2>2, Climb
<1>12. f \in [0 .. m -> Seq(P)]
  BY <1>8, <1>11
<1>13. FlattenSeq(s) = f[m]
  <2>1. CASE m = 0
    <3>1. s = << >>
      BY <2>1, EmptySeq
    <3>2. f[m] = << >>
      BY <1>7, <2>1
    <3>. QED  BY <1>6, <2>1, <3>1, <3>2
  <2>2. CASE m # 0
    <3>1. m \in 1 .. m
      BY <2>2
    <3>. QED  BY <1>6, <1>7, <2>2, <3>1
  <2>. QED  BY <2>1, <2>2
<1>. QED  BY <1>10, <1>12, <1>13

-----------------------------------------------------------------------------
(* The scanner in front of an object.                                      *)

Scanning == [depth : Int, inString : BOOLEAN, escape : BOOLEAN, end : {0}]

\* Over s, wherever that is in a text, the scanner goes from a to b and does not end.
Passed(f, s)    == \A n \in 1 .. Len(s) : \A i \in Nat : ScanStep(f[n - 1], s[n], i) = f[n]
Passes(a, s, b) == \E f \in [0 .. Len(s) -> Scanning] : Passed(f, s) /\ f[0] = a /\ f[Len(s)] = b

\* One text behind the other.
LEMMA PassesJoin ==
  ASSUME NEW P, NEW s \in Seq(P), NEW u \in Seq(P), NEW a, NEW b, NEW c, NEW t,
         Passes(a, s, b), Passes(b, u, c), t = s \o u
  PROVE  Passes(a, t, c)
<1>. PICK m \in Nat : m = Len(s)
  OBVIOUS
<1>. PICK k \in Nat : k = Len(u)
  OBVIOUS
<1>. PICK f \in [0 .. m -> Scanning] : Passed(f, s) /\ f[0] = a /\ f[m] = b
  BY DEF Passes
<1>. PICK g \in [0 .. k -> Scanning] : Passed(g, u) /\ g[0] = b /\ g[k] = c
  BY DEF Passes
<1>1. /\ Len(t) = m + k
      /\ \A i \in 1 .. m : t[i] = s[i]
      /\ \A i \in 1 .. k : t[m + i] = u[i]
  OBVIOUS
<1>. DEFINE h == [n \in 0 .. m + k |-> IF n <= m THEN f[n] ELSE g[n - m]]
<1>2. h \in [0 .. m + k -> Scanning]
  <2>1. \A n \in 0 .. m + k : n <= m => n \in 0 .. m
    OBVIOUS
  <2>2. \A n \in 0 .. m + k : ~(n <= m) => n - m \in 0 .. k
    OBVIOUS
  <2>. QED  BY <2>1, <2>2
<1>3. ASSUME NEW n \in 0 .. m PROVE h[n] = f[n]
  <2>1. n \in 0 .. m + k /\ n <= m
    OBVIOUS
  <2>. QED  BY <2>1
<1>4. ASSUME NEW n \in 0 .. k PROVE h[m + n] = g[n]
  <2>1. CASE n = 0
    <3>1. m \in 0 .. m /\ m + n = m
      BY <2>1
    <3>. HIDE DEF h
    <3>. QED  BY <1>3, <2>1, <3>1
  <2>2. CASE n # 0
    <3>1. m + n \in 0 .. m + k /\ ~(m + n <= m) /\ m + n - m = n
      BY <2>2
    <3>. QED  BY <3>1
  <2>. QED  BY <2>1, <2>2
<1>. HIDE DEF h
<1>5. ASSUME NEW n \in 1 .. m + k, NEW i \in Nat PROVE ScanStep(h[n - 1], t[n], i) = h[n]
  <2>1. CASE n \in 1 .. m
    <3>1. n \in 0 .. m /\ n - 1 \in 0 .. m /\ t[n] = s[n]
      BY <1>1, <2>1
    <3>2. ScanStep(f[n - 1], s[n], i) = f[n]
      BY <2>1 DEF Passed
    <3>3. h[n] = f[n] /\ h[n - 1] = f[n - 1]
      BY <1>3, <3>1
    <3>. QED  BY <3>1, <3>2, <3>3
  <2>2. CASE n \notin 1 .. m
    <3>0. n - m \in 1 .. k
      BY <2>2
    <3>. PICK j \in 1 .. k : j = n - m
      BY <3>0
    <3>1. n = m + j /\ n - 1 = m + (j - 1) /\ j \in 0 .. k /\ j - 1 \in 0 .. k
      BY <2>2
    <3>2. ScanStep(g[j - 1], u[j], i) = g[j]
      BY DEF Passed
    <3>3. h[n] = g[j] /\ h[n - 1] = g[j - 1] /\ t[n] = u[j]
      BY <1>1, <1>4, <3>1
    <3>. QED  BY <3>2, <3>3
  <2>. QED  BY <2>1, <2>2
<1>6. h[0] = a /\ h[m + k] = c
  <2>1. 0 \in 0 .. m /\ k \in 0 .. k
    OBVIOUS
  <2>. QED  BY <1>3, <1>4, <2>1
<1>. QED  BY <1>1, <1>2, <1>5, <1>6 DEF Passes, Passed

\* In front of the object; in it and in a string of it, behind a backslash there and
\* in an object within.
Outer   == [depth |-> 1, inString |-> FALSE, escape |-> FALSE, end |-> 0]
InStr   == [depth |-> 1, inString |-> TRUE, escape |-> FALSE, end |-> 0]
Slashed == [depth |-> 1, inString |-> TRUE, escape |-> TRUE, end |-> 0]
Inner   == [depth |-> 2, inString |-> FALSE, escape |-> FALSE, end |-> 0]
Ended(i) == [depth |-> 0, inString |-> FALSE, escape |-> FALSE, end |-> i]

\* What the scanner does there at a mark.
LEMMA ScanMarks ==
  ASSUME NEW i \in Nat
  PROVE  /\ ScanStep(ScanStart, "{", i) = Outer
         /\ ScanStep(Outer, "quote", i) = InStr
         /\ ScanStep(Outer, "{", i) = Inner
         /\ ScanStep(Inner, "}", i) = Outer
         /\ ScanStep(Outer, "}", i) = Ended(i)
         /\ ScanStep(InStr, "quote", i) = Outer
         /\ ScanStep(InStr, "backslash", i) = Slashed
<1>1. ScanStep(ScanStart, "{", i) = Outer
  <2>1. ScanStep(ScanStart, "{", i) = [ScanStart EXCEPT !.depth = 1]
    BY DEF ScanStep, ScanStart
  <2>. QED  BY <2>1 DEF ScanStart, Outer
<1>2. ScanStep(Outer, "quote", i) = InStr
  BY DEF ScanStep, InStr, Outer
<1>3. ScanStep(Outer, "{", i) = Inner
  <2>1. ScanStep(Outer, "{", i) = [Outer EXCEPT !.depth = 2]
    BY DEF ScanStep, Outer
  <2>. QED  BY <2>1 DEF Outer, Inner
<1>4. ScanStep(Inner, "}", i) = Outer
  <2>1. ScanStep(Inner, "}", i) = [Inner EXCEPT !.depth = 1, !.end = 0]
    BY DEF ScanStep, Inner
  <2>. QED  BY <2>1 DEF Inner, Outer
<1>5. ScanStep(Outer, "}", i) = Ended(i)
  <2>1. ScanStep(Outer, "}", i) = [Outer EXCEPT !.depth = 0, !.end = i]
    BY DEF ScanStep, Outer
  <2>. QED  BY <2>1 DEF Outer, Ended
<1>6. ScanStep(InStr, "quote", i) = Outer
  BY DEF ScanStep, InStr, Outer
<1>7. ScanStep(InStr, "backslash", i) = Slashed
  BY DEF ScanStep, InStr, Slashed
<1>. QED  BY <1>1, <1>2, <1>3, <1>4, <1>5, <1>6, <1>7

\* What it does at anything else.
LEMMA ScanOthers ==
  ASSUME NEW p, NEW i \in Nat
  PROVE  /\ p \notin {"quote", "{", "}"} => ScanStep(Outer, p, i) = Outer
         /\ p \notin {"quote", "backslash"} => ScanStep(InStr, p, i) = InStr
         /\ ScanStep(Slashed, p, i) = InStr
<1>1. p \notin {"quote", "{", "}"} => ScanStep(Outer, p, i) = Outer
  BY DEF ScanStep, Outer
<1>2. p \notin {"quote", "backslash"} => ScanStep(InStr, p, i) = InStr
  BY DEF ScanStep, InStr
<1>3. ScanStep(Slashed, p, i) = InStr
  BY DEF ScanStep, InStr, Slashed
<1>. QED  BY <1>1, <1>2, <1>3

\* The places are states of the scanner.
LEMMA PlacesAre ==
  /\ ScanStart \in Scanning /\ Outer \in Scanning /\ InStr \in Scanning
  /\ Slashed \in Scanning /\ Inner \in Scanning
BY DEF ScanStart, Outer, InStr, Slashed, Inner, Scanning

\* A character in a string body.
EscapedOne(c) == IF c \in {"quote", "backslash"} THEN <<"backslash", c>> ELSE <<c>>

\* It leaves the scanner in the string.
LEMMA OnePasses ==
  ASSUME NEW c
  PROVE  Passes(InStr, EscapedOne(c), InStr)
<1>1. CASE c \in {"quote", "backslash"}
  <2>. DEFINE s == <<"backslash", c>>
              f == [n \in 0 .. 2 |-> IF n = 1 THEN Slashed ELSE InStr]
  <2>1. Len(s) = 2 /\ s[1] = "backslash" /\ s[2] = c /\ EscapedOne(c) = s
    BY <1>1 DEF EscapedOne
  <2>2. f \in [0 .. 2 -> Scanning]
    BY PlacesAre
  <2>3. f[0] = InStr /\ f[1] = Slashed /\ f[2] = InStr
    OBVIOUS
  <2>. HIDE DEF f, s
  <2>4. ASSUME NEW n \in 1 .. 2, NEW i \in Nat PROVE ScanStep(f[n - 1], s[n], i) = f[n]
    <3>1. CASE n = 1
      <4>1. ScanStep(InStr, "backslash", i) = Slashed
        BY ScanMarks
      <4>. QED  BY <2>1, <2>3, <3>1, <4>1
    <3>2. CASE n = 2
      <4>1. ScanStep(Slashed, c, i) = InStr
        BY ScanOthers
      <4>. QED  BY <2>1, <2>3, <3>2, <4>1
    <3>. QED  BY <3>1, <3>2
  <2>. QED  BY <2>1, <2>2, <2>3, <2>4 DEF Passes, Passed
<1>2. CASE c \notin {"quote", "backslash"}
  <2>. DEFINE s == <<c>>
              f == [n \in 0 .. 1 |-> InStr]
  <2>1. Len(s) = 1 /\ s[1] = c /\ EscapedOne(c) = s
    BY <1>2 DEF EscapedOne
  <2>2. f \in [0 .. 1 -> Scanning]
    BY PlacesAre
  <2>3. f[0] = InStr /\ f[1] = InStr
    OBVIOUS
  <2>. HIDE DEF f, s
  <2>4. ASSUME NEW n \in 1 .. 1, NEW i \in Nat PROVE ScanStep(f[n - 1], s[n], i) = f[n]
    <3>1. ScanStep(InStr, c, i) = InStr
      BY <1>2, ScanOthers
    <3>2. n = 1
      OBVIOUS
    <3>. QED  BY <2>1, <2>3, <3>1, <3>2
  <2>. QED  BY <2>1, <2>2, <2>3, <2>4 DEF Passes, Passed
<1>. QED  BY <1>1, <1>2

\* Nothing passes over nothing.
LEMMA PassesNothing == ASSUME NEW a \in Scanning PROVE Passes(a, << >>, a)
<1>. DEFINE f == [n \in 0 .. 0 |-> a]
<1>1. f \in [0 .. 0 -> Scanning] /\ f[0] = a
  OBVIOUS
<1>. HIDE DEF f
<1>2. Len(<< >>) = 0 /\ \A n \in 1 .. 0 : FALSE
  OBVIOUS
<1>. QED  BY <1>1, <1>2 DEF Passes, Passed

\* Whatever a string holds, its end is where it was written.
LEMMA EscapedPasses ==
  ASSUME NEW P, NEW body \in Seq(P), "backslash" \in P
  PROVE  Escaped(body) \in Seq(P) /\ Passes(InStr, Escaped(body), InStr)
<1>. PICK m \in Nat : m = Len(body)
  OBVIOUS
<1>. DEFINE s == [i \in 1 .. m |-> EscapedOne(body[i])]
<1>1. Escaped(body) = FlattenSeq(s)
  <2>1. DOMAIN body = 1 .. m
    OBVIOUS
  <2>2. [i \in DOMAIN body |->
           IF body[i] \in {"quote", "backslash"} THEN <<"backslash", body[i]>> ELSE <<body[i]>>] = s
    BY <2>1 DEF EscapedOne
  <2>. QED  BY <2>2 DEF Escaped
<1>2. ASSUME NEW c \in P PROVE EscapedOne(c) \in Seq(P)
  BY DEF EscapedOne
<1>3. /\ s \in [1 .. m -> Seq(P)] /\ Len(s) = m
      /\ \A i \in 1 .. m : s[i] = EscapedOne(body[i]) /\ s[i] \in Seq(P)
  <2>1. \A i \in 1 .. m : body[i] \in P
    OBVIOUS
  <2>. QED  BY <1>2, <2>1
<1>4. s \in Seq(Seq(P))
  BY <1>3
<1>. HIDE DEF s
<1>. PICK f \in [0 .. m -> Seq(P)] : Joins(f, s) /\ FlattenSeq(s) = f[m]
  BY <1>3, <1>4, FlattenIs
<1>. DEFINE T == {n \in 0 .. m : Passes(InStr, f[n], InStr)}
<1>5. 0 \in T /\ T \in SUBSET (0 .. m)
  <2>1. f[0] = << >> /\ 0 \in 0 .. m
    BY DEF Joins
  <2>2. Passes(InStr, << >>, InStr)
    BY PassesNothing, PlacesAre
  <2>. QED  BY <2>1, <2>2
<1>6. ASSUME NEW n \in T, n # m PROVE n + 1 \in T
  <2>1. n \in 0 .. m /\ n + 1 \in 0 .. m /\ Passes(InStr, f[n], InStr)
    BY <1>6
  <2>. PICK k \in 1 .. m : k = n + 1
    BY <1>6, <2>1
  <2>2. f[k] = f[k - 1] \o s[k] /\ k - 1 = n
    BY <1>3, <2>1 DEF Joins
  <2>. PICK x \in Seq(P) : x = f[n]
    BY <2>1
  <2>. PICK y \in Seq(P) : y = s[k]
    BY <1>3
  <2>. PICK z : z = f[k]
    OBVIOUS
  <2>3. z = x \o y
    BY <2>2
  <2>4. Passes(InStr, y, InStr)
    BY <1>3, OnePasses
  <2>5. Passes(InStr, z, InStr)
    BY <2>1, <2>3, <2>4, PassesJoin
  <2>. QED  BY <2>1, <2>5
<1>7. T = 0 .. m
  <2>. HIDE DEF T
  <2>. QED  BY <1>5, <1>6, Climb
<1>8. m \in 0 .. m /\ m \in T
  BY <1>7
<1>9. f[m] \in Seq(P)
  BY <1>8
<1>. QED  BY <1>1, <1>8, <1>9

Opening     == <<"{", "quote", "detail", "quote", ":", "quote">>
Closing(id) == <<"quote", "labels", "{", "}", id>>

\* Up to the string the scanner is in the object, and again behind it.
LEMMA OpeningPasses == Passes(ScanStart, Opening, InStr)
<1>. DEFINE s == Opening
            f == [n \in 0 .. 6 |-> CASE n = 0 -> ScanStart [] n \in {1, 4, 5} -> Outer [] n \in {2, 3, 6} -> InStr]
<1>1. /\ Len(s) = 6 /\ s[1] = "{" /\ s[2] = "quote" /\ s[3] = "detail" /\ s[4] = "quote"
      /\ s[5] = ":" /\ s[6] = "quote"
  BY DEF Opening
<1>2. f \in [0 .. 6 -> Scanning]
  <2>1. \A n \in 0 .. 6 : n = 0 \/ n \in {1, 4, 5} \/ n \in {2, 3, 6}
    OBVIOUS
  <2>. QED  BY <2>1, PlacesAre
<1>3. f[0] = ScanStart /\ f[1] = Outer /\ f[2] = InStr /\ f[3] = InStr /\ f[4] = Outer /\ f[5] = Outer
      /\ f[6] = InStr
  OBVIOUS
<1>. HIDE DEF f, s
<1>4. ASSUME NEW n \in 1 .. 6, NEW i \in Nat PROVE ScanStep(f[n - 1], s[n], i) = f[n]
  <2>01. /\ ScanStep(ScanStart, "{", i) = Outer /\ ScanStep(Outer, "quote", i) = InStr
         /\ ScanStep(InStr, "quote", i) = Outer
    BY ScanMarks
  <2>02. ScanStep(InStr, "detail", i) = InStr /\ ScanStep(Outer, ":", i) = Outer
    BY ScanOthers
  <2>0. /\ ScanStep(f[0], s[1], i) = f[1] /\ ScanStep(f[1], s[2], i) = f[2]
        /\ ScanStep(f[2], s[3], i) = f[3] /\ ScanStep(f[3], s[4], i) = f[4]
        /\ ScanStep(f[4], s[5], i) = f[5] /\ ScanStep(f[5], s[6], i) = f[6]
    BY <1>1, <1>3, <2>01, <2>02
  <2>1. CASE n = 1
    BY <2>0, <2>1
  <2>2. CASE n = 2
    BY <2>0, <2>2
  <2>3. CASE n = 3
    BY <2>0, <2>3
  <2>4. CASE n = 4
    BY <2>0, <2>4
  <2>5. CASE n = 5
    BY <2>0, <2>5
  <2>6. CASE n = 6
    BY <2>0, <2>6
  <2>. QED  BY <2>1, <2>2, <2>3, <2>4, <2>5, <2>6
<1>5. Passes(ScanStart, s, InStr)
  BY <1>1, <1>2, <1>3, <1>4 DEF Passes, Passed
<1>. QED  BY <1>5 DEF s

\* The rest of the object, up to its last brace.
LEMMA ClosingPasses ==
  ASSUME NEW id, id \notin Special
  PROVE  Passes(InStr, Closing(id), Outer)
<1>. DEFINE s == Closing(id)
            f == [n \in 0 .. 5 |-> IF n = 0 THEN InStr ELSE IF n = 3 THEN Inner ELSE Outer]
<1>1. Len(s) = 5 /\ s[1] = "quote" /\ s[2] = "labels" /\ s[3] = "{" /\ s[4] = "}" /\ s[5] = id
  BY DEF Closing
<1>2. f \in [0 .. 5 -> Scanning]
  BY PlacesAre
<1>3. f[0] = InStr /\ f[1] = Outer /\ f[2] = Outer /\ f[3] = Inner /\ f[4] = Outer /\ f[5] = Outer
  OBVIOUS
<1>. HIDE DEF f, s
<1>4. ASSUME NEW n \in 1 .. 5, NEW i \in Nat PROVE ScanStep(f[n - 1], s[n], i) = f[n]
  <2>00. id \notin {"quote", "{", "}"}
    BY DEF Special
  <2>01. /\ ScanStep(InStr, "quote", i) = Outer
         /\ ScanStep(Outer, "{", i) = Inner /\ ScanStep(Inner, "}", i) = Outer
    BY ScanMarks
  <2>02. ScanStep(Outer, "labels", i) = Outer /\ ScanStep(Outer, id, i) = Outer
    BY <2>00, ScanOthers
  <2>0. /\ ScanStep(f[0], s[1], i) = f[1] /\ ScanStep(f[1], s[2], i) = f[2]
        /\ ScanStep(f[2], s[3], i) = f[3] /\ ScanStep(f[3], s[4], i) = f[4]
        /\ ScanStep(f[4], s[5], i) = f[5]
    BY <1>1, <1>3, <2>01, <2>02
  <2>1. CASE n = 1
    BY <2>0, <2>1
  <2>2. CASE n = 2
    BY <2>0, <2>2
  <2>3. CASE n = 3
    BY <2>0, <2>3
  <2>4. CASE n = 4
    BY <2>0, <2>4
  <2>5. CASE n = 5
    BY <2>0, <2>5
  <2>. QED  BY <2>1, <2>2, <2>3, <2>4, <2>5
<1>5. Passes(InStr, s, Outer)
  BY <1>1, <1>2, <1>3, <1>4 DEF Passes, Passed
<1>. QED  BY <1>5 DEF s

\* A step of the scanner keeps its shape.
ScanningOn == [depth : Int, inString : BOOLEAN, escape : BOOLEAN, end : Nat]

\* Whatever comes.
LEMMA ScanStepIs ==
  ASSUME NEW acc \in ScanningOn, NEW p, NEW i \in Nat
  PROVE  ScanStep(acc, p, i) \in ScanningOn
<1>1. acc.depth \in Int /\ acc.depth + 1 \in Int /\ acc.depth - 1 \in Int
      /\ (IF acc.depth = 1 THEN i ELSE 0) \in Nat
  BY DEF ScanningOn
<1>2. /\ [acc EXCEPT !.escape = FALSE] \in ScanningOn
      /\ [acc EXCEPT !.escape = TRUE] \in ScanningOn
      /\ [acc EXCEPT !.inString = FALSE] \in ScanningOn
      /\ [acc EXCEPT !.inString = TRUE] \in ScanningOn
      /\ [acc EXCEPT !.depth = @ + 1] \in ScanningOn
  BY <1>1 DEF ScanningOn
<1>3. [acc EXCEPT !.depth = @ - 1, !.end = IF acc.depth = 1 THEN i ELSE 0] \in ScanningOn
  BY <1>1 DEF ScanningOn
<1>. QED  BY <1>2, <1>3 DEF ScanStep

\* One text behind the other, place by place.
Joint(P, a, b, c) ==
  /\ c \in Seq(P) /\ Len(c) = Len(a) + Len(b)
  /\ \A i \in 1 .. Len(a) : c[i] = a[i]
  /\ \A i \in 1 .. Len(b) : c[Len(a) + i] = b[i]

\* Which is what \o makes.
LEMMA JoinIs ==
  ASSUME NEW P, NEW a \in Seq(P), NEW b \in Seq(P), NEW c, c = a \o b
  PROVE  Joint(P, a, b, c)
BY DEF Joint

Fixed == {"{", "}", "quote", "backslash", "detail", ":", "labels"}

\* Texts of five and six pieces.
LEMMA FiveIs ==
  ASSUME NEW P, NEW a \in P, NEW b \in P, NEW c \in P, NEW d \in P, NEW e \in P
  PROVE  <<a, b, c, d, e>> \in Seq(P)
OBVIOUS

\* And six.
LEMMA SixIs ==
  ASSUME NEW P, NEW a \in P, NEW b \in P, NEW c \in P, NEW d \in P, NEW e \in P, NEW f \in P
  PROVE  <<a, b, c, d, e, f>> \in Seq(P)
OBVIOUS

\* One more.
OneMore(a, b, c, d, e, f) == Append(<<a, b, c, d, e>>, f) = <<a, b, c, d, e, f>>

\* Six are five and one.
LEMMA SixIsMore ==
  ASSUME NEW P, NEW a \in P, NEW b \in P, NEW c \in P, NEW d \in P, NEW e \in P, NEW f \in P
  PROVE  OneMore(a, b, c, d, e, f)
<1>. PICK x : x = <<a, b, c, d, e>>
  OBVIOUS
<1>. PICK y : y = <<a, b, c, d, e, f>>
  OBVIOUS
<1>. PICK z : z = Append(x, f)
  OBVIOUS
<1>1. /\ x \in Seq(P) /\ Len(x) = 5
      /\ x[1] = a /\ x[2] = b /\ x[3] = c /\ x[4] = d /\ x[5] = e
  BY FiveIs
<1>2. /\ y \in Seq(P) /\ Len(y) = 6
      /\ y[1] = a /\ y[2] = b /\ y[3] = c /\ y[4] = d /\ y[5] = e /\ y[6] = f
  BY SixIs
<1>3. z \in Seq(P) /\ Len(z) = 6 /\ z[6] = f /\ \A i \in 1 .. 5 : z[i] = x[i]
  BY <1>1, AppendProperties
<1>4. \A i \in 1 .. 6 : i = 6 \/ i \in 1 .. 5
  OBVIOUS
<1>5. \A i \in 1 .. 5 : i = 1 \/ i = 2 \/ i = 3 \/ i = 4 \/ i = 5
  OBVIOUS
<1>6. \A i \in 1 .. 5 : x[i] = y[i]
  BY <1>1, <1>2, <1>5
<1>7. \A i \in 1 .. 6 : z[i] = y[i]
  BY <1>2, <1>3, <1>4, <1>6
<1>8. z = y
  BY <1>2, <1>3, <1>7, SeqEqual
<1>. QED  BY <1>8 DEF OneMore

\* What the object begins with.
LEMMA OpeningIs ==
  ASSUME NEW P, Fixed \subseteq P
  PROVE  Opening \in Seq(P) /\ Len(Opening) = 6 /\ Opening[1] = "{"
<1>. PICK a \in P : a = "{"
  BY DEF Fixed
<1>. PICK b \in P : b = "quote"
  BY DEF Fixed
<1>. PICK c \in P : c = "detail"
  BY DEF Fixed
<1>. PICK d \in P : d = ":"
  BY DEF Fixed
<1>1. Opening = <<a, b, c, b, d, b>>
  BY DEF Opening
<1>2. <<a, b, c, b, d, b>> \in Seq(P)
  BY SixIs
<1>. QED  BY <1>1, <1>2

\* And what it ends with.
LEMMA ClosingIs ==
  ASSUME NEW P, Fixed \subseteq P, NEW id \in P
  PROVE  /\ Closing(id) \in Seq(P) /\ Len(Closing(id)) = 5 /\ Closing(id)[5] = id
         /\ Append(Closing(id), "}") = <<"quote", "labels", "{", "}", id, "}">>
<1>. PICK a \in P : a = "quote"
  BY DEF Fixed
<1>. PICK b \in P : b = "labels"
  BY DEF Fixed
<1>. PICK c \in P : c = "{"
  BY DEF Fixed
<1>. PICK d \in P : d = "}"
  BY DEF Fixed
<1>1. Closing(id) = <<a, b, c, d, id>>
  BY DEF Closing
<1>2. <<a, b, c, d, id>> \in Seq(P)
  BY FiveIs, Zenon
<1>3. Append(<<a, b, c, d, id>>, d) = <<a, b, c, d, id, d>>
  <2>1. OneMore(a, b, c, d, id, d)
    BY SixIsMore
  <2>. QED  BY <2>1 DEF OneMore
<1>4. Len(Closing(id)) = 5 /\ Closing(id)[5] = id
  BY DEF Closing
<1>5. Append(Closing(id), "}") = <<"quote", "labels", "{", "}", id, "}">>
  BY <1>1, <1>3, Zenon
<1>. QED  BY <1>1, <1>2, <1>4, <1>5

\* The braces.
Left  == "{"
Right == "}"

\* JSON is an object the scanner finds the end of.
LEMMA JsonIs ==
  ASSUME NEW P, NEW d, Fixed \subseteq P, d.id \in P, d.id \notin Special, d.detail \in Seq(P)
  PROVE  \E k \in Seq(P) :
           /\ Json(d) = Append(k, Right) /\ Passes(ScanStart, k, Outer)
           /\ Len(k) > 0 /\ k[1] = Left /\ k[Len(k)] = d.id
<1>. PICK id : id = d.id
  OBVIOUS
<1>. PICK e \in Seq(P) : e = Escaped(d.detail) /\ Passes(InStr, e, InStr)
  <2>1. "backslash" \in P
    BY DEF Fixed
  <2>. QED  BY <2>1, EscapedPasses
<1>. PICK a : a = Opening
  OBVIOUS
<1>. PICK c : c = Closing(id)
  OBVIOUS
<1>02. a \in Seq(P) /\ Len(a) = 6 /\ a[1] = "{"
  BY OpeningIs
<1>03. /\ c \in Seq(P) /\ Len(c) = 5 /\ c[5] = id
       /\ Append(c, "}") = <<"quote", "labels", "{", "}", id, "}">>
  BY ClosingIs
<1>. PICK b : b = a \o e
  OBVIOUS
<1>. PICK k : k = b \o c
  OBVIOUS
<1>04. b \in Seq(P) /\ Joint(P, a, e, b)
  <2>1. Joint(P, a, e, b)
    BY <1>02, JoinIs
  <2>. QED  BY <2>1 DEF Joint
<1>05. k \in Seq(P) /\ Joint(P, b, c, k)
  <2>1. Joint(P, b, c, k)
    BY <1>03, <1>04, JoinIs
  <2>. QED  BY <2>1 DEF Joint
<1>1. Passes(ScanStart, b, InStr)
  BY <1>02, OpeningPasses, PassesJoin
<1>2. Passes(InStr, c, Outer)
  BY ClosingPasses
<1>3. Passes(ScanStart, k, Outer)
  BY <1>03, <1>04, <1>1, <1>2, PassesJoin
<1>5. Len(k) > 0 /\ k[1] = "{" /\ k[Len(k)] = id
  <2>. PICK l \in Nat : l = Len(b)
    BY <1>04
  <2>. PICK n \in Nat : n = Len(e)
    OBVIOUS
  <2>0. l = 6 + n
    BY <1>02, <1>04 DEF Joint
  <2>1. 1 \in 1 .. l /\ 1 \in 1 .. 6 /\ 5 \in 1 .. 5 /\ l + 5 > 0
    BY <2>0
  <2>2. Len(k) = l + 5 /\ k[1] = b[1] /\ k[l + 5] = c[5]
    BY <1>03, <1>05, <2>1 DEF Joint
  <2>3. b[1] = a[1]
    BY <1>02, <1>04, <2>1 DEF Joint
  <2>. QED  BY <1>02, <1>03, <2>1, <2>2, <2>3
<1>6. Json(d) = Append(k, "}")
  <2>. PICK x : x = <<"quote", "labels", "{", "}", id, "}">>
    OBVIOUS
  <2>1. Json(d) = b \o x
    BY DEF Json, Opening
  <2>2. "}" \in P
    BY DEF Fixed
  <2>3. GrowsAtTheEnd(b, c, "}")
    BY <1>03, <1>04, <2>2, JoinsGrow
  <2>4. Append(b \o c, "}") = b \o x
    BY <1>03, <2>3 DEF GrowsAtTheEnd
  <2>. QED  BY <2>1, <2>4
<1>7. Len(k) > 0 /\ k[1] = Left /\ k[Len(k)] = id /\ Json(d) = Append(k, Right)
  BY <1>5, <1>6 DEF Left, Right
<1>. QED  BY <1>05, <1>3, <1>7

\* And it begins so.
LEMMA ScanStartIs == ScanStart \in ScanningOn
BY DEF ScanStart, ScanningOn

\* The first place of a piece.
FirstOf(t, x) == SelectInSeq(t, LAMBDA p : p = x)

\* It is the place that has none of it in front.
LEMMA FirstIs ==
  ASSUME NEW P, NEW t \in Seq(P), NEW x
  PROVE  /\ FirstOf(t, x) \in 0 .. Len(t)
         /\ (\A j \in 1 .. Len(t) : t[j] # x) => FirstOf(t, x) = 0
         /\ \A i \in 1 .. Len(t) :
              t[i] = x /\ (\A j \in 1 .. Len(t) : j < i => t[j] # x) => FirstOf(t, x) = i
<1>. PICK I : I = {i \in 1 .. Len(t) : t[i] = x}
  OBVIOUS
<1>1. FirstOf(t, x) = IF I # {} THEN Min(I) ELSE 0
  BY DEF FirstOf, SelectInSeq
<1>2. ASSUME \A j \in 1 .. Len(t) : t[j] # x PROVE FirstOf(t, x) = 0
  BY <1>1, <1>2
<1>3. ASSUME NEW i \in 1 .. Len(t), t[i] = x, \A j \in 1 .. Len(t) : j < i => t[j] # x
      PROVE  FirstOf(t, x) = i
  <2>1. i \in I /\ \A j \in I : i <= j
    BY <1>3
  <2>2. \A y \in I : (\A j \in I : y <= j) => y = i
    BY <2>1
  <2>3. Min(I) = i
    BY <2>1, <2>2 DEF Min
  <2>. QED  BY <1>1, <2>1, <2>3
<1>4. FirstOf(t, x) \in 0 .. Len(t)
  <2>1. CASE I = {}
    BY <1>1, <2>1
  <2>2. CASE I # {}
    <3>1. I \in SUBSET Nat
      OBVIOUS
    <3>2. \E i \in I : \A j \in I : i <= j
      BY <2>2, <3>1, LeastMember
    <3>3. Min(I) \in I
      BY <3>2 DEF Min
    <3>. QED  BY <1>1, <2>2, <3>3
  <2>. QED  BY <2>1, <2>2
<1>. QED  BY <1>2, <1>3, <1>4

\* The recursion of find_json_object from the brace at start on.
Scanned(scan, t, start) ==
  \A i \in 0 .. Len(t) :
    scan[i] = IF i < start \/ i = 0 THEN ScanStart ELSE ScanStep(scan[i - 1], t[i], i)

\* It is one.
LEMMA ScanIs ==
  ASSUME NEW P, NEW t \in Seq(P)
  PROVE  \E scan : /\ Scanned(scan, t, FirstOf(t, Left))
                   /\ find_json_object(t) =
                        IF FirstOf(t, Left) = 0 \/ scan[Len(t)].end = 0 THEN << >>
                        ELSE <<SubSeq(t, FirstOf(t, Left), scan[Len(t)].end)>>
<1>. PICK m \in Nat : m = Len(t)
  OBVIOUS
<1>. DEFINE start == SelectInSeq(t, LAMBDA p : p = "{")
            ScanAt(c, i) == IF i < start \/ i = 0 THEN ScanStart ELSE ScanStep(c[i - 1], t[i], i)
            scan == CHOOSE c : c = [i \in 0 .. m |-> ScanAt(c, i)]
<1>3. find_json_object(t) =
        IF start = 0 \/ scan[m].end = 0 THEN << >> ELSE <<SubSeq(t, start, scan[m].end)>>
  BY DEF find_json_object
<1>0. start = FirstOf(t, Left) /\ start \in Nat
  <2>1. start = FirstOf(t, Left)
    BY DEF FirstOf, Left
  <2>2. FirstOf(t, Left) \in 0 .. Len(t)
    BY FirstIs
  <2>. HIDE DEF start
  <2>. QED  BY <2>1, <2>2
<1>. HIDE DEF start
<1>1. \E c : c = [i \in 0 .. m |-> ScanAt(c, i)]
  <2>. DEFINE V == ScanningOn
              h == [x \in (1 .. m) \X V |-> IF x[1] < start THEN ScanStart
                                            ELSE ScanStep(x[2], t[x[1]], x[1])]
  <2>1. ScanStart \in V
    BY ScanStartIs
  <2>2. ASSUME NEW n \in 1 .. m, NEW c \in V PROVE ScanStep(c, t[n], n) \in V
    <3>1. n \in Nat
      OBVIOUS
    <3>. QED  BY <3>1, ScanStepIs
  <2>3. h \in [(1 .. m) \X V -> V]
    BY <2>1, <2>2
  <2>4. \A n \in 1 .. m, c \in V : h[<<n, c>>] = IF n < start THEN ScanStart ELSE ScanStep(c, t[n], n)
    OBVIOUS
  <2>. HIDE DEF h, V
  <2>. PICK g : Iterated(g, V, ScanStart, m, h)
    BY <2>1, <2>3, Iterates
  <2>5. g \in [0 .. m -> V] /\ g[0] = ScanStart /\ \A n \in 1 .. m : g[n] = h[<<n, g[n - 1]>>]
    BY DEF Iterated
  <2>6. ASSUME NEW n \in 0 .. m PROVE g[n] = ScanAt(g, n)
    <3>1. CASE n = 0
      BY <2>5, <3>1
    <3>2. CASE n # 0
      <4>1. n \in 1 .. m /\ n - 1 \in 0 .. m
        BY <3>2
      <4>2. g[n - 1] \in V
        BY <2>5, <4>1
      <4>3. g[n] = h[<<n, g[n - 1]>>]
        BY <2>5, <4>1
      <4>. QED  BY <2>4, <3>2, <4>1, <4>2, <4>3
    <3>. QED  BY <3>1, <3>2
  <2>. HIDE DEF ScanAt
  <2>7. g = [n \in 0 .. m |-> ScanAt(g, n)]
    BY <2>5, <2>6
  <2>. QED  BY <2>7
<1>2. scan = [i \in 0 .. m |-> ScanAt(scan, i)]
  <2>. HIDE DEF ScanAt
  <2>. QED  BY <1>1
<1>. HIDE DEF scan
<1>4. Scanned(scan, t, start)
  BY <1>2 DEF Scanned
<1>. QED  BY <1>0, <1>3, <1>4

\* An end stays the end.
LEMMA EndStays ==
  ASSUME NEW acc, NEW p, NEW i, acc.end # 0
  PROVE  ScanStep(acc, p, i) = acc
BY DEF ScanStep

\* k stands in t behind the first a pieces.
Stands(t, a, k) == a + Len(k) <= Len(t) /\ \A i \in 1 .. Len(k) : t[a + i] = k[i]

CutOut(t, a, k) == SubSeq(t, a + 1, a + Len(k)) = k

\* And it can be cut out.
LEMMA StandsIs ==
  ASSUME NEW P, NEW t \in Seq(P), NEW k \in Seq(P), NEW a \in Nat, Stands(t, a, k)
  PROVE  CutOut(t, a, k)
<1>. PICK n \in Nat : n = Len(k)
  OBVIOUS
<1>. PICK b : b = a + 1
  OBVIOUS
<1>. PICK e : e = a + n
  OBVIOUS
<1>. PICK q : q = SubSeq(t, b, e)
  OBVIOUS
<1>1. a + n <= Len(t) /\ Len(t) \in Nat /\ b \in Nat /\ e \in Nat /\ e = a + n
  BY DEF Stands
<1>2. ASSUME NEW i \in b .. e PROVE i \in 1 .. Len(t) /\ t[i] \in P
  BY <1>1
<1>3. /\ q \in Seq(P) /\ Len(q) = IF b <= e THEN e - b + 1 ELSE 0
      /\ \A i \in 1 .. e - b + 1 : q[i] = t[b + i - 1]
  BY <1>1, <1>2, SubSeqProperties
<1>4. e - b + 1 = n /\ Len(q) = n
  BY <1>1, <1>3
<1>5. ASSUME NEW i \in 1 .. n PROVE q[i] = k[i]
  <2>1. b + i - 1 = a + i
    BY <1>1
  <2>2. q[i] = t[a + i]
    BY <1>3, <1>4, <2>1
  <2>3. t[a + i] = k[i]
    BY DEF Stands
  <2>. QED  BY <2>2, <2>3
<1>6. q = k
  BY <1>3, <1>4, <1>5, SeqEqual
<1>. QED  BY <1>6 DEF CutOut

\* The first object of a text is found as a whole.
LEMMA FindsObject ==
  ASSUME NEW P, NEW t \in Seq(P), NEW k \in Seq(P), NEW a \in Nat, NEW n \in Nat,
         n = Len(k), n > 0, k[1] = Left, Passes(ScanStart, k, Outer),
         \A i \in 1 .. a : t[i] # Left, NEW j \in Seq(P), j = Append(k, Right), Stands(t, a, j)
  PROVE  find_json_object(t) = <<j>>
<1>. PICK m \in Nat : m = Len(t)
  OBVIOUS
<1>01. Len(j) = n + 1 /\ j[n + 1] = Right /\ \A i \in 1 .. n : j[i] = k[i]
  OBVIOUS
<1>02. a + n + 1 <= m /\ \A i \in 1 .. n + 1 : t[a + i] = j[i]
  BY <1>01 DEF Stands
<1>. PICK e \in Nat : e = a + n + 1
  OBVIOUS
<1>03. e <= m /\ t[e] = Right /\ e = a + n + 1
  <2>1. n + 1 \in 1 .. n + 1 /\ e = a + (n + 1)
    OBVIOUS
  <2>. QED  BY <1>01, <1>02, <2>1
<1>1. FirstOf(t, Left) = a + 1
  <2>1. a + 1 \in 1 .. m /\ 1 \in 1 .. n /\ 1 \in 1 .. n + 1
    BY <1>03
  <2>3. t[a + 1] = Left
    BY <1>01, <1>02, <2>1
  <2>2. \A x \in 1 .. m : x < a + 1 => t[x] # Left
    OBVIOUS
  <2>. QED  BY <2>1, <2>2, <2>3, FirstIs
<1>. PICK scan : /\ Scanned(scan, t, a + 1)
                 /\ find_json_object(t) = IF a + 1 = 0 \/ scan[m].end = 0 THEN << >>
                                          ELSE <<SubSeq(t, a + 1, scan[m].end)>>
  BY <1>1, ScanIs
<1>. PICK f \in [0 .. n -> Scanning] : Passed(f, k) /\ f[0] = ScanStart /\ f[n] = Outer
  BY DEF Passes
<1>. DEFINE T == {i \in 0 .. n : scan[a + i] = f[i]}
<1>2. 0 \in T /\ T \in SUBSET (0 .. n)
  <2>1. a \in 0 .. m /\ a < a + 1 /\ a + 0 = a
    BY <1>03
  <2>2. scan[a] = ScanStart
    BY <2>1 DEF Scanned
  <2>. QED  BY <2>1, <2>2
<1>3. ASSUME NEW i \in T, i # n PROVE i + 1 \in T
  <2>1. i \in 0 .. n /\ i + 1 \in 1 .. n /\ i + 1 \in 0 .. n /\ scan[a + i] = f[i]
    BY <1>3
  <2>. PICK l \in 1 .. n : l = i + 1
    BY <2>1
  <2>. PICK b \in Nat : b = a + l
    OBVIOUS
  <2>2. b \in 0 .. m /\ ~(b < a + 1) /\ b # 0 /\ b - 1 = a + i /\ l - 1 = i
    BY <1>03, <2>1
  <2>3. scan[b] = ScanStep(scan[b - 1], t[b], b)
    BY <2>2 DEF Scanned
  <2>4. t[b] = k[l]
    <3>1. l \in 1 .. n + 1
      OBVIOUS
    <3>. QED  BY <1>01, <1>02, <3>1
  <2>5. ScanStep(f[l - 1], k[l], b) = f[l]
    BY DEF Passed
  <2>6. scan[b] = f[l]
    BY <2>1, <2>2, <2>3, <2>4, <2>5
  <2>7. a + (i + 1) = b
    OBVIOUS
  <2>. QED  BY <2>1, <2>6, <2>7
<1>4. T = 0 .. n
  <2>. HIDE DEF T
  <2>. QED  BY <1>2, <1>3, Climb
<1>5. scan[e] = Ended(e)
  <2>1. n \in T /\ e \in 0 .. m /\ ~(e < a + 1) /\ e # 0 /\ e - 1 = a + n
    BY <1>03, <1>4
  <2>2. scan[a + n] = Outer
    BY <2>1
  <2>3. scan[e] = ScanStep(scan[e - 1], t[e], e)
    BY <2>1 DEF Scanned
  <2>4. ScanStep(Outer, Right, e) = Ended(e)
    BY ScanMarks DEF Right
  <2>. QED  BY <1>03, <2>1, <2>2, <2>3, <2>4
<1>. PICK w : w = Ended(e)
  OBVIOUS
<1>6. w.end = e /\ e # 0
  <2>1. w.end = e
    BY DEF Ended
  <2>. QED  BY <2>1, <1>03
<1>60. m - e \in Nat
  BY <1>03
<1>. PICK r \in Nat : r = m - e
  BY <1>60
<1>. DEFINE U == {i \in 0 .. r : scan[e + i] = w}
<1>7. 0 \in U /\ U \in SUBSET (0 .. r)
  <2>1. scan[e + 0] = w /\ 0 \in 0 .. r
    BY <1>5
  <2>. QED  BY <2>1
<1>8. ASSUME NEW i \in U, i # r PROVE i + 1 \in U
  <2>1. i \in 0 .. r /\ i + 1 \in 0 .. r /\ scan[e + i] = w
    BY <1>8
  <2>. PICK b \in Nat : b = e + (i + 1)
    OBVIOUS
  <2>2. b \in 0 .. m /\ ~(b < a + 1) /\ b # 0 /\ b - 1 = e + i
    BY <1>03, <2>1
  <2>3. scan[b] = ScanStep(scan[b - 1], t[b], b)
    BY <2>2 DEF Scanned
  <2>4. ScanStep(w, t[b], b) = w
    BY <1>6, EndStays
  <2>. QED  BY <2>1, <2>2, <2>3, <2>4
<1>9. U = 0 .. r
  <2>. HIDE DEF U
  <2>. QED  BY <1>7, <1>8, Climb
<1>10. scan[m] = w
  <2>1. scan[e + r] = w
    <3>1. r \in 0 .. r
      OBVIOUS
    <3>2. r \in U
      BY <1>9, <3>1
    <3>. QED  BY <3>2
  <2>2. e + r = m
    BY <1>03
  <2>. QED  BY <2>1, <2>2
<1>11. find_json_object(t) = <<SubSeq(t, a + 1, e)>>
  BY <1>6, <1>10
<1>12. SubSeq(t, a + 1, e) = j
  <2>1. CutOut(t, a, j)
    BY StandsIs
  <2>2. e = a + Len(j)
    BY <1>01, <1>03
  <2>. QED  BY <2>1, <2>2 DEF CutOut
<1>. QED  BY <1>11, <1>12

-----------------------------------------------------------------------------
(* The lines, as they are written and as they are without colours.         *)

\* What the documents of l are made of: never ESC.
DetailPieces(l) == UNION {ToSet(d.detail) \ {"ESC"} : d \in ToSet(l.documents)}
Ids(l)          == {d.id : d \in ToSet(l.documents)}
DocPieces(l)    == DetailPieces(l) \cup Ids(l) \cup Fixed

\* The documents of a line, one behind the other.
Body(l) == FlattenSeq([i \in DOMAIN l.documents |-> Json(l.documents[i])])

\* The lines of the worlds.
Line(l) == \E w \in Worlds : l \in w.lines

\* A document is JSON of these pieces.
LEMMA DocIs ==
  ASSUME NEW l, Line(l), NEW d \in ToSet(l.documents)
  PROVE  /\ Fixed \subseteq DocPieces(l) /\ d.id \in DocPieces(l) /\ d.id \notin Special
         /\ d.detail \in Seq(DocPieces(l)) /\ Json(d) \in Seq(DocPieces(l)) /\ Len(Json(d)) > 0
<1>. PICK D : D = DocPieces(l)
  OBVIOUS
<1>1. Fixed \subseteq D /\ d.id \in D /\ ToSet(d.detail) \ {"ESC"} \subseteq D
  <2>1. d.id \in Ids(l)
    BY DEF Ids
  <2>2. ToSet(d.detail) \ {"ESC"} \subseteq DetailPieces(l)
    BY DEF DetailPieces
  <2>. QED  BY <2>1, <2>2 DEF DocPieces
<1>2. d.detail \in Seq(ToSet(d.detail) \ {"ESC"}) /\ d.id \notin Special
  BY LinesAssumption DEF Line
<1>3. d.detail \in Seq(D)
  <2>. PICK E : E = ToSet(d.detail) \ {"ESC"}
    OBVIOUS
  <2>1. E \subseteq D /\ d.detail \in Seq(E)
    BY <1>1, <1>2
  <2>. QED  BY <2>1
<1>. PICK k \in Seq(D) : Json(d) = Append(k, Right)
  BY <1>1, <1>2, <1>3, JsonIs
<1>4. Right \in D
  BY <1>1 DEF Right, Fixed
<1>5. Json(d) \in Seq(D) /\ Len(Json(d)) > 0
  BY <1>4
<1>. QED  BY <1>1, <1>2, <1>3, <1>5

\* What stands in a text stands in it when more follows.
LEMMA StandsMore ==
  ASSUME NEW P, NEW x \in Seq(P), NEW y \in Seq(P), NEW t, t = x \o y,
         NEW k \in Seq(P), NEW a \in Nat, Stands(x, a, k)
  PROVE  Stands(t, a, k)
<1>1. Joint(P, x, y, t)
  BY JoinIs
<1>. PICK n \in Nat : n = Len(k)
  OBVIOUS
<1>. PICK m \in Nat : m = Len(x)
  OBVIOUS
<1>2. Len(t) = m + Len(y) /\ Len(y) \in Nat /\ \A i \in 1 .. m : t[i] = x[i]
  BY <1>1 DEF Joint
<1>3. a + n <= m /\ \A i \in 1 .. n : x[a + i] = k[i]
  BY DEF Stands
<1>4. a + n <= Len(t)
  BY <1>2, <1>3
<1>5. ASSUME NEW i \in 1 .. n PROVE t[a + i] = k[i]
  <2>1. a + i \in 1 .. m
    BY <1>3
  <2>. QED  BY <1>2, <1>3, <2>1
<1>. QED  BY <1>4, <1>5 DEF Stands

\* What follows stands behind.
LEMMA StandsBehind ==
  ASSUME NEW P, NEW x \in Seq(P), NEW y \in Seq(P), NEW t, t = x \o y,
         NEW k \in Seq(P), NEW a \in Nat, Stands(y, a, k), NEW b, b = Len(x) + a
  PROVE  Stands(t, b, k)
<1>1. Joint(P, x, y, t)
  BY JoinIs
<1>. PICK n \in Nat : n = Len(k)
  OBVIOUS
<1>. PICK m \in Nat : m = Len(x)
  OBVIOUS
<1>. PICK j \in Nat : j = Len(y)
  OBVIOUS
<1>2. Len(t) = m + j /\ \A i \in 1 .. j : t[m + i] = y[i]
  BY <1>1 DEF Joint
<1>3. a + n <= j /\ \A i \in 1 .. n : y[a + i] = k[i]
  BY DEF Stands
<1>4. b + n <= Len(t)
  BY <1>2, <1>3
<1>5. ASSUME NEW i \in 1 .. n PROVE t[b + i] = k[i]
  <2>1. a + i \in 1 .. j /\ b + i = m + (a + i)
    BY <1>3
  <2>2. t[m + (a + i)] = y[a + i] /\ y[a + i] = k[i]
    BY <1>2, <1>3, <2>1
  <2>. QED  BY <2>1, <2>2
<1>. QED  BY <1>4, <1>5 DEF Stands

\* A text stands at its own beginning.
LEMMA StandsItself ==
  ASSUME NEW P, NEW k \in Seq(P)
  PROVE  Stands(k, 0, k)
BY DEF Stands

\* The documents of a line are one behind the other, the first in front.
LEMMA BodyIs ==
  ASSUME NEW l, Line(l)
  PROVE  /\ Body(l) \in Seq(DocPieces(l))
         /\ l.documents # << >> => Stands(Body(l), 0, Json(l.documents[1]))
<1>. PICK D : D = DocPieces(l)
  OBVIOUS
<1>. PICK docs : docs = l.documents
  OBVIOUS
<1>1. docs \in Seq(ToSet(docs))
  BY LinesAssumption DEF Line
<1>. PICK m \in Nat : m = Len(docs)
  BY <1>1
<1>2. DOMAIN docs = 1 .. m
  BY <1>1
<1>. DEFINE s == [i \in 1 .. m |-> Json(docs[i])]
<1>3. Body(l) = FlattenSeq(s)
  BY <1>2 DEF Body
<1>4. ASSUME NEW i \in 1 .. m PROVE Json(docs[i]) \in Seq(D)
  <2>. PICK d : d = docs[i]
    OBVIOUS
  <2>1. d \in ToSet(docs)
    BY <1>2 DEF ToSet
  <2>. QED  BY <2>1, DocIs
<1>5. /\ s \in [1 .. m -> Seq(D)] /\ \A i \in 1 .. m : s[i] = Json(docs[i]) /\ s[i] \in Seq(D)
  BY <1>4
<1>6. s \in Seq(Seq(D)) /\ Len(s) = m
  BY <1>5
<1>. HIDE DEF s
<1>. PICK f \in [0 .. m -> Seq(D)] : Joins(f, s) /\ FlattenSeq(s) = f[m]
  BY <1>6, FlattenIs
<1>7. f[m] \in Seq(D)
  BY SMT
<1>8. ASSUME docs # << >> PROVE Stands(f[m], 0, Json(docs[1]))
  <2>1. m # 0
    BY <1>1, <1>8, EmptySeq
  <2>. PICK j \in Seq(D) : j = Json(docs[1])
    BY <1>4, <2>1
  <2>. DEFINE T == {n \in 0 .. m : n = 0 \/ Stands(f[n], 0, j)}
  <2>2. 0 \in T /\ T \in SUBSET (0 .. m)
    OBVIOUS
  <2>3. ASSUME NEW n \in T, n # m PROVE n + 1 \in T
    <3>1. n \in 0 .. m /\ n + 1 \in 0 .. m /\ n + 1 \in 1 .. m
      BY <2>3
    <3>. PICK k \in 1 .. m : k = n + 1
      BY <3>1
    <3>2. f[k] = f[k - 1] \o s[k]
      BY <1>6 DEF Joins
    <3>. PICK x \in Seq(D) : x = f[n]
      BY <3>1
    <3>. PICK y \in Seq(D) : y = s[k]
      BY <1>5
    <3>. PICK z : z = f[k]
      OBVIOUS
    <3>3. z = x \o y
      <4>1. k - 1 = n
        BY <3>1
      <4>. QED  BY <3>2, <4>1
    <3>4. Stands(z, 0, j)
      <4>1. CASE n = 0
        <5>1. x = << >>
          BY <4>1 DEF Joins
        <5>2. y = j
          <6>1. k = 1
            BY <4>1
          <6>. QED  BY <1>5, <6>1
        <5>3. << >> \o j = j
          BY ConcatEmptySeq
        <5>4. z = j
          BY <3>3, <5>1, <5>2, <5>3
        <5>. QED  BY <5>4, StandsItself
      <4>2. CASE n # 0
        <5>1. Stands(x, 0, j)
          BY <2>3, <4>2
        <5>. QED  BY <3>3, <5>1, StandsMore
      <4>. QED  BY <4>1, <4>2
    <3>. QED  BY <3>1, <3>4
  <2>4. T = 0 .. m
    <3>. HIDE DEF T
    <3>. QED  BY <2>2, <2>3, Climb
  <2>5. m \in 0 .. m
    OBVIOUS
  <2>6. m \in T
    BY <2>4, <2>5
  <2>. QED  BY <2>1, <2>6
<1>. QED  BY <1>3, <1>7, <1>8

\* A field as it is without its colour.
CleanField(key, names, provider) ==
  IF names = << >> THEN << >> ELSE (<<"space", key>> \o names[1]) \o provider

\* That is what strip_ansi makes of it.
LEMMA FieldStrips ==
  ASSUME NEW P, NEW key \in P, NEW names, NEW provider \in Seq(P), "ESC" \notin ToSet(provider),
         {"space", "ESC", "[", "m"} \subseteq P, key # "ESC",
         names # << >> => names[1] \in Seq(P) /\ "ESC" \notin ToSet(names[1])
  PROVE  /\ Field(key, names, provider) \in Seq(P)
         /\ CleanField(key, names, provider) \in Seq(P)
         /\ StripsTo(P, Field(key, names, provider), CleanField(key, names, provider))
<1>0. ASSUME NEW s \in Seq(P), "ESC" \notin ToSet(s) PROVE StripsTo(P, s, s)
  <2>1. ASSUME NEW i \in 1 .. Len(s) PROVE s[i] # "ESC"
    <3>1. s[i] \in ToSet(s)
      BY DEF ToSet
    <3>. QED  BY <1>0, <3>1
  <2>. QED  BY <2>1, StripsPlain
<1>1. CASE names = << >>
  <2>1. Field(key, names, provider) = << >> /\ CleanField(key, names, provider) = << >>
    BY <1>1 DEF Field, CleanField
  <2>2. << >> \in Seq(P) /\ ToSet(<< >>) = {}
    BY DEF ToSet
  <2>3. StripsTo(P, << >>, << >>)
    BY <1>0, <2>2
  <2>. QED  BY <2>1, <2>2, <2>3
<1>2. CASE names # << >>
  <2>. PICK n \in Seq(P) : n = names[1] /\ "ESC" \notin ToSet(n)
    BY <1>2
  <2>. PICK x : x = <<"space", key>>
    OBVIOUS
  <2>. PICK c : c = <<"ESC", "[", "m">>
    OBVIOUS
  <2>. PICK y : y = <<"space", key, "ESC", "[", "m">>
    OBVIOUS
  <2>1. x \in Seq(P) /\ c \in Seq(P)
    OBVIOUS
  <2>2. y \in Seq(P)
    BY FiveIs
  <2>3. y = x \o c
    OBVIOUS
  <2>4. StripsTo(P, x, x)
    <3>1. ToSet(x) = {"space", key}
      BY DEF ToSet
    <3>. QED  BY <1>0, <2>1, <3>1
  <2>5. StripsTo(P, c, << >>)
    BY StripsColour
  <2>6. x = x \o << >>
    BY <2>1
  <2>7. StripsTo(P, y, x)
    <3>1. BothStrip(P, x, x, c, << >>)
      BY <2>1, <2>4, <2>5, StripsJoin
    <3>. QED  BY <2>3, <2>6, <3>1 DEF BothStrip
  <2>. PICK yn : yn = y \o n
    OBVIOUS
  <2>. PICK xn : xn = x \o n
    OBVIOUS
  <2>8. yn \in Seq(P) /\ xn \in Seq(P)
    BY <2>1, <2>2
  <2>9. StripsTo(P, n, n)
    BY <1>0
  <2>10. StripsTo(P, yn, xn)
    <3>1. BothStrip(P, y, x, n, n)
      BY <2>2, <2>7, <2>9, StripsJoin
    <3>. QED  BY <3>1 DEF BothStrip
  <2>. PICK f : f = yn \o provider
    OBVIOUS
  <2>. PICK g : g = xn \o provider
    OBVIOUS
  <2>11. f \in Seq(P) /\ g \in Seq(P)
    BY <2>8
  <2>12. StripsTo(P, provider, provider)
    BY <1>0
  <2>13. StripsTo(P, f, g)
    <3>1. BothStrip(P, yn, xn, provider, provider)
      BY <2>8, <2>10, <2>12, StripsJoin
    <3>. QED  BY <3>1 DEF BothStrip
  <2>14. Field(key, names, provider) = f /\ CleanField(key, names, provider) = g
    BY <1>2 DEF Field, CleanField
  <2>. QED  BY <2>11, <2>13, <2>14
<1>. QED  BY <1>1, <1>2

\* What the whole line is made of.
Names(l)       == {l.names.middleware, l.names.router, l.names.entryPoint}
NamePieces(l)  == (UNION {ToSet(n[1]) : n \in Names(l) \ {<< >>}}) \ Special
FieldPieces(l) == NamePieces(l) \cup {"middlewareName=", "routerName=", "entryPointName="}
                  \cup {"space", "ESC", "[", "m", "@", "word"}
LinePieces(l)  == ToSet(l.before) \cup DocPieces(l) \cup FieldPieces(l)

\* The provider of a name.
Provider == <<"@", "word">>

\* The fields without their colours.
Clean(names) == (CleanField("entryPointName=", names.entryPoint, << >>)
                 \o CleanField("middlewareName=", names.middleware, Provider))
                \o CleanField("routerName=", names.router, Provider)

\* A name is a text of these pieces, without a mark.
LEMMA NameIs ==
  ASSUME NEW l, Line(l), NEW n \in Names(l), n # << >>
  PROVE  n = <<n[1]>> /\ n[1] # << >> /\ n[1] \in Seq(NamePieces(l))
<1>1. n = <<n[1]>> /\ n[1] # << >> /\ n[1] \in Seq(ToSet(n[1]) \ Special)
  BY LinesAssumption DEF Line, Names
<1>. PICK E : E = ToSet(n[1]) \ Special
  OBVIOUS
<1>2. ASSUME NEW p \in E PROVE p \in NamePieces(l)
  <2>1. n \in Names(l) \ {<< >>}
    OBVIOUS
  <2>2. ToSet(n[1]) \in {ToSet(k[1]) : k \in Names(l) \ {<< >>}}
    BY <2>1
  <2>3. p \in UNION {ToSet(k[1]) : k \in Names(l) \ {<< >>}}
    BY <1>2, <2>2
  <2>4. p \notin Special
    BY <1>2
  <2>. QED  BY <2>3, <2>4 DEF NamePieces
<1>3. n[1] \in Seq(E)
  BY <1>1
<1>4. n[1] \in Seq(NamePieces(l))
  BY <1>2, <1>3
<1>. QED  BY <1>1, <1>4

\* strip_ansi of the fields.
LEMMA FieldsStrip ==
  ASSUME NEW l, Line(l)
  PROVE  /\ Fields(l.names) \in Seq(LinePieces(l)) /\ Clean(l.names) \in Seq(LinePieces(l))
         /\ StripsTo(LinePieces(l), Fields(l.names), Clean(l.names))
<1>. PICK P : P = LinePieces(l)
  OBVIOUS
<1>1. /\ {"space", "ESC", "[", "m", "@", "word"} \subseteq P /\ NamePieces(l) \subseteq P
      /\ {"middlewareName=", "routerName=", "entryPointName="} \subseteq P
  BY DEF LinePieces, FieldPieces
<1>2. ASSUME NEW n \in Names(l), n # << >> PROVE n[1] \in Seq(P) /\ "ESC" \notin ToSet(n[1])
  <2>. PICK t : t = n[1]
    OBVIOUS
  <2>1. t \in Seq(NamePieces(l))
    BY <1>2, NameIs
  <2>0. "ESC" \in Special
    BY DEF Special
  <2>2. "ESC" \notin NamePieces(l)
    BY <2>0 DEF NamePieces
  <2>3. ToSet(t) \subseteq NamePieces(l)
    BY <2>1 DEF ToSet
  <2>4. t \in Seq(P)
    BY <1>1, <2>1
  <2>. QED  BY <2>2, <2>3, <2>4
<1>. PICK pr : pr = Provider
  OBVIOUS
<1>3. pr \in Seq(P) /\ "ESC" \notin ToSet(pr)
  <2>1. pr \in Seq(P)
    BY <1>1 DEF Provider
  <2>2. ToSet(pr) = {"@", "word"}
    BY DEF Provider, ToSet
  <2>. QED  BY <2>1, <2>2
<1>. PICK e : e = l.names.entryPoint
  OBVIOUS
<1>. PICK m : m = l.names.middleware
  OBVIOUS
<1>. PICK r : r = l.names.router
  OBVIOUS
<1>4. e \in Names(l) /\ m \in Names(l) /\ r \in Names(l)
  BY DEF Names
<1>. PICK fe : fe = Field("entryPointName=", e, << >>)
  OBVIOUS
<1>. PICK ce : ce = CleanField("entryPointName=", e, << >>)
  OBVIOUS
<1>. PICK fm : fm = Field("middlewareName=", m, pr)
  OBVIOUS
<1>. PICK cm : cm = CleanField("middlewareName=", m, pr)
  OBVIOUS
<1>. PICK fr : fr = Field("routerName=", r, pr)
  OBVIOUS
<1>. PICK cr : cr = CleanField("routerName=", r, pr)
  OBVIOUS
<1>5. fe \in Seq(P) /\ ce \in Seq(P) /\ StripsTo(P, fe, ce)
  <2>1. << >> \in Seq(P) /\ "ESC" \notin ToSet(<< >>)
    BY DEF ToSet
  <2>2. e # << >> => e[1] \in Seq(P) /\ "ESC" \notin ToSet(e[1])
    BY <1>2, <1>4
  <2>. QED  BY <1>1, <2>1, <2>2, FieldStrips
<1>6. fm \in Seq(P) /\ cm \in Seq(P) /\ StripsTo(P, fm, cm)
  <2>1. m # << >> => m[1] \in Seq(P) /\ "ESC" \notin ToSet(m[1])
    BY <1>2, <1>4
  <2>. QED  BY <1>1, <1>3, <2>1, FieldStrips
<1>7. fr \in Seq(P) /\ cr \in Seq(P) /\ StripsTo(P, fr, cr)
  <2>1. r # << >> => r[1] \in Seq(P) /\ "ESC" \notin ToSet(r[1])
    BY <1>2, <1>4
  <2>. QED  BY <1>1, <1>3, <2>1, FieldStrips
<1>. PICK f : f = fe \o fm
  OBVIOUS
<1>. PICK c : c = ce \o cm
  OBVIOUS
<1>8. f \in Seq(P) /\ c \in Seq(P)
  BY <1>5, <1>6
<1>9. StripsTo(P, f, c)
  <2>1. BothStrip(P, fe, ce, fm, cm)
    BY <1>5, <1>6, StripsJoin
  <2>. QED  BY <2>1 DEF BothStrip
<1>. PICK g : g = f \o fr
  OBVIOUS
<1>. PICK d : d = c \o cr
  OBVIOUS
<1>10. g \in Seq(P) /\ d \in Seq(P)
  BY <1>7, <1>8
<1>11. StripsTo(P, g, d)
  <2>1. BothStrip(P, f, c, fr, cr)
    BY <1>7, <1>8, <1>9, StripsJoin
  <2>. QED  BY <2>1 DEF BothStrip
<1>12. Fields(l.names) = g /\ Clean(l.names) = d
  BY DEF Fields, Clean, Provider
<1>. QED  BY <1>10, <1>11, <1>12

\* strip_ansi of a line: what it leaves of the text before, the documents, the fields.
LEMMA LineStrips ==
  ASSUME NEW l, Line(l)
  PROVE  \E o \in Seq(ToSet(l.before)) :
           strip_ansi(Written(l).text) = (o \o Body(l)) \o Clean(l.names)
<1>. PICK P : P = LinePieces(l)
  OBVIOUS
<1>. PICK b : b = l.before
  OBVIOUS
<1>1. ToSet(b) \subseteq P /\ DocPieces(l) \subseteq P
  BY DEF LinePieces
<1>2. b \in Seq(ToSet(b)) /\ Closed(b)
  <2>1. b \in Seq(ToSet(b))
    BY LinesAssumption DEF Line
  <2>2. DOMAIN b = 1 .. Len(b)
    BY <2>1
  <2>3. \A i \in DOMAIN b : b[i] = "ESC" => \E j \in DOMAIN b : i < j /\ b[j] \in Letters
    BY LinesAssumption DEF Line
  <2>. QED  BY <2>1, <2>2, <2>3 DEF Closed
<1>. PICK o \in Seq(ToSet(b)) : StripsTo(ToSet(b), b, o)
  BY <1>2, StripsClosed
<1>3. StripsTo(P, b, o)
  <2>1. Stripping(ToSet(b)) \subseteq Stripping(P)
    <3>1. Seq(ToSet(b)) \subseteq Seq(P)
      BY <1>1
    <3>. QED  BY <3>1 DEF Stripping
  <2>. PICK m \in Nat : m = Len(b)
    BY <1>2
  <2>. PICK f \in [0 .. m -> Stripping(ToSet(b))] : Strips(f, b) /\ f[m] = [out |-> o, inside |-> FALSE]
    BY DEF StripsTo
  <2>2. f \in [0 .. m -> Stripping(P)]
    BY <2>1
  <2>. QED  BY <2>2 DEF StripsTo
<1>4. b \in Seq(P) /\ o \in Seq(P)
  BY <1>1, <1>2
<1>. PICK y : y = Body(l)
  OBVIOUS
<1>5. y \in Seq(DocPieces(l))
  BY BodyIs
<1>6. y \in Seq(P)
  BY <1>1, <1>5
<1>7. StripsTo(P, y, y)
  <2>1. "ESC" \notin DocPieces(l)
    <3>1. "ESC" \notin Ids(l)
      <4>1. \A d \in ToSet(l.documents) : d.id \notin Special
        BY LinesAssumption DEF Line
      <4>2. "ESC" \in Special
        BY DEF Special
      <4>. QED  BY <4>1, <4>2 DEF Ids
    <3>2. "ESC" \notin DetailPieces(l)
      BY DEF DetailPieces
    <3>3. "ESC" \notin Fixed
      BY DEF Fixed
    <3>. QED  BY <3>1, <3>2, <3>3 DEF DocPieces
  <2>2. ASSUME NEW i \in 1 .. Len(y) PROVE y[i] # "ESC"
    <3>1. y[i] \in DocPieces(l)
      BY <1>5
    <3>. QED  BY <2>1, <3>1
  <2>. QED  BY <1>6, <2>2, StripsPlain
<1>. PICK by : by = b \o y
  OBVIOUS
<1>. PICK oy : oy = o \o y
  OBVIOUS
<1>8. by \in Seq(P) /\ oy \in Seq(P)
  BY <1>4, <1>6
<1>9. StripsTo(P, by, oy)
  <2>1. BothStrip(P, b, o, y, y)
    BY <1>3, <1>4, <1>6, <1>7, StripsJoin
  <2>. QED  BY <2>1 DEF BothStrip
<1>. PICK f \in Seq(P) : f = Fields(l.names)
  BY FieldsStrip
<1>. PICK c \in Seq(P) : c = Clean(l.names)
  BY FieldsStrip
<1>10. StripsTo(P, f, c)
  BY FieldsStrip
<1>. PICK t : t = by \o f
  OBVIOUS
<1>. PICK w : w = oy \o c
  OBVIOUS
<1>11. StripsTo(P, t, w)
  <2>1. BothStrip(P, by, oy, f, c)
    BY <1>8, <1>9, <1>10, StripsJoin
  <2>. QED  BY <2>1 DEF BothStrip
<1>12. t \in Seq(P)
  BY <1>8
<1>13. strip_ansi(t) = w
  BY <1>11, <1>12, StripsOneWay
<1>14. Written(l).text = t
  BY DEF Written, Body
<1>. QED  BY <1>13, <1>14

-----------------------------------------------------------------------------
(* parse_line on the lines.                                                *)

\* What appending keeps.
GoesOn(k, e) == /\ Len(Append(k, e)) = Len(k) + 1
                /\ \A i \in 1 .. Len(k) : Append(k, e)[i] = k[i]

\* That it does.
LEMMA AppendGoesOn ==
  ASSUME NEW P, NEW k \in Seq(P), NEW e \in P
  PROVE  GoesOn(k, e)
<1>1. Len(Append(k, e)) = Len(k) + 1
  OBVIOUS
<1>2. ASSUME NEW i \in 1 .. Len(k) PROVE Append(k, e)[i] = k[i]
  OBVIOUS
<1>. QED  BY <1>1, <1>2 DEF GoesOn

\* So what something was appended to can be told from what that gave.
LEMMA AppendTells ==
  ASSUME NEW P, NEW k \in Seq(P), NEW m \in Seq(P), NEW e \in P, NEW j,
         j = Append(k, e), j = Append(m, e)
  PROVE  k = m
<1>1. GoesOn(k, e) /\ GoesOn(m, e)
  BY AppendGoesOn
<1>2. Len(j) = Len(k) + 1 /\ \A i \in 1 .. Len(k) : j[i] = k[i]
  BY <1>1 DEF GoesOn
<1>3. Len(j) = Len(m) + 1 /\ \A i \in 1 .. Len(m) : j[i] = m[i]
  BY <1>1 DEF GoesOn
<1>4. Len(m) = Len(k)
  <2>. PICK n \in Nat : n = Len(k)
    OBVIOUS
  <2>. PICK q \in Nat : q = Len(m)
    OBVIOUS
  <2>. PICK r : r = Len(j)
    OBVIOUS
  <2>1. r = n + 1 /\ r = q + 1
    BY <1>2, <1>3
  <2>. QED  BY <2>1
<1>5. \A i \in 1 .. Len(k) : k[i] = m[i]
  BY <1>2, <1>3, <1>4
<1>. QED  BY <1>4, <1>5, SeqEqual

\* The documents of a line are different JSON.
LEMMA JsonTells ==
  ASSUME NEW l, Line(l), NEW d \in ToSet(l.documents), NEW e \in ToSet(l.documents),
         Json(d) = Json(e)
  PROVE  d = e
<1>. PICK P : P = DocPieces(l)
  OBVIOUS
<1>1. /\ Fixed \subseteq P /\ d.id \in P /\ d.id \notin Special /\ d.detail \in Seq(P)
      /\ e.id \in P /\ e.id \notin Special /\ e.detail \in Seq(P)
  BY DocIs
<1>. PICK j : j = Json(d)
  OBVIOUS
<1>02. \E k \in Seq(P) : Json(d) = Append(k, Right) /\ Len(k) > 0 /\ k[Len(k)] = d.id
  BY ONLY <1>1, JsonIs
<1>03. \E k \in Seq(P) : Json(e) = Append(k, Right) /\ Len(k) > 0 /\ k[Len(k)] = e.id
  BY ONLY <1>1, JsonIs
<1>. PICK k \in Seq(P) : j = Append(k, Right) /\ Len(k) > 0 /\ k[Len(k)] = d.id
  BY <1>02
<1>. PICK m \in Seq(P) : j = Append(m, Right) /\ Len(m) > 0 /\ m[Len(m)] = e.id
  BY <1>03
<1>2. k = m
  <2>1. Right \in P
    BY <1>1 DEF Right, Fixed
  <2>. QED  BY <2>1, AppendTells
<1>3. d.id = e.id
  BY <1>2
<1>. QED  BY <1>3, LinesAssumption DEF Line

\* Of the line's documents serde_json reads the one it is.
LEMMA ReadsIt ==
  ASSUME NEW l, Line(l), NEW d \in ToSet(l.documents)
  PROVE  JsonParse(Json(d), ToSet(l.documents)) = <<d>>
<1>. PICK documents : documents = ToSet(l.documents)
  OBVIOUS
<1>. PICK s : s = Json(d)
  OBVIOUS
<1>. PICK read : read = {doc \in documents : Json(doc) = s}
  OBVIOUS
<1>1. read = {d}
  BY JsonTells
<1>2. JsonParse(s, documents) = IF read = {} THEN << >> ELSE <<CHOOSE doc \in read : TRUE>>
  BY DEF JsonParse
<1>3. (CHOOSE doc \in read : TRUE) = d
  BY <1>1
<1>. QED  BY <1>1, <1>2, <1>3

\* parse_line, from what it is made of.
ParsesTo(x, stripped, object, doc) ==
  parse_line(x) =
    IF \/ ~x.utf8 \/ ~Contains(x.text, Left) \/ object = << >> \/ doc = << >>
       \/ ~IsPurpleWolf(doc[1])
    THEN << >>
    ELSE <<[event |-> doc[1], source |-> extract_traefik_enrichment(stripped)]>>

\* parse_line, step by step.
LEMMA ParseLineIs ==
  ASSUME NEW x, NEW stripped, stripped = strip_ansi(x.text),
         NEW object, object = find_json_object(stripped),
         NEW doc, doc = JsonParse(object[1], x.documents)
  PROVE  ParsesTo(x, stripped, object, doc)
BY Zenon DEF ParsesTo, parse_line, Left

\* What a tidy line is.
LEMMA TidyIs ==
  ASSUME NEW l, Tidy(l)
  PROVE  l.utf8 /\ l.documents # << >> /\ ~Contains(l.before, Left)
BY Zenon DEF Tidy, Left

\* The pieces of a text.
LEMMA ContainsIs ==
  ASSUME NEW P, NEW s \in Seq(P), NEW e
  PROVE  Contains(s, e) <=> e \in ToSet(s)
BY DEF Contains, ToSet

\* The first piece of k is in t behind the first a.
Begins(t, a, k) == a + 1 \in 1 .. Len(t) /\ t[a + 1] = k[1]

\* Where a text stands its first piece is.
LEMMA StandsAt ==
  ASSUME NEW P, NEW t \in Seq(P), NEW k \in Seq(P), NEW a \in Nat, Stands(t, a, k), Len(k) > 0
  PROVE  Begins(t, a, k)
<1>. PICK n \in Nat : n = Len(k)
  OBVIOUS
<1>. PICK m \in Nat : m = Len(t)
  OBVIOUS
<1>1. a + n <= m /\ \A i \in 1 .. n : t[a + i] = k[i]
  BY DEF Stands
<1>2. 1 \in 1 .. n
  OBVIOUS
<1>3. t[a + 1] = k[1]
  BY <1>1, <1>2
<1>4. a + 1 \in 1 .. m
  BY <1>1, <1>2
<1>. QED  BY <1>3, <1>4 DEF Begins

\* It has a first document.
LEMMA FirstDocument ==
  ASSUME NEW l, Line(l), Tidy(l)
  PROVE  l.documents[1] \in ToSet(l.documents)
<1>. PICK D : D = ToSet(l.documents)
  OBVIOUS
<1>. PICK docs \in Seq(D) : docs = l.documents
  BY LinesAssumption DEF Line
<1>1. Len(docs) # 0
  BY TidyIs, EmptySeq
<1>2. 1 \in 1 .. Len(docs)
  BY <1>1
<1>. QED  BY <1>2 DEF ToSet

\* What a line is parsed to: with the names around the first document.
Taken(l) == [event |-> l.documents[1],
             source |-> extract_traefik_enrichment(strip_ansi(Written(l).text))]

\* In a tidy line the first object is the line's first document.
LEMMA TidyParses ==
  ASSUME NEW l, Line(l), Tidy(l)
  PROVE  parse_line(Written(l)) = IF IsPurpleWolf(l.documents[1]) THEN <<Taken(l)>> ELSE << >>
<1>. PICK P : P = LinePieces(l)
  OBVIOUS
<1>. PICK d : d = l.documents[1]
  OBVIOUS
<1>1. l.utf8 /\ l.documents # << >> /\ ~Contains(l.before, Left)
  BY TidyIs
<1>2. d \in ToSet(l.documents)
  BY FirstDocument
<1>3. ToSet(l.before) \subseteq P /\ DocPieces(l) \subseteq P
  BY DEF LinePieces
<1>. PICK b : b = l.before
  OBVIOUS
<1>03. b \in Seq(P)
  <2>1. b \in Seq(ToSet(b))
    BY LinesAssumption DEF Line
  <2>. QED  BY <1>3, <2>1
<1>. PICK o \in Seq(ToSet(b)) : strip_ansi(Written(l).text) = (o \o Body(l)) \o Clean(l.names)
  BY LineStrips
<1>. PICK y \in Seq(P) : y = Body(l)
  BY <1>3, BodyIs
<1>. PICK f \in Seq(P) : f = Fields(l.names)
  BY FieldsStrip
<1>. PICK c \in Seq(P) : c = Clean(l.names)
  BY FieldsStrip
<1>4. o \in Seq(P)
  BY <1>3, <1>03
<1>. PICK j : j = Json(d)
  OBVIOUS
<1>5. /\ Fixed \subseteq P /\ d.id \in P /\ d.id \notin Special /\ d.detail \in Seq(P)
      /\ j \in Seq(P)
  BY <1>2, <1>3, DocIs
<1>. PICK k \in Seq(P) : /\ j = Append(k, Right) /\ Passes(ScanStart, k, Outer)
                         /\ Len(k) > 0 /\ k[1] = Left
  BY <1>5, JsonIs
<1>6. Stands(y, 0, j)
  BY <1>1, BodyIs
\* The text as it is written has the object's brace.
<1>. PICK by : by = b \o y
  OBVIOUS
<1>. PICK t : t = by \o f
  OBVIOUS
<1>. PICK m \in Nat : m = Len(b)
  BY <1>03
<1>7. by \in Seq(P) /\ t \in Seq(P) /\ Written(l).text = t
  <2>1. by \in Seq(P)
    BY <1>03
  <2>2. t \in Seq(P)
    BY <2>1
  <2>3. Written(l).text = t
    BY DEF Written, Body
  <2>. QED  BY <2>1, <2>2, <2>3
<1>8. Stands(t, m, j)
  <2>1. m = Len(b) + 0
    OBVIOUS
  <2>2. Stands(by, m, j)
    BY <1>03, <1>5, <1>6, <2>1, StandsBehind
  <2>. QED  BY <1>5, <1>7, <2>2, StandsMore
<1>9. Contains(t, Left)
  <2>. PICK e : e = Left
    OBVIOUS
  <2>0. Right \in P
    BY <1>5 DEF Right, Fixed
  <2>1. j[1] = e /\ Len(j) > 0
    BY <2>0
  <2>2. Begins(t, m, j)
    BY <1>5, <1>7, <1>8, <2>1, StandsAt
  <2>3. m + 1 \in 1 .. Len(t) /\ t[m + 1] = e
    BY <2>1, <2>2 DEF Begins
  <2>. QED  BY <2>3 DEF Contains
\* And without its colours the object is the first.
<1>. PICK oy : oy = o \o y
  OBVIOUS
<1>. PICK w : w = oy \o c
  OBVIOUS
<1>. PICK a \in Nat : a = Len(o)
  BY <1>4
<1>10. oy \in Seq(P) /\ w \in Seq(P) /\ strip_ansi(t) = w
  BY <1>4, <1>7
<1>11. Stands(w, a, j)
  <2>1. a = Len(o) + 0
    OBVIOUS
  <2>2. Stands(oy, a, j)
    BY <1>4, <1>5, <1>6, <2>1, StandsBehind
  <2>. QED  BY <1>5, <1>10, <2>2, StandsMore
<1>12. \A i \in 1 .. a : w[i] # Left
  <2>1. Left \notin ToSet(b)
    BY <1>03, <1>1, ContainsIs
  <2>2. ASSUME NEW i \in 1 .. a PROVE w[i] # Left
    <3>1. w[i] = oy[i] /\ oy[i] = o[i]
      BY <1>4, <1>10
    <3>2. o[i] \in ToSet(b)
      OBVIOUS
    <3>. QED  BY <2>1, <3>1, <3>2
  <2>. QED  BY <2>2
<1>. PICK n \in Nat : n = Len(k)
  OBVIOUS
<1>13. find_json_object(w) = <<j>>
  BY ONLY <1>5, <1>10, <1>11, <1>12, k \in Seq(P), a \in Nat, n \in Nat, n = Len(k), n > 0,
          k[1] = Left, Passes(ScanStart, k, Outer), j = Append(k, Right), FindsObject
<1>. PICK x : x = Written(l)
  OBVIOUS
<1>14. x.text = t /\ x.utf8 = l.utf8 /\ x.documents = ToSet(l.documents)
  BY <1>7 DEF Written
<1>. PICK object : object = <<j>>
  OBVIOUS
<1>15. object[1] = j /\ object # << >>
  OBVIOUS
<1>. PICK doc : doc = <<d>>
  OBVIOUS
<1>16. doc = JsonParse(object[1], x.documents)
  BY <1>2, <1>14, <1>15, ReadsIt
<1>17. doc[1] = d /\ doc # << >>
  OBVIOUS
<1>18. w = strip_ansi(x.text) /\ object = find_json_object(w)
  BY <1>10, <1>13, <1>14
<1>19. parse_line(x) =
         IF \/ ~x.utf8 \/ ~Contains(x.text, Left) \/ object = << >> \/ doc = << >>
            \/ ~IsPurpleWolf(doc[1])
         THEN << >> ELSE <<[event |-> doc[1], source |-> extract_traefik_enrichment(w)]>>
  <2>. PICK p : p = parse_line(x)
    OBVIOUS
  <2>1. ParsesTo(x, w, object, doc)
    BY <1>16, <1>18, ParseLineIs
  <2>. QED  BY <2>1 DEF ParsesTo
<1>20. parse_line(x) = IF ~IsPurpleWolf(d) THEN << >>
                       ELSE <<[event |-> d, source |-> extract_traefik_enrichment(w)]>>
  BY <1>1, <1>9, <1>14, <1>15, <1>17, <1>19
<1>21. Taken(l) = [event |-> d, source |-> extract_traefik_enrichment(w)]
  BY <1>14, <1>18 DEF Taken
<1>. QED  BY <1>20, <1>21

-----------------------------------------------------------------------------
(* The names around the event.                                             *)

\* trim_matches leaves a text without quotes as it is.
LEMMA TrimmedIs ==
  ASSUME NEW P, NEW v \in Seq(P), Len(v) > 0, "quote" \notin P
  PROVE  Trimmed(v) = v
<1>. PICK n \in Nat : n = Len(v)
  OBVIOUS
<1>. PICK I : I = {i \in DOMAIN v : v[i] # "quote"}
  OBVIOUS
<1>1. I = 1 .. n
  <2>1. \A i \in 1 .. n : v[i] # "quote"
    OBVIOUS
  <2>. QED  BY <2>1
<1>2. n > 0 /\ 1 \in I /\ n \in I
  BY <1>1
<1>3. Min(I) = 1
  BY <1>1, <1>2 DEF Min
<1>4. Max(I) = n
  BY <1>1, <1>2 DEF Max
<1>5. I # {}
  BY <1>2
<1>6. Trimmed(v) = SubSeq(v, Min(I), Max(I))
  BY <1>5 DEF Trimmed
<1>7. SubSeq(v, 1, n) = v
  OBVIOUS
<1>. QED  BY <1>3, <1>4, <1>6, <1>7

\* i is where x is first.
FirstPlace(t, x, i) == i \in 1 .. Len(t) /\ t[i] = x /\ \A j \in 1 .. Len(t) : j < i => t[j] # x

\* The first place of a piece, once more.
LEMMA FirstAt ==
  ASSUME NEW P, NEW t \in Seq(P), NEW x, NEW i, FirstPlace(t, x, i)
  PROVE  FirstOf(t, x) = i
BY FirstIs DEF FirstPlace

\* What comes before the first space.
UpToSpace(r) == IF FirstOf(r, "space") = 0 THEN r ELSE SubSeq(r, 1, FirstOf(r, "space") - 1)

\* The text behind the place i.
Past(s, i) == SubSeq(s, i + 1, Len(s))

\* find_value, by these.
LEMMA FindValueIs ==
  ASSUME NEW s, NEW key, NEW rest, rest = Past(s, FirstOf(s, key)),
         NEW v, v = Trimmed(UpToSpace(rest))
  PROVE  find_value(s, key) = IF FirstOf(s, key) = 0 \/ v = << >> THEN << >> ELSE <<v>>
BY Zenon DEF find_value, FirstOf, UpToSpace, Past

\* Nothing, or something behind a space.
Spaced(z) == z = << >> \/ z[1] = "space"

\* A text is what comes before the first space, when a space or nothing is behind it.
LEMMA UpToSpaceIs ==
  ASSUME NEW P, NEW V, V \subseteq P, "space" \notin V, NEW v \in Seq(V), NEW z \in Seq(P), Spaced(z),
         NEW r, r = v \o z
  PROVE  UpToSpace(r) = v
<1>. PICK n \in Nat : n = Len(v)
  OBVIOUS
<1>. PICK e : e = "space"
  OBVIOUS
<1>1. v \in Seq(P) /\ r \in Seq(P)
  <2>1. v \in Seq(P)
    OBVIOUS
  <2>. QED  BY <2>1
<1>2. Joint(P, v, z, r)
  BY <1>1, JoinIs
<1>3. \A i \in 1 .. n : r[i] # e
  <2>1. \A i \in 1 .. n : v[i] # e
    OBVIOUS
  <2>. QED  BY <1>2, <2>1 DEF Joint
<1>. PICK m \in Nat : m = Len(z)
  OBVIOUS
<1>4. Len(r) = n + m
  BY <1>2 DEF Joint
<1>5. CASE z = << >>
  <2>1. m = 0 /\ r = v
    BY <1>5, ConcatEmptySeq
  <2>2. \A i \in 1 .. Len(r) : r[i] # e
    BY <1>3, <2>1
  <2>3. FirstOf(r, e) = 0
    BY <1>1, <2>2, FirstIs
  <2>. QED  BY <2>1, <2>3 DEF UpToSpace
<1>6. CASE z # << >>
  <2>1. m # 0 /\ z[1] = e
    BY <1>6, EmptySeq DEF Spaced
  <2>2. 1 \in 1 .. m /\ n + 1 \in 1 .. Len(r)
    BY <1>4, <2>1
  <2>3. r[n + 1] = e
    BY <1>2, <2>1, <2>2 DEF Joint
  <2>. PICK k \in Nat : k = n + 1
    OBVIOUS
  <2>4. k \in 1 .. Len(r) /\ r[k] = e /\ \A j \in 1 .. Len(r) : j < k => r[j] # e
    BY <1>3, <2>2, <2>3
  <2>5. FirstOf(r, e) = k
    BY <1>1, <2>4, FirstIs
  <2>6. k # 0 /\ k - 1 = n
    OBVIOUS
  <2>7. UpToSpace(r) = SubSeq(r, 1, n)
    BY <2>5, <2>6 DEF UpToSpace
  <2>8. Stands(r, 0, v)
    BY <1>2, <1>4 DEF Joint, Stands
  <2>9. CutOut(r, 0, v)
    BY <1>1, <2>8, StandsIs
  <2>10. SubSeq(r, 1, n) = v
    BY <2>9 DEF CutOut
  <2>. QED  BY <2>7, <2>10
<1>. QED  BY <1>5, <1>6

\* What the key has for a value in s.
Finds(s, key, v) == find_value(s, key) = v

\* Where there is no key there is no value.
LEMMA FindsNothing ==
  ASSUME NEW P, NEW s \in Seq(P), NEW key, key \notin P
  PROVE  Finds(s, key, << >>)
<1>1. \A j \in 1 .. Len(s) : s[j] # key
  OBVIOUS
<1>2. FirstOf(s, key) = 0
  BY <1>1, FirstIs
<1>. PICK rest : rest = Past(s, FirstOf(s, key))
  OBVIOUS
<1>. PICK v : v = Trimmed(UpToSpace(rest))
  OBVIOUS
<1>3. find_value(s, key) = IF FirstOf(s, key) = 0 \/ v = << >> THEN << >> ELSE <<v>>
  BY FindValueIs
<1>. QED  BY <1>2, <1>3 DEF Finds

\* The value is the text behind the first key, up to the space behind it.
LEMMA FindsValue ==
  ASSUME NEW P, NEW S, S \subseteq P, NEW x \in Seq(S), NEW key \in P, key \notin S, "space" \in S,
         NEW V, V \subseteq P, "space" \notin V, "quote" \notin V,
         NEW v \in Seq(V), Len(v) > 0, NEW z \in Seq(P), Spaced(z), NEW h, h = x \o <<"space", key>>,
         NEW r, r = v \o z, NEW s, s = h \o r
  PROVE  Finds(s, key, <<v>>)
<1>. PICK g : g = <<"space", key>>
  OBVIOUS
<1>1. g \in Seq(P) /\ Len(g) = 2 /\ g[1] = "space" /\ g[2] = key
  OBVIOUS
<1>2. x \in Seq(P) /\ v \in Seq(P)
  <2>1. x \in Seq(P)
    OBVIOUS
  <2>2. v \in Seq(P)
    OBVIOUS
  <2>. QED  BY <2>1, <2>2
<1>3. Joint(P, x, g, h)
  BY <1>1, <1>2, JoinIs
<1>4. Joint(P, v, z, r)
  BY <1>2, JoinIs
<1>5. h \in Seq(P) /\ r \in Seq(P)
  BY <1>3, <1>4 DEF Joint
<1>6. Joint(P, h, r, s)
  BY <1>5, JoinIs
<1>7. s \in Seq(P)
  BY <1>6 DEF Joint
<1>. PICK n \in Nat : n = Len(x)
  OBVIOUS
<1>. PICK i \in Nat : i = n + 2
  OBVIOUS
<1>8. Len(h) = i
  BY <1>1, <1>3 DEF Joint
<1>9. h[i] = key /\ i \in 1 .. i
  <2>1. 2 \in 1 .. 2 /\ i \in 1 .. i
    OBVIOUS
  <2>2. h[n + 2] = g[2]
    BY <1>1, <1>3, <2>1 DEF Joint
  <2>. QED  BY <1>1, <2>1, <2>2
<1>10. ASSUME NEW j \in 1 .. i, j < i PROVE h[j] # key
  <2>1. CASE j \in 1 .. n
    <3>1. h[j] = x[j]
      BY <1>3, <2>1 DEF Joint
    <3>2. x[j] \in S
      BY <2>1
    <3>. QED  BY <3>1, <3>2
  <2>2. CASE j = n + 1
    <3>1. 1 \in 1 .. 2
      OBVIOUS
    <3>2. h[n + 1] = g[1]
      BY <1>1, <1>3, <3>1 DEF Joint
    <3>. QED  BY <1>1, <2>2, <3>2
  <2>3. j \in 1 .. n \/ j = n + 1
    BY <1>10
  <2>. QED  BY <2>1, <2>2, <2>3
<1>. PICK m \in Nat : m = Len(r)
  BY <1>5
<1>11. Len(s) = i + m
  BY <1>6, <1>8 DEF Joint
<1>12. \A j \in 1 .. i : s[j] = h[j]
  BY <1>6, <1>8 DEF Joint
<1>13. FirstOf(s, key) = i
  <2>1. i \in 1 .. Len(s)
    BY <1>9, <1>11
  <2>2. s[i] = key
    BY <1>9, <1>12
  <2>3. \A j \in 1 .. Len(s) : j < i => s[j] # key
    <3>. SUFFICES ASSUME NEW j \in 1 .. Len(s), j < i PROVE s[j] # key
      OBVIOUS
    <3>1. j \in 1 .. i
      BY <1>11
    <3>. QED  BY <1>10, <1>12, <3>1
  <2>4. FirstPlace(s, key, i)
    BY <2>1, <2>2, <2>3 DEF FirstPlace
  <2>. QED  BY <1>7, <2>4, FirstAt
<1>14. Past(s, i) = r
  <2>1. Stands(s, i, r)
    BY <1>6, <1>8, <1>11 DEF Joint, Stands
  <2>2. CutOut(s, i, r)
    BY <1>5, <1>7, <2>1, StandsIs
  <2>. QED  BY <1>11, <2>2 DEF CutOut, Past
<1>15. v = Trimmed(UpToSpace(r))
  <2>1. UpToSpace(r) = v
    BY UpToSpaceIs
  <2>2. Trimmed(v) = v
    BY TrimmedIs
  <2>. QED  BY <2>1, <2>2
<1>16. FirstOf(s, key) # 0 /\ v # << >>
  BY <1>13
<1>17. r = Past(s, FirstOf(s, key))
  BY <1>13, <1>14
<1>18. find_value(s, key) = IF FirstOf(s, key) = 0 \/ v = << >> THEN << >> ELSE <<v>>
  BY ONLY <1>15, <1>17, FindValueIs
<1>. QED  BY <1>16, <1>18 DEF Finds

\* What a line is made of where it holds no key.
PlainPieces(l) == ToSet(l.before) \cup DocPieces(l) \cup NamePieces(l) \cup {"space", "@", "word"}

\* Neither the text before the fields nor a name holds a key.
Keyless(l) ==
  (ToSet(l.before) \cup UNION {ToSet(d.detail) : d \in ToSet(l.documents)}) \cap Keys = {}

\* Nor does anything else.
LEMMA KeylessIs ==
  ASSUME NEW l, Line(l), Keyless(l)
  PROVE  PlainPieces(l) \cap Keys = {}
<1>. SUFFICES ASSUME NEW p \in PlainPieces(l), p \in Keys PROVE FALSE
  OBVIOUS
<1>1. p \in Special
  BY DEF Special
<1>2. p \notin ToSet(l.before)
  BY DEF Keyless
<1>3. p \notin DetailPieces(l)
  <2>1. ASSUME p \in DetailPieces(l) PROVE FALSE
    <3>. PICK d \in ToSet(l.documents) : p \in ToSet(d.detail) \ {"ESC"}
      BY <2>1 DEF DetailPieces
    <3>1. ToSet(d.detail) \in {ToSet(e.detail) : e \in ToSet(l.documents)}
      OBVIOUS
    <3>2. p \in UNION {ToSet(e.detail) : e \in ToSet(l.documents)}
      BY <3>1
    <3>. QED  BY <3>2 DEF Keyless
  <2>. QED  BY <2>1
<1>4. p \notin Ids(l)
  <2>1. \A d \in ToSet(l.documents) : d.id \notin Special
    BY LinesAssumption DEF Line
  <2>. QED  BY <1>1, <2>1 DEF Ids
<1>5. p \notin Fixed
  BY DEF Fixed, Keys
<1>6. p \notin NamePieces(l)
  BY <1>1 DEF NamePieces
<1>7. p \notin {"space", "@", "word"}
  BY DEF Keys
<1>. QED  BY <1>2, <1>3, <1>4, <1>5, <1>6, <1>7 DEF PlainPieces, DocPieces

\* Three texts, in either grouping.
Regrouped(a, b, c) == (a \o b) \o c = a \o (b \o c)

\* How three texts are put together does not matter.
LEMMA TheyRegroup ==
  ASSUME NEW P, NEW a \in Seq(P), NEW b \in Seq(P), NEW c \in Seq(P)
  PROVE  Regrouped(a, b, c)
BY ConcatAssociative DEF Regrouped

\* A name's field: what its key is in front of.
LEMMA FieldFinds ==
  ASSUME NEW l, Line(l), NEW n \in Names(l), NEW S, PlainPieces(l) \subseteq S,
         NEW P, S \subseteq P, NEW key \in P, key \notin S,
         NEW x \in Seq(S), NEW z \in Seq(S), Spaced(z), NEW provider \in Seq({"@", "word"}),
         n # << >>, NEW v, v = n[1] \o provider,
         NEW w, w = (x \o CleanField(key, n, provider)) \o z
  PROVE  Finds(w, key, <<v>>)
<1>. PICK V : V = NamePieces(l) \cup {"@", "word"}
  OBVIOUS
<1>1. V \subseteq P /\ "space" \in S /\ S \subseteq P
  BY DEF PlainPieces
<1>2. "space" \notin V /\ "quote" \notin V
  <2>1. "space" \in Special /\ "quote" \in Special
    BY DEF Special
  <2>. QED  BY <2>1 DEF NamePieces
<1>. PICK t : t = n[1]
  OBVIOUS
<1>3. t \in Seq(V) /\ t # << >>
  <2>1. t \in Seq(NamePieces(l)) /\ t # << >>
    BY NameIs
  <2>. QED  BY <2>1
<1>4. provider \in Seq(V)
  OBVIOUS
<1>5. v \in Seq(V) /\ Len(v) > 0
  <2>1. Joint(V, t, provider, v)
    BY <1>3, <1>4, JoinIs
  <2>2. v \in Seq(V) /\ Len(v) = Len(t) + Len(provider)
    BY <2>1 DEF Joint
  <2>3. Len(t) # 0
    BY <1>3, EmptySeq
  <2>. PICK a \in Nat : a = Len(t)
    BY <1>3
  <2>. PICK b \in Nat : b = Len(provider)
    OBVIOUS
  <2>. QED  BY <2>2, <2>3
<1>. PICK g : g = <<"space", key>>
  OBVIOUS
<1>6. CleanField(key, n, provider) = (g \o t) \o provider
  BY DEF CleanField
<1>7. /\ g \in Seq(P) /\ x \in Seq(P) /\ z \in Seq(P) /\ t \in Seq(P) /\ provider \in Seq(P)
      /\ v \in Seq(P)
  <2>1. g \in Seq(P)
    BY <1>1
  <2>2. x \in Seq(P) /\ z \in Seq(P)
    BY <1>1
  <2>3. t \in Seq(P) /\ provider \in Seq(P) /\ v \in Seq(P)
    BY <1>1, <1>3, <1>4, <1>5
  <2>. QED  BY <2>1, <2>2, <2>3
<1>. PICK h : h = x \o <<"space", key>>
  OBVIOUS
<1>. PICK r : r = v \o z
  OBVIOUS
<1>8. w = h \o r
  <2>0. h \in Seq(P)
    BY <1>7
  <2>1. Regrouped(g, t, provider)
    BY ONLY <1>7, TheyRegroup
  <2>2. Regrouped(x, g, v)
    BY ONLY <1>7, TheyRegroup
  <2>3. Regrouped(h, v, z)
    BY ONLY <1>7, <2>0, TheyRegroup
  <2>. PICK c : c = CleanField(key, n, provider)
    OBVIOUS
  <2>4. c = g \o v
    BY <1>6, <2>1 DEF Regrouped
  <2>5. x \o c = h \o v
    BY <2>2, <2>4 DEF Regrouped
  <2>6. (x \o c) \o z = h \o r
    BY <2>3, <2>5 DEF Regrouped
  <2>. QED  BY <2>6
<1>. QED  BY <1>1, <1>2, <1>5, <1>7, <1>8, FindsValue

\* Texts behind spaces, one behind the other, are behind a space.
LEMMA SpacedJoin ==
  ASSUME NEW P, NEW a \in Seq(P), NEW b \in Seq(P), Spaced(a), Spaced(b), NEW c, c = a \o b
  PROVE  Spaced(c)
<1>1. CASE a = << >>
  <2>1. c = b
    BY <1>1, ConcatEmptySeq
  <2>. QED  BY <2>1
<1>2. CASE a # << >>
  <2>1. Joint(P, a, b, c)
    BY JoinIs
  <2>2. Len(a) # 0 /\ a[1] = "space"
    BY <1>2, EmptySeq DEF Spaced
  <2>. PICK n \in Nat : n = Len(a)
    OBVIOUS
  <2>3. 1 \in 1 .. n
    BY <2>2
  <2>4. c[1] = a[1]
    BY <2>1, <2>3 DEF Joint
  <2>. QED  BY <2>2, <2>4 DEF Spaced
<1>. QED  BY <1>1, <1>2

\* The pieces of a field without colours, and the space in front of it.
LEMMA CleanFieldIs ==
  ASSUME NEW l, Line(l), NEW n \in Names(l), NEW S, PlainPieces(l) \subseteq S, NEW key \in S,
         NEW provider \in Seq({"@", "word"}), NEW f, f = CleanField(key, n, provider)
  PROVE  f \in Seq(S) /\ Spaced(f)
<1>1. CASE n = << >>
  BY <1>1 DEF CleanField, Spaced
<1>2. CASE n # << >>
  <2>. PICK g : g = <<"space", key>>
    OBVIOUS
  <2>. PICK t : t = n[1]
    OBVIOUS
  <2>1. "space" \in S /\ {"@", "word"} \subseteq S /\ NamePieces(l) \subseteq S
    BY DEF PlainPieces
  <2>2. t \in Seq(S)
    <3>1. t \in Seq(NamePieces(l))
      BY <1>2, NameIs
    <3>. QED  BY <2>1, <3>1
  <2>3. g \in Seq(S) /\ Len(g) = 2 /\ g[1] = "space"
    BY <2>1
  <2>4. provider \in Seq(S)
    BY <2>1
  <2>. PICK h : h = g \o t
    OBVIOUS
  <2>5. Joint(S, g, t, h)
    BY <2>2, <2>3, JoinIs
  <2>6. f = h \o provider
    BY <1>2 DEF CleanField
  <2>7. h \in Seq(S)
    BY <2>5 DEF Joint
  <2>8. Joint(S, h, provider, f)
    BY <2>4, <2>6, <2>7, JoinIs
  <2>9. f \in Seq(S)
    BY <2>8 DEF Joint
  <2>10. f[1] = "space"
    <3>. PICK k \in Nat : k = Len(t)
      BY <2>2
    <3>1. Len(h) = 2 + k
      BY <2>3, <2>5 DEF Joint
    <3>2. 1 \in 1 .. 2 /\ 1 \in 1 .. Len(h)
      BY <3>1
    <3>3. h[1] = g[1]
      BY <2>3, <2>5, <3>2 DEF Joint
    <3>4. f[1] = h[1]
      BY <2>8, <3>2 DEF Joint
    <3>. QED  BY <2>3, <3>3, <3>4
  <2>. QED  BY <2>9, <2>10 DEF Spaced
<1>. QED  BY <1>1, <1>2

\* strip_traefik_suffix leaves the name.
LEMMA SuffixGoes ==
  ASSUME NEW P, NEW t \in Seq(P), "@" \notin P, NEW v, v = t \o Provider
  PROVE  strip_traefik_suffix(v) = t
<1>. PICK e : e = "@"
  OBVIOUS
<1>. PICK Q : Q = P \cup {"@", "word"}
  OBVIOUS
<1>. PICK pr : pr = Provider
  OBVIOUS
<1>1. t \in Seq(Q) /\ pr \in Seq(Q) /\ Len(pr) = 2 /\ pr[1] = e
  BY DEF Provider
<1>2. Joint(Q, t, pr, v)
  BY <1>1, JoinIs
<1>. PICK n \in Nat : n = Len(t)
  OBVIOUS
<1>3. v \in Seq(Q) /\ Len(v) = n + 2
  BY <1>1, <1>2 DEF Joint
<1>. PICK i \in Nat : i = n + 1
  OBVIOUS
<1>4. i \in 1 .. Len(v)
  BY <1>3
<1>5. v[i] = e
  <2>1. 1 \in 1 .. 2
    OBVIOUS
  <2>2. v[n + 1] = pr[1]
    BY <1>1, <1>2, <2>1 DEF Joint
  <2>. QED  BY <1>1, <2>2
<1>6. ASSUME NEW j \in 1 .. Len(v), j < i PROVE v[j] # e
  <2>1. j \in 1 .. n
    BY <1>3, <1>6
  <2>2. v[j] = t[j]
    BY <1>2, <2>1 DEF Joint
  <2>3. t[j] \in P
    BY <2>1
  <2>. QED  BY <2>2, <2>3
<1>7. FirstOf(v, e) = i
  <2>1. FirstPlace(v, e, i)
    BY <1>4, <1>5, <1>6 DEF FirstPlace
  <2>. QED  BY <1>3, <2>1, FirstAt
<1>8. SubSeq(v, 1, n) = t
  <2>1. Stands(v, 0, t)
    BY <1>2, <1>3 DEF Joint, Stands
  <2>2. CutOut(v, 0, t)
    BY <1>1, <1>3, <2>1, StandsIs
  <2>. QED  BY <2>2 DEF CutOut
<1>9. strip_traefik_suffix(v) = IF FirstOf(v, "@") = 0 THEN v ELSE SubSeq(v, 1, FirstOf(v, "@") - 1)
  BY Zenon DEF strip_traefik_suffix, FirstOf
<1>10. i # 0 /\ i - 1 = n
  OBVIOUS
<1>. QED  BY <1>7, <1>8, <1>9, <1>10

\* A name's field, or none.
LEMMA NameFound ==
  ASSUME NEW l, Line(l), NEW n \in Names(l), NEW S, PlainPieces(l) \subseteq S,
         NEW P, S \subseteq P, NEW key \in P, key \notin S,
         NEW x \in Seq(S), NEW z \in Seq(S), Spaced(z), NEW provider \in Seq({"@", "word"}),
         NEW f, f = CleanField(key, n, provider), NEW w, w = (x \o f) \o z
  PROVE  Finds(w, key, IF n = << >> THEN << >> ELSE <<n[1] \o provider>>)
<1>1. CASE n = << >>
  <2>1. f = << >>
    BY <1>1 DEF CleanField
  <2>2. x \o f = x
    BY <2>1, ConcatEmptySeq
  <2>3. w \in Seq(S)
    BY <2>2
  <2>4. Finds(w, key, << >>)
    BY <2>3, FindsNothing
  <2>. QED  BY <1>1, <2>4
<1>2. CASE n # << >>
  <2>. PICK v : v = n[1] \o provider
    OBVIOUS
  <2>1. Finds(w, key, <<v>>)
    BY <1>2, FieldFinds
  <2>. QED  BY <1>2, <2>1
<1>. QED  BY <1>1, <1>2

\* A name with its provider, and without.
Bare(v) == IF v = << >> THEN << >> ELSE <<strip_traefik_suffix(v[1])>>

\* Without it is the name.
LEMMA BareIs ==
  ASSUME NEW l, Line(l), NEW n \in Names(l),
         NEW v, v = IF n = << >> THEN << >> ELSE <<n[1] \o Provider>>
  PROVE  Bare(v) = n
<1>1. CASE n = << >>
  BY <1>1 DEF Bare
<1>2. CASE n # << >>
  <2>. PICK t : t = n[1]
    OBVIOUS
  <2>. PICK N : N = NamePieces(l)
    OBVIOUS
  <2>1. n = <<t>> /\ t \in Seq(N)
    BY <1>2, NameIs
  <2>2. "@" \notin N
    <3>1. "@" \in Special
      BY DEF Special
    <3>. QED  BY <3>1 DEF NamePieces
  <2>. PICK u : u = t \o Provider
    OBVIOUS
  <2>3. strip_traefik_suffix(u) = t
    BY ONLY <2>1, <2>2, u = t \o Provider, SuffixGoes
  <2>4. v = <<u>>
    BY <1>2
  <2>5. v # << >> /\ v[1] = u
    BY <2>4
  <2>6. Bare(v) = <<strip_traefik_suffix(v[1])>>
    BY <2>5 DEF Bare
  <2>. QED  BY <2>1, <2>3, <2>5, <2>6
<1>. QED  BY <1>1, <1>2

\* extract_traefik_enrichment, by these.
LEMMA ExtractIs ==
  ASSUME NEW s, NEW a, NEW b, NEW c, Finds(s, "middlewareName=", a), Finds(s, "routerName=", b),
         Finds(s, "entryPointName=", c)
  PROVE  extract_traefik_enrichment(s) = [middleware |-> Bare(a), router |-> Bare(b), entryPoint |-> c]
BY DEF extract_traefik_enrichment, Finds, Bare

\* The names are the ones the line was written with.
LEMMA NamesAre ==
  ASSUME NEW l, Line(l), Keyless(l)
  PROVE  extract_traefik_enrichment(strip_ansi(Written(l).text)) = l.names
<1>. PICK A : A = PlainPieces(l)
  OBVIOUS
<1>. PICK ek : ek = "entryPointName="
  OBVIOUS
<1>. PICK mk : mk = "middlewareName="
  OBVIOUS
<1>. PICK rk : rk = "routerName="
  OBVIOUS
<1>. PICK P : P = A \cup {ek, mk, rk}
  OBVIOUS
<1>1. ek \notin A /\ mk \notin A /\ rk \notin A /\ ek # mk /\ ek # rk /\ mk # rk
  <2>1. ek \in Keys /\ mk \in Keys /\ rk \in Keys
    BY DEF Keys
  <2>2. A \cap Keys = {}
    BY KeylessIs
  <2>. QED  BY <2>1, <2>2
<1>. PICK o \in Seq(ToSet(l.before)) :
          strip_ansi(Written(l).text) = (o \o Body(l)) \o Clean(l.names)
  BY LineStrips
<1>. PICK y : y = Body(l)
  OBVIOUS
<1>. PICK pre : pre = o \o y
  OBVIOUS
<1>2. pre \in Seq(A)
  <2>1. ToSet(l.before) \subseteq A /\ DocPieces(l) \subseteq A
    BY DEF PlainPieces
  <2>2. o \in Seq(A)
    BY <2>1
  <2>3. y \in Seq(A)
    <3>1. y \in Seq(DocPieces(l))
      BY BodyIs
    <3>. QED  BY <2>1, <3>1
  <2>. QED  BY <2>2, <2>3
<1>. PICK e : e = l.names.entryPoint
  OBVIOUS
<1>. PICK m : m = l.names.middleware
  OBVIOUS
<1>. PICK r : r = l.names.router
  OBVIOUS
<1>3. e \in Names(l) /\ m \in Names(l) /\ r \in Names(l)
  BY DEF Names
<1>. PICK none : none = << >>
  OBVIOUS
<1>. PICK pr : pr = Provider
  OBVIOUS
<1>4. none \in Seq({"@", "word"}) /\ pr \in Seq({"@", "word"}) /\ Spaced(none)
  BY DEF Provider, Spaced
<1>. PICK ce : ce = CleanField(ek, e, none)
  OBVIOUS
<1>. PICK cm : cm = CleanField(mk, m, pr)
  OBVIOUS
<1>. PICK cr : cr = CleanField(rk, r, pr)
  OBVIOUS
<1>5. /\ ce \in Seq(A \cup {ek}) /\ Spaced(ce)
      /\ cm \in Seq(A \cup {mk}) /\ Spaced(cm)
      /\ cr \in Seq(A \cup {rk}) /\ Spaced(cr)
  <2>1. /\ PlainPieces(l) \subseteq A \cup {ek} /\ PlainPieces(l) \subseteq A \cup {mk}
        /\ PlainPieces(l) \subseteq A \cup {rk}
    OBVIOUS
  <2>2. ek \in A \cup {ek} /\ mk \in A \cup {mk} /\ rk \in A \cup {rk}
    OBVIOUS
  <2>3. ce \in Seq(A \cup {ek}) /\ Spaced(ce)
    BY ONLY <1>3, <1>4, <2>1, <2>2, ce = CleanField(ek, e, none), Line(l), CleanFieldIs
  <2>4. cm \in Seq(A \cup {mk}) /\ Spaced(cm)
    BY ONLY <1>3, <1>4, <2>1, <2>2, cm = CleanField(mk, m, pr), Line(l), CleanFieldIs
  <2>5. cr \in Seq(A \cup {rk}) /\ Spaced(cr)
    BY ONLY <1>3, <1>4, <2>1, <2>2, cr = CleanField(rk, r, pr), Line(l), CleanFieldIs
  <2>. QED  BY <2>3, <2>4, <2>5
<1>6. pre \in Seq(P) /\ ce \in Seq(P) /\ cm \in Seq(P) /\ cr \in Seq(P)
  <2>1. A \subseteq P /\ A \cup {ek} \subseteq P /\ A \cup {mk} \subseteq P /\ A \cup {rk} \subseteq P
    OBVIOUS
  <2>. QED  BY <1>2, <1>5, <2>1
\* The line, around each of the fields.
<1>. PICK em : em = ce \o cm
  OBVIOUS
<1>. PICK mr : mr = cm \o cr
  OBVIOUS
<1>. PICK pe : pe = pre \o ce
  OBVIOUS
<1>. PICK pm : pm = pe \o cm
  OBVIOUS
<1>. PICK w : w = pre \o (em \o cr)
  OBVIOUS
<1>7. strip_ansi(Written(l).text) = w
  <2>1. Clean(l.names) = em \o cr
    BY DEF Clean
  <2>. QED  BY <2>1
<1>8. em \in Seq(P) /\ mr \in Seq(P) /\ pe \in Seq(P) /\ pm \in Seq(P)
  <2>1. em \in Seq(P) /\ mr \in Seq(P) /\ pe \in Seq(P)
    BY <1>6
  <2>2. pm \in Seq(P)
    BY <1>6, <2>1
  <2>. QED  BY <2>1, <2>2
<1>9. w = (pre \o ce) \o mr /\ w = (pe \o cm) \o cr /\ w = (pm \o cr) \o none
  <2>1. Regrouped(ce, cm, cr) /\ Regrouped(pre, ce, mr) /\ Regrouped(pe, cm, cr)
    BY ONLY <1>6, <1>8, TheyRegroup
  <2>2. w = (pre \o ce) \o mr
    BY <2>1 DEF Regrouped
  <2>3. w = (pe \o cm) \o cr
    BY <2>1, <2>2 DEF Regrouped
  <2>. PICK u : u = pm \o cr
    OBVIOUS
  <2>4. u \in Seq(P)
    BY ONLY <1>6, <1>8, u = pm \o cr
  <2>5. u \o << >> = u
    BY ONLY <2>4, ConcatEmptySeq
  <2>6. w = (pm \o cr) \o none
    BY <2>3, <2>5
  <2>. QED  BY <2>2, <2>3, <2>6
<1>10. Finds(w, ek, IF e = << >> THEN << >> ELSE <<e[1] \o none>>)
  <2>. PICK S : S = A \cup {mk, rk}
    OBVIOUS
  <2>1. PlainPieces(l) \subseteq S /\ S \subseteq P /\ ek \in P /\ ek \notin S
    BY <1>1
  <2>2. pre \in Seq(S) /\ mr \in Seq(S)
    <3>1. cm \in Seq(S) /\ cr \in Seq(S)
      BY <1>5
    <3>. QED  BY <1>2, <3>1
  <2>3. Spaced(mr)
    BY <1>5, <1>6, SpacedJoin
  <2>4. w = (pre \o ce) \o mr
    BY <1>9
  <2>. QED  BY ONLY <1>3, <1>4, <2>1, <2>2, <2>3, <2>4, ce = CleanField(ek, e, none), Line(l), NameFound
<1>11. Finds(w, mk, IF m = << >> THEN << >> ELSE <<m[1] \o pr>>)
  <2>. PICK S : S = A \cup {ek, rk}
    OBVIOUS
  <2>1. PlainPieces(l) \subseteq S /\ S \subseteq P /\ mk \in P /\ mk \notin S
    BY <1>1
  <2>2. pe \in Seq(S) /\ cr \in Seq(S)
    <3>0. A \subseteq S /\ A \cup {ek} \subseteq S /\ A \cup {rk} \subseteq S
      OBVIOUS
    <3>1. pre \in Seq(S) /\ ce \in Seq(S) /\ cr \in Seq(S)
      BY ONLY <1>2, <1>5, <3>0
    <3>. QED  BY <3>1
  <2>3. Spaced(cr) /\ w = (pe \o cm) \o cr
    BY <1>5, <1>9
  <2>. QED  BY ONLY <1>3, <1>4, <2>1, <2>2, <2>3, cm = CleanField(mk, m, pr), Line(l), NameFound
<1>12. Finds(w, rk, IF r = << >> THEN << >> ELSE <<r[1] \o pr>>)
  <2>. PICK S : S = A \cup {ek, mk}
    OBVIOUS
  <2>1. PlainPieces(l) \subseteq S /\ S \subseteq P /\ rk \in P /\ rk \notin S
    BY <1>1
  <2>2. pm \in Seq(S) /\ none \in Seq(S)
    <3>0. A \subseteq S /\ A \cup {ek} \subseteq S /\ A \cup {mk} \subseteq S
      OBVIOUS
    <3>1. pre \in Seq(S) /\ ce \in Seq(S) /\ cm \in Seq(S)
      BY ONLY <1>2, <1>5, <3>0
    <3>2. pe \in Seq(S)
      BY ONLY <3>1, pe = pre \o ce
    <3>3. pm \in Seq(S)
      BY ONLY <3>1, <3>2, pm = pe \o cm
    <3>. QED  BY <1>4, <3>3, SMTT(40)
  <2>3. Spaced(none) /\ w = (pm \o cr) \o none
    BY <1>4, <1>9
  <2>. QED  BY ONLY <1>3, <1>4, <2>1, <2>2, <2>3, cr = CleanField(rk, r, pr), Line(l), NameFound
<1>. PICK a : a = IF m = << >> THEN << >> ELSE <<m[1] \o pr>>
  OBVIOUS
<1>. PICK b : b = IF r = << >> THEN << >> ELSE <<r[1] \o pr>>
  OBVIOUS
<1>. PICK c : c = IF e = << >> THEN << >> ELSE <<e[1] \o none>>
  OBVIOUS
<1>13. extract_traefik_enrichment(w) = [middleware |-> Bare(a), router |-> Bare(b), entryPoint |-> c]
  <2>1. Finds(w, "middlewareName=", a) /\ Finds(w, "routerName=", b) /\ Finds(w, "entryPointName=", c)
    BY <1>10, <1>11, <1>12
  <2>. QED  BY ONLY <2>1, ExtractIs
<1>14. Bare(a) = m /\ Bare(b) = r
  <2>1. a = IF m = << >> THEN << >> ELSE <<m[1] \o Provider>>
    OBVIOUS
  <2>2. b = IF r = << >> THEN << >> ELSE <<r[1] \o Provider>>
    OBVIOUS
  <2>. QED  BY ONLY <1>3, <2>1, <2>2, Line(l), BareIs
<1>15. c = e
  <2>1. CASE e = << >>
    BY <2>1
  <2>2. CASE e # << >>
    <3>. PICK t : t = e[1]
      OBVIOUS
    <3>1. e = <<t>> /\ t \in Seq(NamePieces(l))
      BY <1>3, <2>2, NameIs
    <3>2. t \o << >> = t
      BY ONLY <3>1, ConcatEmptySeq
    <3>. QED  BY <2>2, <3>1, <3>2
  <2>. QED  BY <2>1, <2>2
<1>16. l.names = [middleware |-> m, router |-> r, entryPoint |-> e]
  BY LinesAssumption DEF Line
<1>. QED  BY <1>7, <1>13, <1>14, <1>15, <1>16

-----------------------------------------------------------------------------
(* What the parser takes.                                                  *)

\* Whatever parse_line makes an event of is an audit event, with the names it found.
LEMMA EventIsAudit ==
  ASSUME NEW x, parse_line(x) # << >>
  PROVE  /\ parse_line(x)[1].event \in x.documents /\ IsPurpleWolf(parse_line(x)[1].event)
         /\ parse_line(x)[1].source = extract_traefik_enrichment(strip_ansi(x.text))
<1>. PICK stripped : stripped = strip_ansi(x.text)
  OBVIOUS
<1>. PICK object : object = find_json_object(stripped)
  OBVIOUS
<1>. PICK doc : doc = JsonParse(object[1], x.documents)
  OBVIOUS
<1>. PICK source : source = extract_traefik_enrichment(stripped)
  OBVIOUS
<1>1. ParsesTo(x, stripped, object, doc)
  BY ParseLineIs
<1>. PICK r : r = [event |-> doc[1], source |-> source]
  OBVIOUS
<1>2. parse_line(x) = <<r>> /\ IsPurpleWolf(doc[1])
  BY <1>1 DEF ParsesTo
<1>3. <<r>>[1] = r /\ r.event = doc[1] /\ r.source = source
  OBVIOUS
<1>4. parse_line(x)[1].event \in x.documents
  BY EventIsWritten
<1>. QED  BY <1>2, <1>3, <1>4

\* The parsed line is the line that was taken.
LineInv == \/ line = << >> /\ parsed = << >>
           \/ \E l \in world.lines : line = <<l>> /\ parsed = parse_line(Written(l))

\* Every step preserves it.
LEMMA LineNext == LineInv /\ [Next]_vars => LineInv'
<1>. SUFFICES ASSUME LineInv, [Next]_vars PROVE LineInv'
  OBVIOUS
<1>1. CASE UNCHANGED <<world, line, parsed>>
  BY <1>1 DEF LineInv
<1>2. CASE TakeLine
  <2>. PICK l \in world.lines : line' = <<l>> /\ parsed' = parse_line(Written(l))
    BY <1>2 DEF TakeLine
  <2>1. world' = world
    BY <1>2 DEF TakeLine
  <2>. QED  BY <2>1 DEF LineInv
<1>3. CASE Parser
  BY <1>1, <1>3 DEF Parser, Lookup, NothingToLookUp, AskCache, InnerTimeoutFires,
                    OuterTimeoutFires, FanOut
<1>4. CASE ResponseStarts \/ ResponseRead \/ CallFails
  BY <1>1, <1>4 DEF ResponseStarts, ResponseRead, CallFails
<1>5. CASE Tick \/ DataChanges
  BY <1>1, <1>5 DEF Tick, DataChanges
<1>6. CASE UNCHANGED vars
  BY <1>1, <1>6 DEF vars
<1>. QED  BY <1>2, <1>3, <1>4, <1>5, <1>6 DEF Next

\* It implies the property, line by line.
LEMMA TakenExactly ==
  ASSUME world \in Worlds, LineInv
  PROVE  EventsTakenExactly
<1>1. CASE line = << >> /\ parsed = << >>
  BY <1>1 DEF EventsTakenExactly, ParsedExactly, NamesExact
<1>2. CASE \E l \in world.lines : line = <<l>> /\ parsed = parse_line(Written(l))
  <2>. PICK l \in world.lines : line = <<l>> /\ parsed = parse_line(Written(l))
    BY <1>2
  <2>1. Line(l) /\ line[1] = l /\ line # << >>
    BY DEF Line
  <2>. PICK x : x = Written(l)
    OBVIOUS
  <2>. PICK audits : audits = {d \in ToSet(l.documents) : d.hasWouldBlock /\ d.action \in {"block", "allow"}}
    OBVIOUS
  <2>2. \A d \in ToSet(l.documents) : IsPurpleWolf(d) <=> d \in audits
    BY DEF IsPurpleWolf
  <2>3. x.documents = ToSet(l.documents)
    BY DEF Written
  <2>4. parsed # << >> =>
           /\ parsed[1].event \in audits
           /\ parsed[1].source = extract_traefik_enrichment(strip_ansi(x.text))
    BY <2>2, <2>3, EventIsAudit
  <2>5. Tidy(l) => /\ parsed # << >> <=> l.documents[1] \in audits
                   /\ parsed # << >> => parsed[1].event = l.documents[1]
    <3>. SUFFICES ASSUME Tidy(l)
                  PROVE  /\ parsed # << >> <=> l.documents[1] \in audits
                         /\ parsed # << >> => parsed[1].event = l.documents[1]
      OBVIOUS
    <3>. PICK d : d = l.documents[1]
      OBVIOUS
    <3>1. d \in ToSet(l.documents)
      BY <2>1, FirstDocument
    <3>. PICK r : r = Taken(l)
      OBVIOUS
    <3>2. parsed = IF IsPurpleWolf(d) THEN <<r>> ELSE << >>
      BY <2>1, TidyParses
    <3>3. <<r>>[1] = r /\ <<r>> # << >> /\ r.event = d
      BY DEF Taken
    <3>. QED  BY <2>2, <3>1, <3>2, <3>3
  <2>6. ParsedExactly
    BY <2>1, <2>4, <2>5 DEF ParsedExactly
  <2>7. NamesExact
    <3>1. Keyless(l) => extract_traefik_enrichment(strip_ansi(x.text)) = l.names
      BY <2>1, NamesAre
    <3>. QED  BY <2>1, <2>4, <3>1 DEF NamesExact, Keyless
  <2>. QED  BY <2>6, <2>7 DEF EventsTakenExactly
<1>. QED  BY <1>1, <1>2 DEF LineInv

\* parse_line: where no brace stands before the line's JSON, the first object is taken
\* exactly when it is an audit event, unchanged whatever braces, quotes and backslashes
\* its strings hold; and the names are those Traefik wrote, of a line that holds the
\* keys of its fields nowhere else (strip_ansi, find_json_object, find_value).
THEOREM EventsStayExact == Spec => []EventsTakenExactly
<1>1. Init => LineInv
  BY DEF Init, LineInv
<1>2. PathInv /\ LineInv => EventsTakenExactly
  BY TakenExactly DEF PathInv, ShapeInv
<1>. QED  BY <1>1, <1>2, LineNext, PathStaysTrue, PTL DEF Spec
=============================================================================
