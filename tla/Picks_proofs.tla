---------------------------- MODULE Picks_proofs ----------------------------
(***************************************************************************)
(* What Picked returns, for every sequence.  A definition by recursion is    *)
(* reasoned about through its least counterexample.                          *)
(***************************************************************************)
EXTENDS Picks, FunctionTheorems, SequenceTheorems, FiniteSetTheorems, WellFoundedInduction, TLAPS

Below == {p \in Nat \X Nat : p[1] < p[2]}

\* Every set of naturals that is not empty has a least member.
LEMMA LeastMember == ASSUME NEW T \in SUBSET Nat, T # {} PROVE \E x \in T : \A y \in T : x <= y
<1>1. IsWellFoundedOn(Below, Nat)
  BY NatLessThanWellFounded DEF OpToRel, Below
<1>2. PICK x \in T : \A y \in T : ~(<<y, x>> \in Below)
  BY <1>1, WFMin
<1>3. ASSUME NEW y \in T PROVE x <= y
  <2>1. y \in Nat /\ x \in Nat /\ ~(<<y, x>> \in Below)
    BY <1>2
  <2>2. <<y, x>> \in Nat \X Nat /\ <<y, x>>[1] = y /\ <<y, x>>[2] = x
    BY <2>1
  <2>3. ~(y < x)
    BY <2>1, <2>2 DEF Below
  <2>. QED  BY <2>1, <2>3
<1>. QED  BY <1>3

\* What is picked before the n-th element, from what is picked before the one before.
Step(f, s, at, n) ==
  IF n = 0 THEN << >> ELSE IF n \in at THEN Append(f[n - 1], s[n]) ELSE f[n - 1]

Recurses(f, s, at, m) == f = [n \in 0 .. m |-> Step(f, s, at, n)]

\* The recursion has a solution.
LEMMA PicksExist ==
  ASSUME NEW S, NEW s \in Seq(S), NEW at, NEW m \in Nat
  PROVE  \E f : Recurses(f, s, at, m)
<1>. DEFINE Bad == {k \in Nat : ~\E f : Recurses(f, s, at, k)}
<1>. SUFFICES ASSUME Bad # {} PROVE FALSE
  OBVIOUS
<1>1. PICK k \in Bad : \A j \in Bad : k <= j
  BY LeastMember
<1>2. k \in Nat /\ ~\E f : Recurses(f, s, at, k)
  OBVIOUS
<1>3. CASE k = 0
  <2>. DEFINE g == [n \in 0 .. 0 |-> << >>]
  <2>1. g = [n \in 0 .. 0 |-> Step(g, s, at, n)]
    BY DEF Step
  <2>. QED  BY <1>2, <1>3, <2>1 DEF Recurses
<1>4. CASE k # 0
  <2>1. k - 1 \in Nat /\ ~(k <= k - 1)
    BY <1>2, <1>4
  <2>2. k - 1 \notin Bad
    BY <1>1, <2>1
  <2>3. PICK f : Recurses(f, s, at, k - 1)
    BY <2>1, <2>2
  <2>. DEFINE g == [n \in 0 .. k |-> Step(f, s, at, n)]
  <2>4. \A n \in 0 .. k - 1 : g[n] = f[n]
    <3>1. f = [n \in 0 .. k - 1 |-> Step(f, s, at, n)]
      BY <2>3 DEF Recurses
    <3>2. \A n \in 0 .. k - 1 : n \in 0 .. k /\ f[n] = Step(f, s, at, n)
      <4>1. \A n \in 0 .. k - 1 : n \in 0 .. k
        BY <1>2
      <4>. HIDE DEF g
      <4>. QED  BY <3>1, <4>1
    <3>. QED  BY <3>2
  <2>5. \A n \in 0 .. k : n = 0 \/ n - 1 \in 0 .. k - 1
    BY <1>2
  <2>6. \A n \in 0 .. k : Step(g, s, at, n) = Step(f, s, at, n)
    <3>. HIDE DEF g
    <3>. QED  BY <2>4, <2>5 DEF Step
  <2>7. g = [n \in 0 .. k |-> Step(g, s, at, n)]
    BY <2>6
  <2>. QED  BY <1>2, <2>7 DEF Recurses
<1>. QED  BY <1>3, <1>4

\* Picked is the last of what is picked before each of the elements.
LEMMA PickedIsLast ==
  ASSUME NEW S, NEW s \in Seq(S), NEW at
  PROVE  \E f : Recurses(f, s, at, Len(s)) /\ Picked(s, at) = f[Len(s)]
<1>1. Len(s) \in Nat
  OBVIOUS
<1>. DEFINE f == CHOOSE g : g = [n \in 0 .. Len(s) |->
                   IF n = 0 THEN << >>
                   ELSE IF n \in at THEN Append(g[n - 1], s[n]) ELSE g[n - 1]]
<1>2. Picked(s, at) = f[Len(s)]
  BY DEF Picked
<1>3. Recurses(f, s, at, Len(s))
  <2>1. \E g : g = [n \in 0 .. Len(s) |->
                   IF n = 0 THEN << >>
                   ELSE IF n \in at THEN Append(g[n - 1], s[n]) ELSE g[n - 1]]
    <3>1. PICK g : Recurses(g, s, at, Len(s))
      BY <1>1, PicksExist
    <3>2. g = [n \in 0 .. Len(s) |->
                   IF n = 0 THEN << >>
                   ELSE IF n \in at THEN Append(g[n - 1], s[n]) ELSE g[n - 1]]
      BY <3>1 DEF Recurses, Step
    <3>. QED  BY <3>2
  <2>2. f = [n \in 0 .. Len(s) |->
                   IF n = 0 THEN << >>
                   ELSE IF n \in at THEN Append(f[n - 1], s[n]) ELSE f[n - 1]]
    BY <2>1
  <2>. QED  BY <2>2 DEF Recurses, Step
<1>. HIDE DEF f
<1>. QED  BY <1>2, <1>3

-----------------------------------------------------------------------------
(* The positions picked.                                                   *)

\* p is what is picked of the first n elements, and pos says from where.
Marks(p, s, at, n, pos) ==
  /\ pos \in [1 .. Len(p) -> 1 .. n]
  /\ \A j \in 1 .. Len(p) : pos[j] \in at /\ p[j] = s[pos[j]]
  /\ \A j, k \in 1 .. Len(p) : j < k => pos[j] < pos[k]
  /\ \A i \in 1 .. n : i \in at => \E j \in 1 .. Len(p) : pos[j] = i

\* One element further.
LEMMA MarksStep ==
  ASSUME NEW S, NEW s \in Seq(S), NEW at, NEW n \in Nat, n + 1 <= Len(s),
         NEW p \in Seq(S), NEW pos, Marks(p, s, at, n, pos)
  PROVE  LET q == IF n + 1 \in at THEN Append(p, s[n + 1]) ELSE p
         IN  q \in Seq(S) /\ \E new : Marks(q, s, at, n + 1, new)
<1>1. s[n + 1] \in S /\ Len(p) \in Nat
  BY ElementOfSeq
<1>2. /\ pos \in [1 .. Len(p) -> 1 .. n]
      /\ \A j \in 1 .. Len(p) : pos[j] \in at /\ p[j] = s[pos[j]]
      /\ \A j, k \in 1 .. Len(p) : j < k => pos[j] < pos[k]
      /\ \A i \in 1 .. n : i \in at => \E j \in 1 .. Len(p) : pos[j] = i
  BY DEF Marks
<1>3. \A i \in 1 .. n + 1 : i \in 1 .. n \/ i = n + 1
  OBVIOUS
<1>4. CASE n + 1 \notin at
  <2>1. pos \in [1 .. Len(p) -> 1 .. n + 1]
    BY <1>2
  <2>2. Marks(p, s, at, n + 1, pos)
    BY <1>2, <1>3, <1>4, <2>1 DEF Marks
  <2>. QED  BY <1>4, <2>2
<1>5. CASE n + 1 \in at
  <2>. PICK q : q = Append(p, s[n + 1])
    OBVIOUS
  <2>1. q \in Seq(S) /\ Len(q) = Len(p) + 1 /\ q[Len(p) + 1] = s[n + 1]
        /\ \A j \in 1 .. Len(p) : q[j] = p[j]
    BY <1>1, AppendProperties
  <2>. DEFINE new == [j \in 1 .. Len(p) + 1 |-> IF j = Len(p) + 1 THEN n + 1 ELSE pos[j]]
  <2>2. \A j \in 1 .. Len(p) + 1 : (j \in 1 .. Len(p) /\ j # Len(p) + 1) \/ j = Len(p) + 1
    BY <1>1
  <2>3. /\ new[Len(p) + 1] = n + 1 /\ Len(p) + 1 \in 1 .. Len(p) + 1
        /\ \A j \in 1 .. Len(p) : j \in 1 .. Len(p) + 1 /\ new[j] = pos[j]
    BY <1>1
  <2>4. new \in [1 .. Len(p) + 1 -> 1 .. n + 1]
    <3>1. \A j \in 1 .. Len(p) : pos[j] \in 1 .. n + 1
      BY <1>2
    <3>2. n + 1 \in 1 .. n + 1
      OBVIOUS
    <3>. QED  BY <2>2, <3>1, <3>2
  <2>. HIDE DEF new
  <2>5. \A j \in 1 .. Len(p) + 1 : new[j] \in at /\ q[j] = s[new[j]]
    BY <1>2, <1>5, <2>1, <2>2, <2>3
  <2>6. ASSUME NEW j \in 1 .. Len(p) + 1, NEW k \in 1 .. Len(p) + 1, j < k
        PROVE  new[j] < new[k]
    <3>1. j \in 1 .. Len(p)
      BY <1>1, <2>6
    <3>2. pos[j] \in 1 .. n
      BY <1>2, <3>1
    <3>3. CASE k \in 1 .. Len(p)
      BY <1>2, <2>3, <2>6, <3>1, <3>3
    <3>4. CASE k = Len(p) + 1
      BY <2>3, <3>1, <3>2, <3>4
    <3>. QED  BY <2>2, <3>3, <3>4
  <2>7. \A i \in 1 .. n + 1 : i \in at => \E j \in 1 .. Len(p) + 1 : new[j] = i
    BY <1>2, <1>3, <2>3
  <2>8. Marks(q, s, at, n + 1, new)
    BY <2>1, <2>4, <2>5, <2>6, <2>7 DEF Marks
  <2>. QED  BY <1>5, <2>1, <2>8
<1>. QED  BY <1>4, <1>5

\* Picked returns the elements at the positions asked for, in their order.
LEMMA PickedMarks ==
  ASSUME NEW S, NEW s \in Seq(S), NEW at
  PROVE  /\ Picked(s, at) \in Seq(S)
         /\ \E pos : Marks(Picked(s, at), s, at, Len(s), pos)
<1>0. Len(s) \in Nat
  OBVIOUS
<1>. PICK f : Recurses(f, s, at, Len(s)) /\ Picked(s, at) = f[Len(s)]
  BY PickedIsLast
<1>1. \A n \in 0 .. Len(s) : f[n] = Step(f, s, at, n)
  BY DEF Recurses
<1>. DEFINE Good(n) == f[n] \in Seq(S) /\ \E pos : Marks(f[n], s, at, n, pos)
            Bad == {n \in 0 .. Len(s) : ~Good(n)}
<1>2. ASSUME Bad # {} PROVE FALSE
  <2>1. Bad \in SUBSET Nat
    BY <1>0
  <2>2. PICK n \in Bad : \A k \in Bad : n <= k
    BY <1>2, <2>1, LeastMember
  <2>3. n \in 0 .. Len(s) /\ ~Good(n)
    OBVIOUS
  <2>4. CASE n = 0
    <3>1. f[n] = << >>
      BY <1>1, <2>3, <2>4 DEF Step
    <3>2. << >> \in Seq(S) /\ Len(<< >>) = 0
      OBVIOUS
    <3>3. << >> \in [1 .. 0 -> 1 .. 0]
      OBVIOUS
    <3>4. Marks(<< >>, s, at, 0, << >>)
      BY <3>2, <3>3 DEF Marks
    <3>. QED  BY <2>3, <2>4, <3>1, <3>2, <3>4
  <2>5. CASE n # 0
    <3>1. PICK m \in Nat : n = m + 1
      <4>1. n - 1 \in Nat /\ n = n - 1 + 1
        BY <1>0, <2>3, <2>5
      <4>. QED  BY <4>1
    <3>2. m \in 0 .. Len(s) /\ m + 1 <= Len(s) /\ ~(m + 1 <= m)
          /\ m + 1 - 1 = m /\ m + 1 # 0
      BY <1>0, <2>3, <3>1
    <3>3. Good(m)
      BY <2>2, <3>1, <3>2
    <3>4. f[m + 1] = IF m + 1 \in at THEN Append(f[m], s[m + 1]) ELSE f[m]
      BY <1>1, <2>3, <3>1, <3>2 DEF Step
    <3>5. PICK p \in Seq(S) : p = f[m]
      BY <3>3
    <3>6. PICK pos : Marks(p, s, at, m, pos)
      BY <3>3, <3>5
    <3>7. LET q == IF m + 1 \in at THEN Append(p, s[m + 1]) ELSE p
          IN  q \in Seq(S) /\ \E new : Marks(q, s, at, m + 1, new)
      BY <3>2, <3>6, MarksStep
    <3>8. f[m + 1] \in Seq(S) /\ \E new : Marks(f[m + 1], s, at, m + 1, new)
      BY <3>4, <3>5, <3>7
    <3>. QED  BY <2>3, <3>1, <3>8
  <2>. QED  BY <2>4, <2>5
<1>3. Len(s) \in 0 .. Len(s)
  BY <1>0
<1>4. Good(Len(s))
  BY <1>2, <1>3
<1>. QED  BY <1>4

-----------------------------------------------------------------------------
(* Sequences with the same elements.                                       *)

\* t has the elements of s, and order says where it has them from.
Reorders(t, s, order) ==
  /\ order \in [1 .. Len(t) -> 1 .. Len(s)]
  /\ \A i, j \in 1 .. Len(t) : order[i] = order[j] => i = j
  /\ \A k \in 1 .. Len(s) : \E i \in 1 .. Len(t) : order[i] = k
  /\ \A i \in 1 .. Len(t) : t[i] = s[order[i]]

\* How often x is in s.
Times(x, s) == Cardinality({i \in DOMAIN s : s[i] = x})

\* It then has each of them as often.
LEMMA SameCounts ==
  ASSUME NEW S, NEW s \in Seq(S), NEW t \in Seq(S), NEW order, Reorders(t, s, order)
  PROVE  /\ Len(t) = Len(s)
         /\ \A x : Times(x, t) = Times(x, s)
<1>1. /\ Len(s) \in Nat /\ DOMAIN s = 1 .. Len(s)
      /\ Len(t) \in Nat /\ DOMAIN t = 1 .. Len(t)
  OBVIOUS
<1>2. /\ IsFiniteSet(1 .. Len(t)) /\ Cardinality(1 .. Len(t)) = Len(t)
      /\ IsFiniteSet(1 .. Len(s)) /\ Cardinality(1 .. Len(s)) = Len(s)
  <2>1. \A n \in Nat : IsFiniteSet(1 .. n) /\ Cardinality(1 .. n) = n
    <3>. TAKE n \in Nat
    <3>1. IsFiniteSet(1 .. n) /\ Cardinality(1 .. n) = IF 1 > n THEN 0 ELSE n - 1 + 1
      BY FS_Interval
    <3>. QED  BY <3>1
  <2>. QED  BY <1>1, <2>1
<1>3. Len(t) = Len(s)
  <2>1. order \in Bijection(1 .. Len(t), 1 .. Len(s))
    BY Fun_IsBij DEF Reorders
  <2>2. ExistsBijection(1 .. Len(t), 1 .. Len(s))
    BY <2>1 DEF ExistsBijection
  <2>. QED  BY <1>2, <2>2, FS_Bijection
<1>4. ASSUME NEW x PROVE Times(x, t) = Times(x, s)
  <2>. PICK I : I = {i \in 1 .. Len(t) : t[i] = x}
    OBVIOUS
  <2>. PICK K : K = {k \in 1 .. Len(s) : s[k] = x}
    OBVIOUS
  <2>. DEFINE here == [i \in I |-> order[i]]
  <2>1. here \in [I -> K]
    BY DEF Reorders
  <2>2. \A i, j \in I : here[i] = here[j] => i = j
    BY DEF Reorders
  <2>3. \A k \in K : \E i \in I : here[i] = k
    BY DEF Reorders
  <2>. HIDE DEF here
  <2>4. here \in Bijection(I, K)
    BY <2>1, <2>2, <2>3, Fun_IsBij
  <2>5. ExistsBijection(I, K)
    BY <2>4 DEF ExistsBijection
  <2>6. IsFiniteSet(I)
    BY <1>2, FS_Subset
  <2>7. Cardinality(K) = Cardinality(I)
    BY <2>5, <2>6, FS_Bijection
  <2>8. I = {i \in DOMAIN t : t[i] = x} /\ K = {i \in DOMAIN s : s[i] = x}
    BY <1>1
  <2>. QED  BY <2>7, <2>8 DEF Times
<1>. QED  BY <1>3, <1>4

-----------------------------------------------------------------------------
(* What is kept of a sequence that grows.                                  *)

\* The recursion for a longer sequence goes through the one for a shorter.
LEMMA PicksAgree ==
  ASSUME NEW S, NEW s \in Seq(S), NEW t \in Seq(S), Len(s) <= Len(t),
         NEW at, NEW in, \A n \in 1 .. Len(s) : t[n] = s[n] /\ (n \in at <=> n \in in),
         NEW f, Recurses(f, s, at, Len(s)), NEW g, Recurses(g, t, in, Len(t))
  PROVE  \A n \in 0 .. Len(s) : f[n] = g[n]
<1>. DEFINE Bad == {n \in 0 .. Len(s) : f[n] # g[n]}
<1>. SUFFICES ASSUME Bad # {} PROVE FALSE
  OBVIOUS
<1>1. Len(s) \in Nat /\ Len(t) \in Nat
  OBVIOUS
<1>2. PICK n \in Bad : \A k \in Bad : n <= k
  <2>1. Bad \in SUBSET Nat
    BY <1>1
  <2>. HIDE DEF Bad
  <2>. QED  BY <2>1, LeastMember
<1>3. n \in 0 .. Len(s) /\ n \in 0 .. Len(t) /\ n \in Nat /\ f[n] # g[n]
  BY <1>1
<1>4. f[n] = Step(f, s, at, n) /\ g[n] = Step(g, t, in, n)
  <2>1. \A h, r, of, m : Recurses(h, r, of, m) => \A k \in 0 .. m : h[k] = Step(h, r, of, k)
    <3>. SUFFICES ASSUME NEW h, NEW r, NEW of, NEW m, Recurses(h, r, of, m), NEW k \in 0 .. m
                  PROVE  h[k] = Step(h, r, of, k)
      OBVIOUS
    <3>1. h = [x \in 0 .. m |-> Step(h, r, of, x)]
      BY DEF Recurses
    <3>. DEFINE e == [x \in 0 .. m |-> Step(h, r, of, x)]
    <3>2. e[k] = Step(h, r, of, k)
      OBVIOUS
    <3>3. h = e
      BY <3>1
    <3>. HIDE DEF e
    <3>. QED  BY <3>2, <3>3
  <2>. QED  BY <1>3, <2>1
<1>5. CASE n = 0
  BY <1>3, <1>4, <1>5 DEF Step
<1>6. CASE n # 0
  <2>1. n - 1 \in 0 .. Len(s) /\ ~(n <= n - 1) /\ n \in 1 .. Len(s)
    BY <1>1, <1>3, <1>6
  <2>2. f[n - 1] = g[n - 1]
    BY <1>2, <2>1
  <2>. HIDE DEF Bad
  <2>. QED  BY <1>3, <1>4, <1>6, <2>1, <2>2 DEF Step
<1>. QED  BY <1>5, <1>6

\* One more element is kept or not.
LEMMA KeptOfAppend ==
  ASSUME NEW S, NEW s \in Seq(S), NEW x \in S, NEW these
  PROVE  Kept(Append(s, x), these)
           = IF x \in these THEN Append(Kept(s, these), x) ELSE Kept(s, these)
<1>. DEFINE t  == Append(s, x)
            at == {i \in DOMAIN s : s[i] \in these}
            in == {i \in DOMAIN t : t[i] \in these}
<1>1. /\ t \in Seq(S) /\ Len(s) \in Nat /\ Len(t) = Len(s) + 1
      /\ t[Len(s) + 1] = x
      /\ \A n \in 1 .. Len(s) : t[n] = s[n]
      /\ DOMAIN s = 1 .. Len(s) /\ DOMAIN t = 1 .. Len(s) + 1
  OBVIOUS
<1>. HIDE DEF t
<1>2. /\ \A n \in 1 .. Len(s) : n \in at <=> n \in in
      /\ Len(s) + 1 \in in <=> x \in these
  BY <1>1
<1>. HIDE DEF at, in
<1>3. PICK f : Recurses(f, s, at, Len(s)) /\ Picked(s, at) = f[Len(s)]
  BY PickedIsLast
<1>4. PICK g : Recurses(g, t, in, Len(t)) /\ Picked(t, in) = g[Len(t)]
  BY <1>1, PickedIsLast
<1>5. f[Len(s)] = g[Len(s)]
  BY <1>1, <1>2, <1>3, <1>4, PicksAgree
<1>6. g[Len(s) + 1] = Step(g, t, in, Len(s) + 1)
  <2>1. g = [n \in 0 .. Len(s) + 1 |-> Step(g, t, in, n)] /\ Len(s) + 1 \in 0 .. Len(s) + 1
    BY <1>1, <1>4 DEF Recurses
  <2>. DEFINE e == [n \in 0 .. Len(s) + 1 |-> Step(g, t, in, n)]
  <2>2. e[Len(s) + 1] = Step(g, t, in, Len(s) + 1)
    BY <2>1
  <2>3. g = e
    BY <2>1
  <2>. HIDE DEF e
  <2>. QED  BY <2>2, <2>3
<1>7. g[Len(s) + 1] = IF x \in these THEN Append(g[Len(s)], x) ELSE g[Len(s)]
  <2>1. Len(s) + 1 # 0 /\ (Len(s) + 1) - 1 = Len(s)
    BY <1>1
  <2>. QED  BY <1>1, <1>2, <1>6, <2>1 DEF Step
<1>8. Kept(s, these) = g[Len(s)] /\ Kept(t, these) = g[Len(s) + 1]
  BY <1>1, <1>3, <1>4, <1>5 DEF Kept, at, in
<1>. QED  BY <1>7, <1>8 DEF t

\* Nothing is kept of nothing.
LEMMA KeptOfNone == ASSUME NEW these PROVE Kept(<< >>, these) = << >>
<1>1. << >> \in Seq({}) /\ Len(<< >>) = 0 /\ DOMAIN << >> = {}
  OBVIOUS
<1>2. PICK f : Recurses(f, << >>, {}, 0) /\ Picked(<< >>, {}) = f[0]
  BY <1>1, PickedIsLast
<1>3. f = [n \in 0 .. 0 |-> Step(f, << >>, {}, n)]
  BY <1>2 DEF Recurses
<1>. DEFINE e == [n \in 0 .. 0 |-> Step(f, << >>, {}, n)]
<1>4. e[0] = << >>
  BY DEF Step
<1>5. f = e
  BY <1>3
<1>. HIDE DEF e
<1>6. f[0] = << >>
  BY <1>4, <1>5
<1>7. {i \in DOMAIN << >> : << >>[i] \in these} = {}
  BY <1>1
<1>. QED  BY <1>2, <1>6, <1>7 DEF Kept

\* What is kept is a sequence over the same set.
LEMMA KeptIsSeq ==
  ASSUME NEW S, NEW s \in Seq(S), NEW these
  PROVE  Kept(s, these) \in Seq(S)
BY PickedMarks DEF Kept

\* One element alone.
LEMMA KeptOfOne ==
  ASSUME NEW x, NEW these
  PROVE  Kept(<<x>>, these) = IF x \in these THEN <<x>> ELSE << >>
<1>1. << >> \in Seq({x}) /\ Append(<< >>, x) = <<x>>
  OBVIOUS
<1>2. Kept(Append(<< >>, x), these)
        = IF x \in these THEN Append(Kept(<< >>, these), x) ELSE Kept(<< >>, these)
  <2>1. x \in {x}
    OBVIOUS
  <2>. QED  BY <1>1, <2>1, KeptOfAppend
<1>. QED  BY <1>1, <1>2, KeptOfNone

\* Appending to the second of two sequences appends to both together.
GrowsAtTheEnd(p, q, x) == Append(p \o q, x) = p \o Append(q, x)

\* It does, for every two sequences.
LEMMA JoinsGrow ==
  ASSUME NEW S, NEW p \in Seq(S), NEW q \in Seq(S), NEW x \in S
  PROVE  GrowsAtTheEnd(p, q, x)
<1>1. p \o q \in Seq(S) /\ <<x>> \in Seq(S)
  OBVIOUS
<1>2. Append(p \o q, x) = (p \o q) \o <<x>> /\ Append(q, x) = q \o <<x>>
  BY <1>1, AppendIsConcat
<1>. QED  BY <1>1, <1>2, ConcatAssociative DEF GrowsAtTheEnd

\* What is kept of two sequences one after the other.
KeepsBoth(s, t, these) == Kept(s \o t, these) = Kept(s, these) \o Kept(t, these)

\* It is what is kept of each, one after the other.
LEMMA KeptOfJoin ==
  ASSUME NEW S, NEW s \in Seq(S), NEW t \in Seq(S), NEW these
  PROVE  KeepsBoth(s, t, these)
<1>. DEFINE Bad == {n \in Nat : \E u \in Seq(S) :
                      Len(u) = n /\ Kept(s \o u, these) # Kept(s, these) \o Kept(u, these)}
<1>1. Bad = {}
  <2>. SUFFICES ASSUME Bad # {} PROVE FALSE
    OBVIOUS
  <2>1. PICK n \in Bad : \A k \in Bad : n <= k
    <3>. HIDE DEF Bad
    <3>1. Bad \in SUBSET Nat
      BY DEF Bad
    <3>. QED  BY <3>1, LeastMember
  <2>2. PICK u \in Seq(S) :
          Len(u) = n /\ Kept(s \o u, these) # Kept(s, these) \o Kept(u, these)
    OBVIOUS
  <2>3. Kept(s, these) \in Seq(S)
    BY KeptIsSeq
  <2>4. u # << >>
    <3>1. s \o << >> = s /\ Kept(s, these) \o << >> = Kept(s, these)
      BY <2>3, ConcatEmptySeq
    <3>. QED  BY <2>2, <3>1, KeptOfNone
  <2>5. PICK v \in Seq(S), x \in S : u = Append(v, x)
    BY <2>4, SequenceEmptyOrAppend
  <2>6. /\ Len(v) \in Nat /\ Len(v) = n - 1 /\ n \in Nat /\ ~(n <= Len(v))
        /\ s \o v \in Seq(S) /\ s \o u = Append(s \o v, x)
    <3>1. Len(u) = Len(v) + 1 /\ Len(v) \in Nat
      BY <2>5
    <3>2. s \o v \in Seq(S) /\ GrowsAtTheEnd(s, v, x)
      BY JoinsGrow
    <3>. QED  BY <2>2, <2>5, <3>1, <3>2 DEF GrowsAtTheEnd
  <2>7. Kept(s \o v, these) = Kept(s, these) \o Kept(v, these)
    BY <2>1, <2>6
  <2>8. /\ Kept(v, these) \in Seq(S)
        /\ Append(Kept(s, these) \o Kept(v, these), x) = Kept(s, these) \o Append(Kept(v, these), x)
    <3>1. Kept(v, these) \in Seq(S)
      BY KeptIsSeq
    <3>2. GrowsAtTheEnd(Kept(s, these), Kept(v, these), x)
      BY <2>3, <3>1, JoinsGrow
    <3>. QED  BY <3>1, <3>2 DEF GrowsAtTheEnd
  <2>. HIDE DEF Bad
  <2>9. /\ Kept(s \o u, these) = IF x \in these THEN Append(Kept(s \o v, these), x)
                                ELSE Kept(s \o v, these)
        /\ Kept(u, these) = IF x \in these THEN Append(Kept(v, these), x) ELSE Kept(v, these)
    <3>1. Kept(Append(s \o v, x), these) = IF x \in these THEN Append(Kept(s \o v, these), x)
                                          ELSE Kept(s \o v, these)
      BY <2>6, KeptOfAppend
    <3>2. Kept(Append(v, x), these) = IF x \in these THEN Append(Kept(v, these), x)
                                      ELSE Kept(v, these)
      BY KeptOfAppend
    <3>. QED  BY <2>5, <2>6, <3>1, <3>2
  <2>. QED  BY <2>2, <2>7, <2>8, <2>9
<1>2. Len(t) \in Nat /\ Len(t) \notin Bad
  BY <1>1
<1>. QED  BY <1>2 DEF KeepsBoth
=============================================================================
