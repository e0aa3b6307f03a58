---------------------------- MODULE PodRate_proofs ----------------------------
(***************************************************************************)
(* Proofs about PodRate, for every pool, address set, quota, store size and *)
(* clock resolution.                                                       *)
(***************************************************************************)
EXTENDS PodRate, FiniteSetTheorems, TLAPS

-----------------------------------------------------------------------------
(* Arithmetic of one bucket.                                               *)

\* The clamped quota and capacity are positive, and so are the ticks of a second.
LEMMA Sizes ==
  /\ Quota \in Nat /\ Quota >= 1
  /\ Cap \in Nat /\ Cap >= 1
  /\ G \in Nat /\ G >= 1
<1>. QED  BY StoreAssumption DEF Quota, Cap, AtLeastOne

\* A full bucket holds at least one token.
LEMMA FullSize == Full \in Nat /\ G <= Full
<1> DEFINE q == Quota
<1>1. q \in Nat /\ q >= 1 /\ G \in Nat /\ G >= 1
  BY Sizes
<1>2. q * G \in Nat /\ q * G >= G
  <2>. HIDE DEF q
  <2>. QED  BY <1>1
<1>. QED  BY <1>2 DEF Full

\* Time adds up, and so does what it refills.
LEMMA SupplyAddsUp ==
  ASSUME NEW x \in Int, NEW y \in Int, NEW z \in Int
  PROVE  /\ Supply(x, y) \in Int
         /\ Supply(x, y) + Supply(y, z) = Supply(x, z)
         /\ Supply(x, x) = 0
<1> DEFINE q == Quota
<1>1. q \in Int
  BY Sizes
<1> HIDE DEF q
<1>2. /\ q * (y - x) \in Int /\ q * (y - x) + q * (z - y) = q * (z - x)
      /\ q * (x - x) = 0
  BY <1>1
<1>. QED  BY <1>2 DEF q, Supply

\* Time that passes never takes tokens away.
LEMMA SupplyNonNegative ==
  ASSUME NEW x \in Int, NEW y \in Int, x <= y
  PROVE  Supply(x, y) \in Nat
<1> DEFINE q == Quota
           e == y - x
<1>1. q \in Nat /\ e \in Nat
  BY Sizes
<1> HIDE DEF q, e
<1>2. q * e \in Nat
  BY <1>1
<1>. QED  BY <1>2 DEF q, e, Supply

\* A refill keeps what was there, adds no more than the time that passed
\* allows, and stops only at a full bucket.
LEMMA RefillBounds ==
  ASSUME NEW b \in Bucket, NEW t \in Nat, b.last <= t
  PROVE  /\ Refill(b, t) \in 0 .. Full
         /\ Refill(b, t) >= b.tokens
         /\ Refill(b, t) <= b.tokens + Supply(b.last, t)
         /\ Refill(b, t) = Full \/ Refill(b, t) = b.tokens + Supply(b.last, t)
<1>1. Elapsed(t, b.last) = t - b.last
  BY DEF Elapsed, Bucket
<1>2. b.tokens \in 0 .. Full /\ b.last \in Nat
  BY DEF Bucket
<1>3. Supply(b.last, t) \in Nat
  BY <1>2, SupplyNonNegative
<1>. QED  BY <1>1, <1>2, <1>3, FullSize DEF Refill, Supply

\* `consume` takes exactly G, or nothing when less than G is left.
LEMMA SpendBounds ==
  ASSUME NEW a \in 0 .. Full
  PROVE  /\ Spend(a) \in 0 .. Full
         /\ Affords(a) => Spend(a) = a - G
         /\ ~Affords(a) => Spend(a) = a /\ a < G
<1>1. Full \in Nat /\ G \in Nat
  BY FullSize, Sizes
<1>. QED  BY <1>1 DEF Spend, Affords

\* The last refill of every bucket is in the past.
Timely(s, t) == \A ip \in Tracked(s) : s.bucket[ip].last <= t

\* What a source can spend lies between nothing and a full bucket.
LEMMA AvailableType ==
  ASSUME NEW s, StoreOK(s), NEW t \in Nat, Timely(s, t), NEW ip \in Ip
  PROVE  Available(s, ip, t) \in 0 .. Full
<1>1. CASE ip \in Tracked(s)
  <2>1. s.bucket[ip] \in Bucket /\ s.bucket[ip].last <= t
    BY <1>1 DEF StoreOK, Timely
  <2>. QED  BY <1>1, <2>1, RefillBounds DEF Available
<1>2. CASE ip \notin Tracked(s)
  BY <1>2, FullSize DEF Available
<1>. QED  BY <1>1, <1>2

-----------------------------------------------------------------------------
(* The store.                                                              *)

\* The victim is never the address being checked, and only an address that
\* was tracked is a victim.
LEMMA VictimIsOther ==
  ASSUME NEW s, StoreOK(s), NEW ip \in Ip
  PROVE  ip \notin Victim(s, ip)
<1>1. CASE ip \notin Tracked(s) /\ Len(s.recency) >= Cap
  <2>1. Len(s.recency) \in Nat /\ DOMAIN s.recency = 1 .. Len(s.recency)
    BY DEF StoreOK
  <2>2. Len(s.recency) \in DOMAIN s.recency
    BY <1>1, <2>1, Sizes
  <2>3. s.recency[Len(s.recency)] \in Tracked(s)
    BY <2>2 DEF StoreOK
  <2>. QED  BY <1>1, <2>3 DEF Victim
<1>2. CASE ~(ip \notin Tracked(s) /\ Len(s.recency) >= Cap)
  BY <1>2 DEF Victim
<1>. QED  BY <1>1, <1>2

\* The buckets after a check: the checked one is spent from, the victim's is
\* gone, the others are as they were.
LEMMA CheckedBuckets ==
  ASSUME NEW s, StoreOK(s), NEW t \in Nat, Timely(s, t), NEW ip \in Ip
  PROVE  /\ Tracked(Checked(s, ip, t)) = (Tracked(s) \ Victim(s, ip)) \cup {ip}
         /\ Checked(s, ip, t).bucket[ip] =
              [tokens |-> Spend(Available(s, ip, t)), last |-> t]
         /\ \A x \in Tracked(Checked(s, ip, t)) \ {ip} :
              x \in Tracked(s) /\ Checked(s, ip, t).bucket[x] = s.bucket[x]
         /\ Timely(Checked(s, ip, t), t)
         /\ Tracked(Checked(s, ip, t)) \subseteq Ip
         /\ Checked(s, ip, t).bucket \in [Tracked(Checked(s, ip, t)) -> Bucket]
<1> DEFINE T == (Tracked(s) \ Victim(s, ip)) \cup {ip}
           f == [x \in T |-> IF x = ip THEN [tokens |-> Spend(Available(s, ip, t)),
                                             last   |-> t]
                            ELSE s.bucket[x]]
           c == Checked(s, ip, t)
<1>1. c.bucket = f /\ Tracked(c) = T
  BY DEF Checked, Tracked
<1>2. Spend(Available(s, ip, t)) \in 0 .. Full
  BY AvailableType, SpendBounds
<1>3. \A x \in T : x # ip => x \in Tracked(s) /\ f[x] = s.bucket[x]
  OBVIOUS
<1>4. f[ip] = [tokens |-> Spend(Available(s, ip, t)), last |-> t]
  OBVIOUS
<1>5. \A x \in Tracked(s) : s.bucket[x] \in Bucket /\ s.bucket[x].last <= t
  BY DEF StoreOK, Timely
<1>6. f[ip] \in Bucket /\ f[ip].last = t
  BY <1>2, <1>4 DEF Bucket
<1>7. \A x \in T : f[x] \in Bucket /\ f[x].last <= t
  BY <1>3, <1>5, <1>6
<1>8. T \subseteq Ip
  BY DEF StoreOK
<1> HIDE DEF f, T, c
<1>9. f \in [T -> Bucket]
  <2>1. f = [x \in T |-> f[x]]
    BY DEF f
  <2>. QED  BY <1>7, <2>1
<1>10. \A x \in Tracked(c) : c.bucket[x].last <= t
  BY <1>1, <1>7
<1>11. ip \in T
  BY DEF T
<1>12. /\ Tracked(c) = T /\ T \subseteq Ip
       /\ c.bucket[ip] = [tokens |-> Spend(Available(s, ip, t)), last |-> t]
       /\ \A x \in Tracked(c) \ {ip} : x \in Tracked(s) /\ c.bucket[x] = s.bucket[x]
       /\ c.bucket \in [Tracked(c) -> Bucket]
  BY <1>1, <1>3, <1>4, <1>8, <1>9
<1>. QED  BY <1>10, <1>12 DEF c, T, Timely

\* The recency list after a check: bounded, without repetition, and about the
\* tracked addresses.
LEMMA CheckedRecency ==
  ASSUME NEW s, StoreOK(s), NEW t \in Nat, Timely(s, t), NEW ip \in Ip
  PROVE  LET c == Checked(s, ip, t) IN
         /\ c.recency \in Seq(Ip)
         /\ Len(c.recency) <= Cap
         /\ {c.recency[i] : i \in DOMAIN c.recency} = Tracked(c)
         /\ \A i, j \in DOMAIN c.recency :
               c.recency[i] = c.recency[j] => i = j
<1>0. Tracked(Checked(s, ip, t)) = (Tracked(s) \ Victim(s, ip)) \cup {ip}
  BY DEF Checked, Tracked
<1> DEFINE r == s.recency
           n == Len(r)
           p == Place(s, ip)
           m == IF p > n THEN p ELSE n
           q == [i \in 1 .. m |-> IF i = 1 THEN ip ELSE IF i <= p THEN r[i - 1] ELSE r[i]]
           T == (Tracked(s) \ Victim(s, ip)) \cup {ip}
<1>1. /\ r \in Seq(Ip) /\ n \in Nat /\ n <= Cap /\ DOMAIN r = 1 .. n
      /\ \A i \in 1 .. n : r[i] \in Ip /\ r[i] \in Tracked(s)
      /\ \A x \in Tracked(s) : \E i \in 1 .. n : r[i] = x
      /\ \A i, j \in 1 .. n : r[i] = r[j] => i = j
  BY DEF StoreOK
<1>2. Checked(s, ip, t).recency = q /\ Tracked(Checked(s, ip, t)) = T
  <2>1. Checked(s, ip, t).recency = MovedToFront(r, ip, p)
    BY DEF Checked
  <2>2. MovedToFront(r, ip, p) = q
    BY DEF MovedToFront
  <2>3. Tracked(Checked(s, ip, t)) = T
    BY <1>0
  <2>. QED  BY <2>1, <2>2, <2>3
<1>3. \/ /\ ip \in Tracked(s) /\ p \in 1 .. n /\ r[p] = ip /\ Victim(s, ip) = {}
      \/ /\ ip \notin Tracked(s) /\ n < Cap /\ p = n + 1 /\ Victim(s, ip) = {}
      \/ /\ ip \notin Tracked(s) /\ n = Cap /\ p = n /\ Victim(s, ip) = {r[n]}
  <2>1. CASE ip \in Tracked(s)
    <3>1. \E i \in DOMAIN r : r[i] = ip
      BY <1>1, <2>1
    <3>2. p = CHOOSE i \in DOMAIN r : r[i] = ip
      BY <2>1 DEF Place
    <3>3. p \in DOMAIN r /\ r[p] = ip
      BY <3>1, <3>2
    <3>. QED  BY <1>1, <2>1, <3>3 DEF Victim
  <2>2. CASE ip \notin Tracked(s) /\ n < Cap
    BY <1>1, <2>2, Sizes DEF Place, Victim
  <2>3. CASE ip \notin Tracked(s) /\ ~(n < Cap)
    BY <1>1, <2>3, Sizes DEF Place, Victim
  <2>. QED  BY <2>1, <2>2, <2>3
<1>4. Cap \in Nat /\ Cap >= 1
  BY Sizes
<1>5. p \in Nat /\ m \in Nat /\ p >= 1 /\ m >= 1 /\ p <= m /\ m <= Cap
  BY <1>1, <1>3, <1>4
<1>6. \A i \in 1 .. m : i # 1 /\ i <= p => i - 1 \in 1 .. n /\ i - 1 < p
  BY <1>1, <1>3, <1>5
<1>7. \A i \in 1 .. m : i > p => i \in 1 .. n
  BY <1>1, <1>3, <1>5
<1>8. \A i \in 1 .. n : r[i] = ip => i = p
  BY <1>1, <1>3
<1> DEFINE h(i) == IF i <= p THEN i - 1 ELSE i
<1>9. \A i \in 2 .. m : q[i] = r[h(i)] /\ h(i) \in 1 .. n /\ h(i) # p
  BY <1>5, <1>6, <1>7
<1>10. q[1] = ip /\ DOMAIN q = 1 .. m
  BY <1>5
<1>11. \A i, j \in 2 .. m : h(i) = h(j) => i = j
  BY <1>5
<1>12. \A i \in 1 .. n : i # p => \E j \in 2 .. m : h(j) = i
  <2>. SUFFICES ASSUME NEW i \in 1 .. n, i # p PROVE \E j \in 2 .. m : h(j) = i
    OBVIOUS
  <2>1. CASE i < p
    <3>1. i + 1 \in 2 .. m /\ h(i + 1) = i
      BY <1>1, <1>5, <2>1
    <3>. QED  BY <3>1
  <2>2. CASE i > p
    <3>1. i \in 2 .. m /\ h(i) = i
      BY <1>1, <1>5, <2>2
    <3>. QED  BY <3>1
  <2>. QED  BY <1>1, <1>5, <2>1, <2>2
<1>13. \A i \in 2 .. m : r[h(i)] # ip
  BY <1>8, <1>9
<1>14. \A i \in 1 .. m : i = 1 \/ i \in 2 .. m
  BY <1>5
<1>15. T \subseteq Ip
  BY DEF StoreOK
<1>16. \A i \in 2 .. m : r[h(i)] \in T
  <2>. SUFFICES ASSUME NEW i \in 2 .. m PROVE r[h(i)] \in T
    OBVIOUS
  <2>1. r[h(i)] \in Tracked(s) /\ h(i) \in 1 .. n /\ h(i) # p
    BY <1>1, <1>9
  <2>2. r[h(i)] \notin Victim(s, ip)
    BY <1>1, <1>3, <2>1
  <2>. QED  BY <2>1, <2>2
<1>17. \A x \in T : x = ip \/ \E i \in 1 .. n : i # p /\ r[i] = x
  <2>. SUFFICES ASSUME NEW x \in T, x # ip PROVE \E i \in 1 .. n : i # p /\ r[i] = x
    OBVIOUS
  <2>1. PICK i \in 1 .. n : r[i] = x
    BY <1>1
  <2>2. i # p
    BY <1>1, <1>3, <2>1
  <2>. QED  BY <2>1, <2>2
<1> HIDE DEF q, h, T, m, p, n, r
<1>18. q \in Seq(Ip) /\ Len(q) = m
  <2>1. \A i \in 1 .. m : q[i] \in Ip
    BY <1>1, <1>9, <1>10, <1>14
  <2>2. q = [i \in 1 .. m |-> q[i]]
    BY DEF q
  <2>3. q \in [1 .. m -> Ip]
    BY <2>1, <2>2
  <2>. QED  BY <1>5, <2>3
<1>19. \A i, j \in 1 .. m : q[i] = q[j] => i = j
  <2>1. \A i, j \in 2 .. m : q[i] = q[j] => i = j
    BY <1>1, <1>9, <1>11
  <2>2. \A i \in 2 .. m : q[i] # q[1]
    BY <1>9, <1>10, <1>13
  <2>. QED  BY <1>14, <2>1, <2>2
<1>20. \A i \in 1 .. m : q[i] \in T
  <2>1. ip \in T
    BY DEF T
  <2>. QED  BY <1>9, <1>10, <1>14, <1>16, <2>1
<1>21. \A x \in T : \E i \in 1 .. m : q[i] = x
  <2>. SUFFICES ASSUME NEW x \in T PROVE \E i \in 1 .. m : q[i] = x
    OBVIOUS
  <2>1. CASE x = ip
    BY <1>5, <1>10, <2>1
  <2>2. CASE x # ip
    <3>1. PICK i \in 1 .. n : i # p /\ r[i] = x
      BY <1>17, <2>2
    <3>2. PICK j \in 2 .. m : h(j) = i
      BY <1>12, <3>1
    <3>3. q[j] = x /\ j \in 1 .. m
      BY <1>9, <3>1, <3>2, <1>5
    <3>. QED  BY <3>3
  <2>. QED  BY <2>1, <2>2
<1>22. {q[i] : i \in DOMAIN q} = T
  BY <1>10, <1>20, <1>21
<1>. QED  BY <1>2, <1>5, <1>10, <1>18, <1>19, <1>22

\* A check keeps the store bounded and consistent.
LEMMA CheckedOK ==
  ASSUME NEW s, StoreOK(s), NEW t \in Nat, Timely(s, t), NEW ip \in Ip
  PROVE  StoreOK(Checked(s, ip, t))
<1> DEFINE c == Checked(s, ip, t)
<1>1. Tracked(c) \subseteq Ip /\ c.bucket \in [Tracked(c) -> Bucket]
  BY CheckedBuckets
<1>2. /\ c.recency \in Seq(Ip)
      /\ Len(c.recency) <= Cap
      /\ {c.recency[i] : i \in DOMAIN c.recency} = Tracked(c)
      /\ \A i, j \in DOMAIN c.recency : c.recency[i] = c.recency[j] => i = j
  BY CheckedRecency
<1> HIDE DEF c
<1>3. StoreOK(c)
  BY <1>1, <1>2 DEF StoreOK
<1>. QED  BY <1>3 DEF c

-----------------------------------------------------------------------------
(* The invariant.                                                          *)

\* The store at load: nothing tracked, nothing spent.
LEMMA InitIInv == Init => IInv
<1>. SUFFICES ASSUME Init PROVE IInv
  OBVIOUS
<1>1. PICK ip \in Ip : watch = NewWatch(ip, 0)
  BY DEF Init
<1>2. StoreOK(EmptyStore)
  <2>1. Tracked(EmptyStore) = {} /\ EmptyStore.recency = << >>
    BY DEF Tracked, EmptyStore
  <2>2. EmptyStore.bucket \in [{} -> Bucket]
    BY DEF EmptyStore
  <2>. QED  BY <2>1, <2>2, Sizes DEF StoreOK
<1>3. \A g \in Guests : stores[g] = EmptyStore /\ Tracked(stores[g]) = {}
  BY DEF Init, EmptyStore, Tracked
<1>4. watch \in Watch /\ watch.from = 0
  BY <1>1 DEF Watch, NewWatch
<1>5. TypeOK
  BY <1>2, <1>3, <1>4, PodAssumption DEF Init, TypeOK
<1>6. StoresOK /\ watch.from <= now
  BY <1>3, <1>4 DEF Init, StoresOK
<1>7. \A g \in Guests : SpentAtMost(g)
  BY <1>1 DEF SpentAtMost, NewWatch
<1>8. \A g \in Guests : SpentAtLeast(g) /\ RefusedIsEmpty(g)
  BY <1>3 DEF Init, SpentAtLeast, RefusedIsEmpty, Seen
<1>. QED  BY <1>5, <1>6, <1>7, <1>8 DEF IInv

\* The clock moves: nothing else does.
LEMMA TickIInv == IInv /\ Tick => IInv'
<1>. SUFFICES ASSUME IInv, Tick PROVE IInv'
  OBVIOUS
<1>1. now \in Nat /\ now' = now + 1 /\ now < MaxNow
  BY DEF IInv, TypeOK, Tick
<1>2. UNCHANGED <<stores, watch>> /\ refused' = {}
  BY DEF Tick
<1>3. TypeOK'
  BY <1>1, <1>2, PodAssumption DEF IInv, TypeOK
<1>4. StoresOK'
  <2>1. \A g \in Guests : \A ip \in Tracked(stores[g]) :
          stores[g].bucket[ip].last \in Nat /\ stores[g].bucket[ip].last <= now
    BY DEF IInv, TypeOK, StoreOK, StoresOK, Bucket
  <2>. QED  BY <1>1, <1>2, <2>1 DEF StoresOK
<1>5. (watch.from <= now)'
  <2>1. watch.from \in Nat /\ watch.from <= now
    BY DEF IInv, TypeOK, Watch
  <2>. QED  BY <1>1, <1>2, <2>1
<1>6. \A g \in Guests : SpentAtMost(g)' /\ SpentAtLeast(g)'
  BY <1>2 DEF IInv, SpentAtMost, SpentAtLeast, Seen, BucketOf
<1>7. \A g \in Guests : RefusedIsEmpty(g)'
  BY <1>2 DEF RefusedIsEmpty
<1>. QED  BY <1>3, <1>4, <1>5, <1>6, <1>7 DEF IInv

\* A new observer has counted nothing.
LEMMA RestartIInv == IInv /\ Restart => IInv'
<1>. SUFFICES ASSUME IInv, Restart PROVE IInv'
  OBVIOUS
<1>1. UNCHANGED <<stores, now>> /\ refused' = {} /\ watch' = NewWatch(watch.ip, now)
  BY DEF Restart
<1>2. watch.ip \in Ip /\ now \in Nat
  BY DEF IInv, TypeOK, Watch
<1>3. watch' \in Watch /\ watch'.from = now /\ watch'.ip = watch.ip
  BY <1>1, <1>2 DEF Watch, NewWatch
<1>4. TypeOK' /\ StoresOK' /\ (watch.from <= now)'
  BY <1>1, <1>2, <1>3 DEF IInv, TypeOK, StoresOK
<1>5. \A g \in Guests : SpentAtMost(g)'
  BY <1>1 DEF SpentAtMost, NewWatch
<1>6. \A g \in Guests : SpentAtLeast(g)'
  <2>. SUFFICES ASSUME NEW g \in Guests, Seen(g)', (watch.from <= BucketOf(g).last)'
                PROVE  (watch.granted[g] * G + BucketOf(g).tokens
                          >= Supply(watch.from, BucketOf(g).last))'
    BY DEF SpentAtLeast
  <2>1. Seen(g) /\ BucketOf(g)' = BucketOf(g)
    BY <1>1, <1>3 DEF Seen, BucketOf
  <2>2. BucketOf(g) \in Bucket /\ BucketOf(g).last <= now
    BY <2>1 DEF Seen, BucketOf, IInv, TypeOK, StoreOK, StoresOK
  <2>3. BucketOf(g).last = now /\ BucketOf(g).tokens \in Nat
    BY <1>2, <1>3, <2>1, <2>2, FullSize DEF Bucket
  <2>4. watch'.granted[g] = 0
    BY <1>1 DEF NewWatch
  <2>5. Supply(now, now) = 0 /\ 0 * G = 0
    BY <1>2, Sizes, SupplyAddsUp
  <2>. QED  BY <1>3, <2>1, <2>3, <2>4, <2>5
<1>7. \A g \in Guests : RefusedIsEmpty(g)'
  BY <1>1 DEF RefusedIsEmpty
<1>. QED  BY <1>4, <1>5, <1>6, <1>7 DEF IInv

\* A request: the upper bound counts what the bucket gave since the window
\* began, the lower bound what it must have given before it was empty.
LEMMA ServeIInv ==
  ASSUME NEW g \in Guests, NEW ip \in Ip, IInv, Serve(g, ip)
  PROVE  IInv'
<1> DEFINE s == stores[g]
           c == Checked(s, ip, now)
           w == watch.ip
<1>1. /\ StoreOK(s) /\ now \in Nat /\ Timely(s, now)
      /\ DOMAIN stores = Guests /\ watch \in Watch
      /\ watch.from \in Nat /\ watch.from <= now
  BY DEF IInv, TypeOK, StoresOK, Timely, Watch
<1>2. /\ stores' = [stores EXCEPT ![g] = c] /\ now' = now
      /\ refused' = IF ip = w /\ ~Allows(s, ip, now) THEN {g} ELSE {}
      /\ watch' = [watch EXCEPT
           !.granted[g] = IF ip = w /\ Allows(s, ip, now) THEN @ + 1 ELSE @,
           !.pod        = IF ip = w /\ Allows(s, ip, now) THEN @ + 1 ELSE @,
           !.kept[g]    = @ /\ w \notin Victim(s, ip)]
  BY DEF Serve
<1>3. /\ stores'[g] = c
      /\ DOMAIN stores' = Guests
      /\ \A k \in Guests : k # g => stores'[k] = stores[k]
  BY <1>1, <1>2
<1>4. /\ watch'.ip = w /\ watch'.from = watch.from
      /\ watch'.granted[g] = IF ip = w /\ Allows(s, ip, now)
                             THEN watch.granted[g] + 1 ELSE watch.granted[g]
      /\ watch'.kept[g] = (watch.kept[g] /\ w \notin Victim(s, ip))
      /\ \A k \in Guests : k # g => /\ watch'.granted[k] = watch.granted[k]
                                    /\ watch'.kept[k] = watch.kept[k]
  BY <1>1, <1>2 DEF Watch
<1>5. watch' \in Watch
  <2>1. /\ watch.granted \in [Guests -> Nat] /\ watch.pod \in Nat
        /\ watch.kept \in [Guests -> BOOLEAN] /\ w \in Ip
    BY <1>1 DEF Watch
  <2>2. DOMAIN watch = {"ip", "from", "granted", "pod", "kept"}
    BY <1>1 DEF Watch
  <2>3. /\ watch'.granted \in [Guests -> Nat] /\ watch'.pod \in Nat
        /\ watch'.kept \in [Guests -> BOOLEAN]
    BY <1>2, <2>1, <2>2
  <2>4. watch' = [ip |-> watch'.ip, from |-> watch'.from, granted |-> watch'.granted,
                  pod |-> watch'.pod, kept |-> watch'.kept]
    BY <1>2, <2>2
  <2>. QED  BY <1>1, <1>4, <2>1, <2>3, <2>4 DEF Watch
<1>6. StoreOK(c)
  BY <1>1, CheckedOK
<1>7. Timely(c, now)
  BY <1>1, CheckedBuckets
<1> HIDE DEF c
<1>8. TypeOK'
  <2>1. \A k \in Guests : StoreOK(stores'[k])
    BY <1>3, <1>6 DEF IInv, TypeOK
  <2>2. refused' \in SUBSET Guests
    BY <1>2
  <2>3. now' \in 0 .. MaxNow
    BY <1>2 DEF IInv, TypeOK
  <2>. QED  BY <1>3, <1>5, <2>1, <2>2, <2>3 DEF TypeOK
<1>9. StoresOK'
  <2>1. \A k \in Guests : \A x \in Tracked(stores'[k]) : stores'[k].bucket[x].last <= now
    BY <1>3, <1>7 DEF IInv, StoresOK, Timely
  <2>. QED  BY <1>2, <2>1 DEF StoresOK
<1>10. \A k \in Guests : k # g =>
         SpentAtMost(k)' /\ SpentAtLeast(k)' /\ RefusedIsEmpty(k)'
  <2>. SUFFICES ASSUME NEW k \in Guests, k # g
                PROVE  SpentAtMost(k)' /\ SpentAtLeast(k)' /\ RefusedIsEmpty(k)'
    OBVIOUS
  <2>1. /\ Seen(k)' <=> Seen(k)
        /\ BucketOf(k)' = BucketOf(k)
        /\ watch'.granted[k] = watch.granted[k] /\ watch'.kept[k] = watch.kept[k]
    BY <1>3, <1>4 DEF Seen, BucketOf
  <2>2. SpentAtMost(k)' /\ SpentAtLeast(k)'
    BY <1>4, <2>1 DEF IInv, SpentAtMost, SpentAtLeast
  <2>3. k \notin refused'
    BY <1>2
  <2>. QED  BY <2>2, <2>3 DEF RefusedIsEmpty
<1>11. CASE ip # w
  <2>1. \/ /\ w \in Victim(s, ip) /\ ~watch'.kept[g] /\ ~Seen(g)'
        \/ /\ watch'.kept[g] = watch.kept[g] /\ (Seen(g)' <=> Seen(g))
    <3>1. Tracked(c) = (Tracked(s) \ Victim(s, ip)) \cup {ip}
      BY DEF c, Checked, Tracked
    <3>2. watch.kept[g] \in BOOLEAN
      BY <1>1 DEF Watch
    <3>. QED  BY <1>3, <1>4, <1>11, <3>1, <3>2 DEF Seen
  <2>2. Seen(g)' => /\ Seen(g)
                    /\ BucketOf(g)' = BucketOf(g)
    <3>1. \A x \in Tracked(c) \ {ip} : x \in Tracked(s) /\ c.bucket[x] = s.bucket[x]
      BY ZenonT(60), <1>1, CheckedBuckets DEF c
    <3>. QED  BY <1>3, <1>4, <1>11, <3>1 DEF Seen, BucketOf
  <2>3. watch'.granted[g] = watch.granted[g]
    BY <1>4, <1>11
  <2>4. SpentAtMost(g)'
    BY <1>4, <2>1, <2>2, <2>3 DEF IInv, SpentAtMost
  <2>5. SpentAtLeast(g)'
    BY <1>4, <2>2, <2>3 DEF IInv, SpentAtLeast
  <2>6. RefusedIsEmpty(g)'
    BY <1>2, <1>11 DEF RefusedIsEmpty
  <2>. QED  BY <1>5, <1>8, <1>9, <1>10, <1>2, <1>1, <1>4, <2>4, <2>5, <2>6 DEF IInv
<1>12. CASE ip = w
  <2> DEFINE a == Available(s, w, now)
             n == watch.granted[g]
             f == watch.from
  <2>1. a \in 0 .. Full /\ Full \in Nat /\ G \in Nat /\ G >= 1 /\ G <= Full
    BY <1>1, <1>12, AvailableType, FullSize, Sizes
  <2>2. n \in Nat /\ f \in Nat /\ f <= now
    BY <1>1 DEF Watch
  <2>3. /\ Seen(g)' /\ BucketOf(g)' = [tokens |-> Spend(a), last |-> now]
    <3>1. w \in Tracked(c) /\ c.bucket[w] = [tokens |-> Spend(a), last |-> now]
      BY <1>1, <1>12, CheckedBuckets DEF c
    <3>. QED  BY <1>3, <1>4, <3>1 DEF Seen, BucketOf
  <2>4. w \notin Victim(s, w)
    BY <1>1, <1>12, VictimIsOther
  <2>5. watch'.kept[g] = watch.kept[g]
    BY <1>4, <1>12, <2>4, <1>1 DEF Watch
  <2>6. \/ /\ Affords(a) /\ watch'.granted[g] = n + 1 /\ Spend(a) = a - G
           /\ refused' = {}
        \/ /\ ~Affords(a) /\ watch'.granted[g] = n /\ Spend(a) = a /\ a < G
           /\ refused' = {g}
    BY <1>2, <1>4, <1>12, <2>1, SpendBounds DEF Allows
  <2>7. watch'.granted[g] * G + Spend(a) = n * G + a
    <3>1. (n + 1) * G = n * G + G /\ n * G \in Int
      BY <2>1, <2>2
    <3>. QED  BY <2>1, <2>6, <3>1
  <2>8. /\ Supply(f, now) \in Nat
        /\ n * G \in Nat
    <3>1. Supply(f, now) \in Nat
      BY <1>1, <2>2, SupplyNonNegative
    <3>. QED  BY <2>1, <2>2, <3>1
  <2>9. Seen(g) => /\ BucketOf(g) \in Bucket /\ BucketOf(g).last <= now
                   /\ a = Refill(BucketOf(g), now)
    BY <1>1 DEF Seen, BucketOf, StoreOK, Timely, Available
  <2>10. ~Seen(g) => a = Full
    BY DEF Seen, Available
  <2>11. SpentAtMost(g)'
    <3>. SUFFICES ASSUME watch.kept[g] PROVE n * G + a <= Full + Supply(f, now)
      BY <1>1, <1>4, <2>2, <2>3, <2>5, <2>7 DEF SpentAtMost
    <3>1. CASE n = 0
      <4>1. 0 * G = 0
        BY <2>1
      <4>. QED  BY <2>1, <2>8, <3>1, <4>1
    <3>2. CASE n # 0
      <4> DEFINE b == BucketOf(g)
                 l == b.last
      <4>1. Seen(g) /\ f <= l /\ n * G + b.tokens <= Full + Supply(f, l)
        BY <3>2 DEF IInv, SpentAtMost
      <4>2. b \in Bucket /\ l \in Nat /\ l <= now /\ a = Refill(b, now)
        BY <2>9, <4>1 DEF Bucket
      <4>3. a <= b.tokens + Supply(l, now)
        BY <1>1, <4>2, RefillBounds
      <4>4. b.tokens \in Nat
        BY <2>1, <4>2 DEF Bucket
      <4> HIDE DEF b, l
      <4>5. /\ Supply(l, now) \in Int /\ Supply(f, l) \in Int
            /\ Supply(f, l) + Supply(l, now) = Supply(f, now)
        <5>1. f \in Int /\ l \in Int /\ now \in Int
          BY <1>1, <2>2, <4>2
        <5>. HIDE DEF f
        <5>. QED  BY <5>1, SupplyAddsUp
      <4> DEFINE A == Supply(l, now)
                 B == Supply(f, l)
                 C == Supply(f, now)
                 D == n * G
      <4>6. /\ A \in Int /\ B \in Int /\ A + B = C /\ D \in Nat
            /\ a <= b.tokens + A /\ D + b.tokens <= Full + B
        BY <2>8, <4>1, <4>3, <4>5 DEF b, l
      <4>7. D + a <= Full + C
        <5> HIDE DEF A, B, C, D, a
        <5>. QED  BY <2>1, <4>4, <4>6
      <4>. QED  BY <4>7
    <3>. QED  BY <3>1, <3>2
  <2>12. SpentAtLeast(g)'
    <3>. SUFFICES n * G + a >= Full \/ n * G + a >= Supply(f, now)
      BY <1>1, <1>4, <2>3, <2>7 DEF SpentAtLeast
    <3>1. CASE a = Full
      BY <2>1, <2>8, <3>1
    <3>2. CASE a # Full
      <4> DEFINE b == BucketOf(g)
                 l == b.last
      <4>1. Seen(g)
        BY <2>10, <3>2
      <4>2. b \in Bucket /\ l \in Nat /\ l <= now /\ a = Refill(b, now)
        BY <2>9, <4>1 DEF Bucket
      <4>3. a = b.tokens + Supply(l, now)
        BY <1>1, <3>2, <4>2, RefillBounds
      <4>4. b.tokens \in Nat
        BY <2>1, <4>2 DEF Bucket
      <4>5. f <= l => \/ n * G + b.tokens >= Full
                      \/ n * G + b.tokens >= Supply(f, l)
        BY <4>1 DEF IInv, SpentAtLeast
      <4> HIDE DEF b, l
      <4>6. /\ Supply(l, now) \in Nat /\ Supply(f, l) \in Int
            /\ Supply(f, l) + Supply(l, now) = Supply(f, now)
        <5>1. f \in Int /\ l \in Int /\ now \in Int /\ l <= now
          BY <1>1, <2>2, <4>2
        <5>. HIDE DEF f
        <5>. QED  BY <5>1, SupplyAddsUp, SupplyNonNegative
      <4>7. ~(f <= l) => Supply(f, l) <= 0
        <5>. SUFFICES ASSUME ~(f <= l) PROVE Supply(f, l) <= 0
          OBVIOUS
        <5>1. Supply(l, f) \in Nat /\ Supply(f, l) + Supply(l, f) = Supply(l, l)
          <6>1. f \in Int /\ l \in Int /\ l <= f
            BY <2>2, <4>2
          <6>. HIDE DEF f
          <6>. QED  BY <6>1, SupplyAddsUp, SupplyNonNegative
        <5>2. Supply(l, l) = 0
          BY <4>2, SupplyAddsUp
        <5>. QED  BY <4>6, <5>1, <5>2
      <4> DEFINE A == Supply(l, now)
                 B == Supply(f, l)
                 C == Supply(f, now)
                 D == n * G
      <4>8. /\ A \in Nat /\ B \in Int /\ A + B = C /\ D \in Nat
            /\ a = b.tokens + A
            /\ \/ D + b.tokens >= Full
               \/ D + b.tokens >= B
               \/ B <= 0
        BY <2>8, <4>3, <4>5, <4>6, <4>7 DEF b, l
      <4>9. D + a >= Full \/ D + a >= C
        <5> HIDE DEF A, B, C, D, a
        <5>. QED  BY <2>1, <4>4, <4>8
      <4>. QED  BY <4>9
    <3>. QED  BY <3>1, <3>2
  <2>13. RefusedIsEmpty(g)'
    BY <1>2, <2>3, <2>6 DEF RefusedIsEmpty
  <2>14. (watch.from <= now)'
    BY <1>1, <1>2, <1>4
  <2>. QED  BY <1>8, <1>9, <1>10, <2>11, <2>12, <2>13, <2>14 DEF IInv
<1>. QED  BY <1>11, <1>12

-----------------------------------------------------------------------------
(* The theorems.                                                           *)

\* The invariant holds of every run, whatever the pool and the quota.
THEOREM InductiveInvariant == Spec => []IInv
<1>1. Init => IInv
  BY InitIInv
<1>2. IInv /\ [Next]_vars => IInv'
  <2>. SUFFICES ASSUME IInv, [Next]_vars PROVE IInv'
    OBVIOUS
  <2>1. CASE Tick
    BY <2>1, TickIInv
  <2>2. CASE Restart
    BY <2>2, RestartIInv
  <2>3. ASSUME NEW g \in Guests, NEW ip \in Ip, Serve(g, ip) PROVE IInv'
    BY <2>3, ServeIInv
  <2>4. CASE UNCHANGED vars
    BY <2>4 DEF vars, IInv, TypeOK, StoresOK, SpentAtMost, SpentAtLeast,
                RefusedIsEmpty, Seen, BucketOf
  <2>. QED  BY <2>1, <2>2, <2>3, <2>4 DEF Next
<1>. QED  BY <1>1, <1>2, PTL DEF Spec

\* Type correctness, with every store bounded by Cap and its list and its
\* buckets about the same addresses (reputation.rs:151-183).
THEOREM StoresStayBounded == Spec => []TypeOK
<1>1. IInv => TypeOK
  BY DEF IInv
<1>. QED  BY <1>1, InductiveInvariant, PTL

\* The per-guest rate, over every window of time (reputation.rs:188-215).
THEOREM RateIsBounded == Spec => []RateBounded
<1>1. IInv => RateBounded
  <2>. SUFFICES ASSUME IInv, NEW g \in Guests, watch.kept[g]
                PROVE  watch.granted[g] * G <= Full + Supply(watch.from, now)
    BY DEF RateBounded
  <2>1. /\ Full \in Nat /\ G \in Nat /\ now \in Nat
        /\ watch.from \in Nat /\ watch.from <= now /\ watch.granted[g] \in Nat
    BY FullSize, Sizes DEF IInv, TypeOK, Watch
  <2>2. Supply(watch.from, now) \in Nat
    BY <2>1, SupplyNonNegative
  <2>3. CASE watch.granted[g] = 0
    <3>1. 0 * G = 0
      BY <2>1
    <3>. QED  BY <2>1, <2>2, <2>3, <3>1
  <2>4. CASE watch.granted[g] # 0
    <3> DEFINE l == BucketOf(g).last
               f == watch.from
               D == watch.granted[g] * G
    <3>1. /\ Seen(g) /\ f <= l
          /\ D + BucketOf(g).tokens <= Full + Supply(f, l)
      BY <2>4 DEF IInv, SpentAtMost
    <3>2. BucketOf(g).tokens \in Nat /\ l \in Nat /\ l <= now
      BY <2>1, <3>1 DEF Seen, BucketOf, IInv, TypeOK, StoresOK, StoreOK, Bucket
    <3>3. D \in Nat
      BY <2>1
    <3>4. f \in Int /\ l \in Int /\ now \in Int
      BY <2>1, <3>2
    <3> HIDE DEF l, f, D
    <3>5. Supply(f, l) \in Int /\ Supply(l, now) \in Nat
          /\ Supply(f, l) + Supply(l, now) = Supply(f, now)
      BY <3>2, <3>4, SupplyAddsUp, SupplyNonNegative
    <3>6. D <= Full + Supply(f, now)
      BY <2>1, <3>1, <3>2, <3>3, <3>5
    <3>. QED  BY <3>6 DEF D, f
  <2>. QED  BY <2>3, <2>4
<1>. QED  BY <1>1, InductiveInvariant, PTL

\* No early refusal, over every window of a second or more
\* (reputation.rs:188-225).
THEOREM NoEarlyRefusal == Spec => []NeverLimitedEarly
<1>1. IInv => NeverLimitedEarly
  <2>. SUFFICES ASSUME IInv, NEW g \in refused, now - watch.from >= G
                PROVE  watch.granted[g] >= Quota
    BY DEF NeverLimitedEarly
  <2>1. g \in Guests
    BY DEF IInv, TypeOK
  <2> DEFINE n == watch.granted[g]
             q == Quota
             e == now - watch.from
             k == BucketOf(g).tokens
  <2>2. /\ q \in Nat /\ q >= 1 /\ G \in Nat /\ G >= 1 /\ n \in Nat
        /\ e \in Int /\ e >= G /\ now \in Nat /\ watch.from \in Nat
    BY <2>1, Sizes DEF IInv, TypeOK, Watch
  <2>3. Seen(g) /\ BucketOf(g).last = now /\ k < G
    BY <2>1 DEF IInv, RefusedIsEmpty
  <2>4. k \in Nat
    BY <2>1, <2>3, FullSize DEF Seen, BucketOf, IInv, TypeOK, StoreOK, Bucket
  <2>5. watch.from <= BucketOf(g).last
    BY <2>2, <2>3
  <2>6. n * G + k >= q * G \/ n * G + k >= q * e
    BY <2>1, <2>3, <2>5 DEF IInv, SpentAtLeast, Supply, Full
  <2> HIDE DEF n, q, e, k
  <2>7. q * e >= q * G
    BY <2>2
  <2>8. n * G + k >= q * G
    BY <2>2, <2>4, <2>6, <2>7
  <2>9. n >= q
    <3>. SUFFICES ASSUME n <= q - 1 PROVE FALSE
      BY <2>2
    <3>1. n * G <= (q - 1) * G
      BY <2>2
    <3>2. (q - 1) * G = q * G - G
      BY <2>2
    <3>. QED  BY <2>2, <2>3, <2>4, <2>8, <3>1, <3>2 DEF k
  <2>. QED  BY <2>9 DEF n, q
<1>. QED  BY <1>1, InductiveInvariant, PTL

-----------------------------------------------------------------------------
(* The pod.  What it has allowed is the number of grants, counted as pairs of *)
(* a guest and the how-manieth request it allowed.                         *)

Grants == {c \in Guests \X (Nat \ {0}) : c[2] <= watch.granted[c[1]]}

PodInv == IsFiniteSet(Grants) /\ watch.pod = Cardinality(Grants)

\* As many guests as there are, and none with more grants than n.
LEMMA GrantsOfAll ==
  ASSUME NEW n \in Nat, watch \in Watch,
         \A g \in Guests : watch.granted[g] <= n
  PROVE  /\ IsFiniteSet(Grants) /\ Cardinality(Grants) \in Nat
         /\ Cardinality(Grants) <= Cardinality(Guests) * n
<1>1. Grants \in SUBSET (Guests \X (1 .. n))
  <2>. SUFFICES ASSUME NEW c \in Grants PROVE c \in Guests \X (1 .. n)
    OBVIOUS
  <2>1. c \in Guests \X (Nat \ {0}) /\ c[2] <= watch.granted[c[1]]
    BY DEF Grants
  <2>2. PICK g \in Guests, k \in Nat \ {0} : c = <<g, k>>
    BY <2>1
  <2>3. watch.granted[g] \in Nat
    BY DEF Watch
  <2>4. k <= watch.granted[g] /\ watch.granted[g] <= n
    BY <2>1, <2>2
  <2>5. k \in 1 .. n
    BY <2>2, <2>3, <2>4
  <2>. QED  BY <2>2, <2>5
<1>2. IsFiniteSet(1 .. n) /\ Cardinality(1 .. n) = n
  BY FS_Interval
<1>3. /\ IsFiniteSet(Guests \X (1 .. n))
      /\ Cardinality(Guests \X (1 .. n)) = Cardinality(Guests) * n
  BY <1>2, FS_Product, PodAssumption
<1>. QED  BY <1>1, <1>3, FS_Subset, FS_CardinalityType

\* An observer that has just begun has seen no grant.
LEMMA NoGrants ==
  ASSUME \A g \in Guests : watch.granted[g] = 0, watch.pod = 0
  PROVE  PodInv
<1>1. Grants = {}
  BY DEF Grants
<1>. QED  BY <1>1, FS_EmptySet DEF PodInv

\* A request adds the one grant it is given, and changes no other.
LEMMA ServePodInv ==
  ASSUME NEW g \in Guests, NEW ip \in Ip, TypeOK, PodInv, Serve(g, ip)
  PROVE  PodInv'
<1> DEFINE given == ip = watch.ip /\ Allows(stores[g], ip, now)
           grant == <<g, watch.granted[g] + 1>>
<1>1. watch.granted \in [Guests -> Nat] /\ watch.pod \in Nat
  BY DEF TypeOK, Watch
<1>2. /\ watch'.pod = IF given THEN watch.pod + 1 ELSE watch.pod
      /\ watch'.granted[g] = IF given THEN watch.granted[g] + 1 ELSE watch.granted[g]
      /\ \A k \in Guests : k # g => watch'.granted[k] = watch.granted[k]
  BY <1>1 DEF Serve, TypeOK, Watch
<1>. HIDE DEF given
<1>3. CASE ~given
  <2>1. \A k \in Guests : watch'.granted[k] = watch.granted[k]
    BY <1>2, <1>3
  <2>2. Grants' = Grants
    BY <2>1 DEF Grants
  <2>. QED  BY <1>2, <1>3, <2>2 DEF PodInv
<1>4. CASE given
  <2>1. grant \notin Grants
    BY <1>1 DEF Grants
  <2>2. Grants' = Grants \cup {grant}
    <3>1. ASSUME NEW c \in Guests \X (Nat \ {0})
          PROVE  c[2] <= watch'.granted[c[1]]
                   <=> (c[2] <= watch.granted[c[1]] \/ c = grant)
      BY <1>1, <1>2, <1>4
    <3>2. grant \in Guests \X (Nat \ {0})
      BY <1>1
    <3>. QED  BY <3>1, <3>2 DEF Grants
  <2>3. /\ IsFiniteSet(Grants \cup {grant})
        /\ Cardinality(Grants \cup {grant}) = Cardinality(Grants) + 1
    BY <2>1, FS_AddElement DEF PodInv
  <2>. QED  BY <1>2, <1>4, <2>2, <2>3 DEF PodInv
<1>. QED  BY <1>3, <1>4

\* The pod's count is true in every run.
THEOREM PodCountsGrants == Spec => [](IInv /\ PodInv)
<1>1. Init => IInv /\ PodInv
  <2>. SUFFICES ASSUME Init PROVE PodInv
    BY InitIInv
  <2>. QED  BY NoGrants DEF Init, NewWatch
<1>2. (IInv /\ PodInv) /\ IInv' /\ [Next]_vars => (IInv /\ PodInv)'
  <2>. SUFFICES ASSUME IInv, PodInv, [Next]_vars PROVE PodInv'
    OBVIOUS
  <2>1. ASSUME NEW g \in Guests, NEW ip \in Ip, Serve(g, ip) PROVE PodInv'
    BY <2>1, ServePodInv DEF IInv
  <2>2. CASE Restart
    <3>1. watch'.pod = 0 /\ \A g \in Guests : watch'.granted[g] = 0
      BY <2>2 DEF Restart, NewWatch
    <3>2. Grants' = {}
      BY <3>1 DEF Grants
    <3>. QED  BY <3>1, <3>2, FS_EmptySet DEF PodInv
  <2>3. CASE UNCHANGED watch
    BY <2>3 DEF PodInv, Grants
  <2>. QED  BY <2>1, <2>2, <2>3 DEF Next, Tick, vars
<1>. QED  BY <1>1, <1>2, InductiveInvariant, PTL DEF Spec

\* What the guests of a pod allow together: one bucket and one refill for each,
\* and no more (entry.rs:58, reputation.rs:188-215).
THEOREM PodIsBounded == Spec => []PodBounded
<1>1. IInv /\ PodInv /\ RateBounded => PodBounded
  <2>. SUFFICES ASSUME IInv, PodInv, RateBounded, \A g \in Guests : watch.kept[g]
                PROVE  watch.pod * G
                         <= Cardinality(Guests) * (Full + Supply(watch.from, now))
    BY DEF PodBounded
  <2> DEFINE budget == Full + Supply(watch.from, now)
             most   == budget \div G
             pool   == Cardinality(Guests)
  <2>1. budget \in Nat /\ G \in Nat /\ G >= 1 /\ pool \in Nat
    <3>1. Supply(watch.from, now) \in Nat
      BY SupplyNonNegative DEF IInv, TypeOK, Watch
    <3>. QED  BY <3>1, FullSize, Sizes, PodAssumption, FS_CardinalityType
  <2>2. \A g \in Guests : watch.granted[g] \in Nat /\ watch.granted[g] * G <= budget
    BY DEF RateBounded, IInv, TypeOK, Watch
  <2>. HIDE DEF budget, pool
  <2>3. most \in Nat /\ most * G <= budget /\ budget < (most + 1) * G
    BY <2>1
  <2>. HIDE DEF most
  <2>4. ASSUME NEW g \in Guests PROVE watch.granted[g] <= most
    <3> DEFINE n == watch.granted[g]
    <3>1. n \in Nat /\ n * G <= budget
      BY <2>2
    <3>. HIDE DEF n
    <3>2. ASSUME n >= most + 1 PROVE FALSE
      <4>1. n * G >= (most + 1) * G
        BY <2>1, <2>3, <3>1, <3>2
      <4>2. n * G \in Int /\ (most + 1) * G \in Int
        BY <2>1, <2>3, <3>1
      <4>. QED  BY <2>1, <2>3, <3>1, <4>1, <4>2
    <3>3. n <= most
      BY <2>3, <3>1, <3>2
    <3>. QED  BY <3>3 DEF n
  <2>5. watch.pod \in Nat /\ watch.pod <= pool * most
    BY <2>3, <2>4, GrantsOfAll DEF PodInv, pool, IInv, TypeOK
  <2>6. watch.pod * G <= (pool * most) * G
    BY <2>1, <2>3, <2>5
  <2>7. (pool * most) * G = pool * (most * G) /\ pool * (most * G) <= pool * budget
    BY <2>1, <2>3
  <2>8. watch.pod * G <= pool * budget
    <3>1. /\ watch.pod * G \in Int /\ (pool * most) * G \in Int /\ pool * budget \in Int
      BY <2>1, <2>3, <2>5
    <3>. QED  BY <2>6, <2>7, <3>1
  <2>. QED  BY <2>8 DEF budget, pool
<1>. QED  BY <1>1, PodCountsGrants, RateIsBounded, PTL
=============================================================================
