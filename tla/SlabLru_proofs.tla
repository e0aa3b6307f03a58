--------------------------- MODULE SlabLru_proofs ---------------------------
(***************************************************************************)
(* Proofs about the limiter as it is built.  The recency list is described by *)
(* a ghost: the slots in the order in which `next` leads through them.  The   *)
(* links hold exactly what that order says, unlink takes a slot out of it and *)
(* push_front puts one before it, and so every check moves one slot to the    *)
(* front, as the abstract store does with its addresses.                     *)
(***************************************************************************)
EXTENDS SlabLru, Picks_proofs

Index == UNION {[T -> Slot \ {NIL}] : T \in SUBSET Ip}

Lru == [index : Index, slab : Seq(Node), head : Slot, tail : Slot]

\* The bounds are numbers above zero.
LEMMA Bounds == Cap \in Nat \ {0} /\ Full \in Nat /\ Quota \in Nat \ {0} /\ NIL = 0
<1>1. Cap \in Nat \ {0} /\ Quota \in Nat \ {0}
  BY StoreAssumption DEF Cap, Quota, AtLeastOne
<1>2. \A a, b \in Nat : a * b \in Nat
  OBVIOUS
<1>. QED  BY <1>1, <1>2, StoreAssumption DEF Full, NIL

\* What the slots are, and the structure's parts.
LEMMA Parts ==
  ASSUME NEW l \in Lru
  PROVE  /\ l.index \in Index /\ l.slab \in Seq(Node) /\ l.head \in Slot /\ l.tail \in Slot
         /\ Len(l.slab) \in Nat /\ DOMAIN l.slab = 1 .. Len(l.slab)
         /\ \A s \in 1 .. Len(l.slab) : l.slab[s] \in Node
         /\ DOMAIN l = {"index", "slab", "head", "tail"}
<1>1. /\ l.index \in Index /\ l.slab \in Seq(Node) /\ l.head \in Slot /\ l.tail \in Slot
      /\ DOMAIN l = {"index", "slab", "head", "tail"}
  BY DEF Lru
<1>. QED  BY <1>1, ElementOfSeq

\* A function on the first numbers is a sequence.
LEMMA MakesSeq ==
  ASSUME NEW S, NEW n \in Nat, NEW f \in [1 .. n -> S]
  PROVE  f \in Seq(S) /\ Len(f) = n /\ DOMAIN f = 1 .. n
OBVIOUS

-----------------------------------------------------------------------------
(* What the operations of the slab do, field by field.                     *)

\* The data of a node: what is not a link.
SameData(a, b) == a.ip = b.ip /\ a.tokens = b.tokens /\ a.last = b.last

SameLinks(a, b) == a.prev = b.prev /\ a.next = b.next

\* unlink: the two neighbours, or the ends of the list, close the gap.
UnlinkSpec(l, slot, l2) ==
  LET p == l.slab[slot].prev
      n == l.slab[slot].next
  IN /\ l2 \in Lru /\ l2.index = l.index /\ Len(l2.slab) = Len(l.slab)
     /\ \A i \in 1 .. Len(l.slab) :
          /\ SameData(l2.slab[i], l.slab[i])
          /\ l2.slab[i].next = IF i = p THEN n ELSE l.slab[i].next
          /\ l2.slab[i].prev = IF i = n THEN p ELSE l.slab[i].prev
     /\ l2.head = IF p = NIL THEN n ELSE l.head
     /\ l2.tail = IF n = NIL THEN p ELSE l.tail

\* It does.
LEMMA UnlinkDoes ==
  ASSUME NEW l \in Lru, NEW slot \in 1 .. Len(l.slab)
  PROVE  UnlinkSpec(l, slot, Unlink(l, slot))
<1>. DEFINE p == l.slab[slot].prev
            n == l.slab[slot].next
            nodes == [i \in DOMAIN l.slab |->
                        [l.slab[i] EXCEPT !.next = IF i = p THEN n ELSE @,
                                          !.prev = IF i = n THEN p ELSE @]]
            l2 == [index |-> l.index, slab |-> nodes, head |-> IF p = NIL THEN n ELSE l.head,
                   tail |-> IF n = NIL THEN p ELSE l.tail]
<1>1. p \in Slot /\ n \in Slot
  BY Parts DEF Node
<1>2. ASSUME NEW i \in 1 .. Len(l.slab)
      PROVE  /\ nodes[i] \in Node /\ SameData(nodes[i], l.slab[i])
             /\ nodes[i].next = IF i = p THEN n ELSE l.slab[i].next
             /\ nodes[i].prev = IF i = n THEN p ELSE l.slab[i].prev
  <2>1. l.slab[i] \in Node /\ i \in DOMAIN l.slab
    BY Parts
  <2>2. nodes[i] = [l.slab[i] EXCEPT !.next = IF i = p THEN n ELSE @,
                                     !.prev = IF i = n THEN p ELSE @]
    BY <2>1
  <2>. HIDE DEF nodes, p, n
  <2>. QED  BY <1>1, <2>1, <2>2 DEF Node, SameData
<1>3. nodes \in Seq(Node) /\ Len(nodes) = Len(l.slab)
  <2>1. nodes \in [1 .. Len(l.slab) -> Node]
    BY <1>2, Parts
  <2>. HIDE DEF nodes
  <2>. QED  BY <2>1, MakesSeq, Parts
<1>4. Unlink(l, slot) = l2
  <2>1. l = [index |-> l.index, slab |-> l.slab, head |-> l.head, tail |-> l.tail]
    BY DEF Lru
  <2>. HIDE DEF nodes
  <2>2. Unlink(l, slot) = [l EXCEPT !.slab = nodes, !.head = IF p = NIL THEN n ELSE @,
                                    !.tail = IF n = NIL THEN p ELSE @]
    BY DEF Unlink, nodes
  <2>. HIDE DEF p, n
  <2>. QED  BY <2>1, <2>2
<1>5. l2 \in Lru
  <2>. HIDE DEF nodes
  <2>. QED  BY <1>1, <1>3, Parts DEF Lru
<1>6. UnlinkSpec(l, slot, l2)
  <2>. HIDE DEF nodes
  <2>. QED  BY <1>2, <1>3, <1>5 DEF UnlinkSpec
<1>. QED  BY <1>4, <1>6

\* push_front: the slot points to the old head, which points back.
PushFrontSpec(l, slot, l2) ==
  /\ l2 \in Lru /\ l2.index = l.index /\ Len(l2.slab) = Len(l.slab)
  /\ \A i \in 1 .. Len(l.slab) :
       /\ SameData(l2.slab[i], l.slab[i])
       /\ l2.slab[i].next = IF i = slot THEN l.head ELSE l.slab[i].next
       /\ l2.slab[i].prev = IF i = slot THEN NIL ELSE IF i = l.head THEN slot ELSE l.slab[i].prev
  /\ l2.head = slot
  /\ l2.tail = IF l.tail = NIL THEN slot ELSE l.tail

\* It does.
LEMMA PushFrontDoes ==
  ASSUME NEW l \in Lru, NEW slot \in 1 .. Len(l.slab), slot \in Slot
  PROVE  PushFrontSpec(l, slot, PushFront(l, slot))
<1>. DEFINE nodes == [i \in DOMAIN l.slab |->
                        CASE i = slot -> [l.slab[i] EXCEPT !.prev = NIL, !.next = l.head]
                          [] i = l.head /\ i # slot -> [l.slab[i] EXCEPT !.prev = slot]
                          [] OTHER -> l.slab[i]]
            l2 == [index |-> l.index, slab |-> nodes, head |-> slot,
                   tail |-> IF l.tail = NIL THEN slot ELSE l.tail]
<1>1. l.head \in Slot /\ NIL \in Slot
  BY Parts, Bounds DEF Slot
<1>2. ASSUME NEW i \in 1 .. Len(l.slab)
      PROVE  /\ nodes[i] \in Node /\ SameData(nodes[i], l.slab[i])
             /\ nodes[i].next = IF i = slot THEN l.head ELSE l.slab[i].next
             /\ nodes[i].prev = IF i = slot THEN NIL
                                ELSE IF i = l.head THEN slot ELSE l.slab[i].prev
  <2>1. l.slab[i] \in Node /\ i \in DOMAIN l.slab
    BY Parts
  <2>2. CASE i = slot
    <3>1. nodes[i] = [l.slab[i] EXCEPT !.prev = NIL, !.next = l.head]
      BY <2>1, <2>2
    <3>. HIDE DEF nodes
    <3>. QED  BY <1>1, <2>1, <2>2, <3>1 DEF Node, SameData
  <2>3. CASE i # slot /\ i = l.head
    <3>1. nodes[i] = [l.slab[i] EXCEPT !.prev = slot]
      BY <2>1, <2>3
    <3>. HIDE DEF nodes
    <3>. QED  BY <1>1, <2>1, <2>3, <3>1 DEF Node, SameData
  <2>4. CASE i # slot /\ i # l.head
    BY <2>1, <2>4 DEF SameData
  <2>. HIDE DEF nodes
  <2>. QED  BY <2>2, <2>3, <2>4
<1>3. nodes \in Seq(Node) /\ Len(nodes) = Len(l.slab)
  <2>1. nodes \in [1 .. Len(l.slab) -> Node]
    BY <1>2, Parts
  <2>. HIDE DEF nodes
  <2>. QED  BY <2>1, MakesSeq, Parts
<1>4. PushFront(l, slot) = l2
  <2>1. l = [index |-> l.index, slab |-> l.slab, head |-> l.head, tail |-> l.tail]
    BY DEF Lru
  <2>. HIDE DEF nodes
  <2>2. PushFront(l, slot) = [l EXCEPT !.slab = nodes, !.head = slot,
                                       !.tail = IF @ = NIL THEN slot ELSE @]
    BY DEF PushFront, nodes
  <2>. QED  BY <2>1, <2>2
<1>5. l2 \in Lru
  <2>. HIDE DEF nodes
  <2>. QED  BY <1>1, <1>3, Parts DEF Lru
<1>6. PushFrontSpec(l, slot, l2)
  <2>. HIDE DEF nodes
  <2>. QED  BY <1>2, <1>3, <1>5 DEF PushFrontSpec
<1>. QED  BY <1>4, <1>6

-----------------------------------------------------------------------------
(* The recency list.                                                       *)

\* The slot at place i of an order w of m slots; before the first and behind the last
\* there is none.
At(w, m, i) == IF i \in 1 .. m THEN w[i] ELSE NIL

\* The links of the slots in w are those of a list of them in that order.
Linked(l, w, m) ==
  /\ m \in Nat /\ w \in [1 .. m -> 1 .. Len(l.slab)]
  /\ \A i, j \in 1 .. m : w[i] = w[j] => i = j
  /\ l.head = At(w, m, 1) /\ l.tail = At(w, m, m)
  /\ \A i \in 1 .. m : /\ l.slab[w[i]].prev = At(w, m, i - 1)
                       /\ l.slab[w[i]].next = At(w, m, i + 1)

\* The order without its k-th slot, and with one before it.
Without(w, m, k) == [i \in 1 .. m - 1 |-> IF i < k THEN w[i] ELSE w[i + 1]]
Before(w, m, slot) == [i \in 1 .. m + 1 |-> IF i = 1 THEN slot ELSE w[i - 1]]

\* unlink takes a slot out of the order.
LEMMA UnlinkTakesOut ==
  ASSUME NEW l \in Lru, NEW w, NEW m, Linked(l, w, m), NEW k \in 1 .. m,
         NEW l2, UnlinkSpec(l, w[k], l2)
  PROVE  /\ Linked(l2, Without(w, m, k), m - 1)
         /\ \A i \in 1 .. m - 1 : Without(w, m, k)[i] # w[k]
<1>. DEFINE v == Without(w, m, k)
<1>1. /\ m \in Nat /\ w \in [1 .. m -> 1 .. Len(l.slab)] /\ Len(l.slab) \in Nat
      /\ \A i, j \in 1 .. m : w[i] = w[j] => i = j
      /\ l.head = At(w, m, 1) /\ l.tail = At(w, m, m)
      /\ \A i \in 1 .. m : /\ l.slab[w[i]].prev = At(w, m, i - 1)
                           /\ l.slab[w[i]].next = At(w, m, i + 1)
  BY Parts DEF Linked
<1>2. \A i \in 1 .. m : w[i] # NIL /\ w[i] \in 1 .. Len(l.slab)
  BY <1>1 DEF NIL
<1>3. /\ l2 \in Lru /\ Len(l2.slab) = Len(l.slab)
      /\ \A i \in 1 .. Len(l.slab) :
           /\ l2.slab[i].next = IF i = At(w, m, k - 1) THEN At(w, m, k + 1) ELSE l.slab[i].next
           /\ l2.slab[i].prev = IF i = At(w, m, k + 1) THEN At(w, m, k - 1) ELSE l.slab[i].prev
      /\ l2.head = IF At(w, m, k - 1) = NIL THEN At(w, m, k + 1) ELSE l.head
      /\ l2.tail = IF At(w, m, k + 1) = NIL THEN At(w, m, k - 1) ELSE l.tail
  BY <1>1 DEF UnlinkSpec
<1>4. \A i \in 1 .. m - 1 : v[i] = IF i < k THEN w[i] ELSE w[i + 1]
  BY DEF Without
<1>5. v \in [1 .. m - 1 -> 1 .. Len(l.slab)]
  BY SMTT(40), <1>1 DEF Without
<1>. HIDE DEF v
<1>6. \A i \in 1 .. m - 1 : \E j \in 1 .. m \ {k} : v[i] = w[j] /\ j = IF i < k THEN i ELSE i + 1
  <2>. SUFFICES ASSUME NEW i \in 1 .. m - 1
                PROVE  \E j \in 1 .. m \ {k} : v[i] = w[j] /\ j = IF i < k THEN i ELSE i + 1
    OBVIOUS
  <2>1. CASE i < k
    <3>1. i \in 1 .. m \ {k} /\ v[i] = w[i]
      BY <1>1, <1>4, <2>1
    <3>. QED  BY <2>1, <3>1
  <2>2. CASE ~(i < k)
    <3>1. i + 1 \in 1 .. m \ {k} /\ v[i] = w[i + 1]
      BY <1>1, <1>4, <2>2
    <3>. QED  BY <2>2, <3>1
  <2>. QED  BY <2>1, <2>2
<1>7. /\ \A i \in 1 .. m - 1 : v[i] # w[k]
      /\ \A i, j \in 1 .. m - 1 : v[i] = v[j] => i = j
  <2>1. \A i \in 1 .. m - 1 : v[i] # w[k]
    BY <1>1, <1>6
  <2>2. ASSUME NEW i \in 1 .. m - 1, NEW j \in 1 .. m - 1, v[i] = v[j] PROVE i = j
    <3>. PICK a \in 1 .. m \ {k} : v[i] = w[a] /\ a = IF i < k THEN i ELSE i + 1
      BY <1>6
    <3>. PICK b \in 1 .. m \ {k} : v[j] = w[b] /\ b = IF j < k THEN j ELSE j + 1
      BY <1>6
    <3>1. a = b
      BY <1>1, <2>2
    <3>2. i \in Int /\ j \in Int /\ k \in Int
      OBVIOUS
    <3>. QED  BY <3>1, <3>2
  <2>. QED  BY <2>1, <2>2
<1>8. \A n \in Int : At(v, m - 1, n) = IF n < k THEN At(w, m, n) ELSE At(w, m, n + 1)
  BY <1>1, <1>4 DEF At
<1>9. \A i \in 1 .. m, n \in Int : w[i] = At(w, m, n) <=> i = n
  BY <1>1, <1>2 DEF At
<1>10. \A n \in Int : At(w, m, n) = NIL <=> n < 1 \/ n > m
  BY <1>1, <1>2 DEF At
<1>11. l2.head = At(v, m - 1, 1) /\ l2.tail = At(v, m - 1, m - 1)
  <2>1. l2.head = IF k = 1 THEN At(w, m, 2) ELSE At(w, m, 1)
    BY <1>1, <1>3, <1>10
  <2>2. l2.tail = IF k = m THEN At(w, m, m - 1) ELSE At(w, m, m)
    BY <1>1, <1>3, <1>10
  <2>. QED  BY SMTT(40), <1>1, <1>8, <2>1, <2>2
<1>12. ASSUME NEW i \in 1 .. m - 1
       PROVE  /\ l2.slab[v[i]].next = At(v, m - 1, i + 1)
              /\ l2.slab[v[i]].prev = At(v, m - 1, i - 1)
  <2>. PICK j \in 1 .. m \ {k} : v[i] = w[j] /\ j = IF i < k THEN i ELSE i + 1
    BY <1>6
  <2>0. k \in Int /\ j \in Int /\ k - 1 \in Int /\ k + 1 \in Int
    OBVIOUS
  <2>1. /\ l2.slab[w[j]].next = IF j = k - 1 THEN At(w, m, k + 1) ELSE At(w, m, j + 1)
        /\ l2.slab[w[j]].prev = IF j = k + 1 THEN At(w, m, k - 1) ELSE At(w, m, j - 1)
    <3>1. (w[j] = At(w, m, k - 1) <=> j = k - 1) /\ (w[j] = At(w, m, k + 1) <=> j = k + 1)
      BY <1>9, <2>0
    <3>2. w[j] \in 1 .. Len(l.slab)
      BY <1>2
    <3>3. l.slab[w[j]].next = At(w, m, j + 1) /\ l.slab[w[j]].prev = At(w, m, j - 1)
      BY <1>1
    <3>. QED  BY <1>3, <3>1, <3>2, <3>3
  <2>2. l2.slab[v[i]].next = At(v, m - 1, i + 1)
    <3>1. At(v, m - 1, i + 1) = IF i + 1 < k THEN At(w, m, i + 1) ELSE At(w, m, i + 2)
      BY <1>8
    <3>2. At(v, m - 1, i + 1) = IF j = k - 1 THEN At(w, m, k + 1) ELSE At(w, m, j + 1)
      BY <2>0, <3>1
    <3>. QED  BY <2>1, <3>2
  <2>3. l2.slab[v[i]].prev = At(v, m - 1, i - 1)
    <3>1. At(v, m - 1, i - 1) = IF i - 1 < k THEN At(w, m, i - 1) ELSE At(w, m, i)
      BY <1>8
    <3>2. At(v, m - 1, i - 1) = IF j = k + 1 THEN At(w, m, k - 1) ELSE At(w, m, j - 1)
      BY <2>0, <3>1
    <3>. QED  BY <2>1, <3>2
  <2>. QED  BY <2>2, <2>3
<1>13. m - 1 \in Nat
  BY <1>1
<1>14. Linked(l2, v, m - 1)
  BY <1>3, <1>5, <1>7, <1>11, <1>12, <1>13 DEF Linked
<1>. QED  BY <1>7, <1>14 DEF v

\* push_front puts a slot before the order.
LEMMA PushFrontPutsBefore ==
  ASSUME NEW l \in Lru, NEW w, NEW m, Linked(l, w, m), NEW slot \in 1 .. Len(l.slab),
         \A i \in 1 .. m : w[i] # slot,
         NEW l2, PushFrontSpec(l, slot, l2)
  PROVE  Linked(l2, Before(w, m, slot), m + 1)
<1>. DEFINE v == Before(w, m, slot)
<1>1. /\ m \in Nat /\ w \in [1 .. m -> 1 .. Len(l.slab)] /\ Len(l.slab) \in Nat
      /\ \A i, j \in 1 .. m : w[i] = w[j] => i = j
      /\ l.head = At(w, m, 1) /\ l.tail = At(w, m, m)
      /\ \A i \in 1 .. m : /\ l.slab[w[i]].prev = At(w, m, i - 1)
                           /\ l.slab[w[i]].next = At(w, m, i + 1)
  BY Parts DEF Linked
<1>2. slot # NIL /\ \A i \in 1 .. m : w[i] # NIL /\ w[i] \in 1 .. Len(l.slab)
  BY <1>1 DEF NIL
<1>3. /\ l2 \in Lru /\ Len(l2.slab) = Len(l.slab)
      /\ \A i \in 1 .. Len(l.slab) :
           /\ l2.slab[i].next = IF i = slot THEN At(w, m, 1) ELSE l.slab[i].next
           /\ l2.slab[i].prev = IF i = slot THEN NIL
                                ELSE IF i = At(w, m, 1) THEN slot ELSE l.slab[i].prev
      /\ l2.head = slot
      /\ l2.tail = IF At(w, m, m) = NIL THEN slot ELSE At(w, m, m)
  BY <1>1 DEF PushFrontSpec
<1>4. \A i \in 1 .. m + 1 : v[i] = IF i = 1 THEN slot ELSE w[i - 1]
  BY DEF Before
<1>5. v \in [1 .. m + 1 -> 1 .. Len(l.slab)]
  BY <1>1 DEF Before
<1>. HIDE DEF v
<1>6. \A i, j \in 1 .. m + 1 : v[i] = v[j] => i = j
  <2>. TAKE i, j \in 1 .. m + 1
  <2>1. /\ i # 1 => i - 1 \in 1 .. m
        /\ j # 1 => j - 1 \in 1 .. m
    BY <1>1
  <2>. QED  BY <1>1, <1>4, <2>1
<1>7. \A n \in Int : At(v, m + 1, n) = IF n = 1 THEN slot ELSE At(w, m, n - 1)
  BY <1>1, <1>4 DEF At
<1>8. \A i \in 1 .. m, n \in Int : w[i] = At(w, m, n) <=> i = n
  BY <1>1, <1>2 DEF At
<1>9. \A n \in Int : At(w, m, n) = NIL <=> n < 1 \/ n > m
  BY <1>1, <1>2 DEF At
<1>10. l2.head = At(v, m + 1, 1) /\ l2.tail = At(v, m + 1, m + 1)
  <2>1. l2.tail = IF m = 0 THEN slot ELSE At(w, m, m)
    BY <1>1, <1>3, <1>9
  <2>. QED  BY <1>1, <1>3, <1>7, <2>1
<1>11. ASSUME NEW i \in 1 .. m + 1
       PROVE  /\ l2.slab[v[i]].next = At(v, m + 1, i + 1)
              /\ l2.slab[v[i]].prev = At(v, m + 1, i - 1)
  <2>1. CASE i = 1
    <3>1. /\ l2.slab[slot].next = At(w, m, 1) /\ l2.slab[slot].prev = NIL
          /\ v[i] = slot
      BY <1>3, <1>4, <2>1
    <3>2. At(v, m + 1, 2) = At(w, m, 1) /\ At(v, m + 1, 0) = NIL
      BY <1>1, <1>7, <1>9
    <3>. QED  BY <2>1, <3>1, <3>2
  <2>2. CASE i # 1
    <3>. PICK j \in 1 .. m : v[i] = w[j] /\ i = j + 1
      <4>1. i - 1 \in 1 .. m /\ i = i - 1 + 1
        BY <1>1, <2>2
      <4>. QED  BY <1>4, <2>2, <4>1
    <3>0. w[j] = At(w, m, 1) <=> j = 1
      BY <1>8
    <3>1. /\ l2.slab[w[j]].next = At(w, m, j + 1)
          /\ l2.slab[w[j]].prev = IF j = 1 THEN slot ELSE At(w, m, j - 1)
      BY <1>1, <1>2, <1>3, <3>0
    <3>2. At(v, m + 1, i + 1) = At(w, m, j + 1)
      BY <1>1, <1>7
    <3>3. At(v, m + 1, i - 1) = IF j = 1 THEN slot ELSE At(w, m, j - 1)
      BY <1>1, <1>7
    <3>. QED  BY <3>1, <3>2, <3>3
  <2>. QED  BY <2>1, <2>2
<1>12. m + 1 \in Nat
  BY <1>1
<1>13. Linked(l2, v, m + 1)
  BY <1>3, <1>5, <1>6, <1>10, <1>11, <1>12 DEF Linked
<1>. QED  BY <1>13 DEF v

\* What leaves the links alone leaves the list as it is.
LEMMA SameLinksSameList ==
  ASSUME NEW l \in Lru, NEW w, NEW m, Linked(l, w, m), NEW l2 \in Lru,
         Len(l2.slab) >= Len(l.slab), l2.head = l.head, l2.tail = l.tail,
         \A i \in 1 .. Len(l.slab) : SameLinks(l2.slab[i], l.slab[i])
  PROVE  Linked(l2, w, m)
<1>1. Len(l.slab) \in Nat /\ Len(l2.slab) \in Nat
  BY Parts
<1>2. w \in [1 .. m -> 1 .. Len(l2.slab)]
  BY <1>1 DEF Linked
<1>3. \A i \in 1 .. m : w[i] \in 1 .. Len(l.slab)
  BY DEF Linked
<1>. QED  BY <1>2, <1>3 DEF Linked, SameLinks

-----------------------------------------------------------------------------
(* What is written into the nodes and the index.                           *)

\* An index is a function on some of the addresses.
LEMMA IsIndex ==
  ASSUME NEW f
  PROVE  f \in Index <=> /\ DOMAIN f \subseteq Ip /\ f = [x \in DOMAIN f |-> f[x]]
                         /\ \A x \in DOMAIN f : f[x] \in Slot \ {NIL}
<1>1. ASSUME f \in Index
      PROVE  /\ DOMAIN f \subseteq Ip /\ f = [x \in DOMAIN f |-> f[x]]
             /\ \A x \in DOMAIN f : f[x] \in Slot \ {NIL}
  BY <1>1 DEF Index
<1>2. ASSUME DOMAIN f \subseteq Ip, f = [x \in DOMAIN f |-> f[x]],
             \A x \in DOMAIN f : f[x] \in Slot \ {NIL}
      PROVE  f \in Index
  <2>1. f \in [DOMAIN f -> Slot \ {NIL}]
    BY <1>2
  <2>. QED  BY <1>2, <2>1 DEF Index
<1>. QED  BY <1>1, <1>2

\* A write that leaves the links and the index alone.
WriteSpec(l, s, node, l2) ==
  /\ l2 \in Lru /\ l2.index = l.index /\ l2.head = l.head /\ l2.tail = l.tail
  /\ Len(l2.slab) = Len(l.slab)
  /\ \A i \in 1 .. Len(l.slab) : i # s => l2.slab[i] = l.slab[i]
  /\ l2.slab[s] = node

\* One node is replaced.
LEMMA WriteDoes ==
  ASSUME NEW l \in Lru, NEW s \in 1 .. Len(l.slab), NEW node \in Node
  PROVE  WriteSpec(l, s, node, [l EXCEPT !.slab = [l.slab EXCEPT ![s] = node]])
<1>. DEFINE nodes == [l.slab EXCEPT ![s] = node]
<1>1. /\ nodes \in Seq(Node) /\ Len(nodes) = Len(l.slab) /\ nodes[s] = node
      /\ \A i \in 1 .. Len(l.slab) : i # s => nodes[i] = l.slab[i]
  <2>1. /\ l.slab \in [1 .. Len(l.slab) -> Node]
    BY Parts
  <2>2. nodes \in [1 .. Len(l.slab) -> Node]
    BY <2>1
  <2>3. nodes \in Seq(Node) /\ Len(nodes) = Len(l.slab)
    <3>. HIDE DEF nodes
    <3>. QED  BY <2>2, MakesSeq, Parts
  <2>. QED  BY <2>1, <2>3
<1>. HIDE DEF nodes
<1>2. l = [index |-> l.index, slab |-> l.slab, head |-> l.head, tail |-> l.tail]
  BY DEF Lru
<1>3. [l EXCEPT !.slab = nodes]
        = [index |-> l.index, slab |-> nodes, head |-> l.head, tail |-> l.tail]
  BY <1>2
<1>4. [index |-> l.index, slab |-> nodes, head |-> l.head, tail |-> l.tail] \in Lru
  BY <1>1, Parts DEF Lru
<1>. QED  BY <1>1, <1>3, <1>4 DEF WriteSpec, nodes

\* A refill is worth no more than a full bucket.
LEMMA RefillTyped ==
  ASSUME NEW b, b.tokens \in 0 .. Full, b.last \in Nat, NEW t \in Nat
  PROVE  Refill(b, t) \in 0 .. Full
<1>1. Elapsed(t, b.last) \in Nat
  BY DEF Elapsed
<1>2. Quota * Elapsed(t, b.last) \in Nat
  <2>1. \A x, y \in Nat : x * y \in Nat
    OBVIOUS
  <2>. HIDE DEF Elapsed
  <2>. QED  BY <1>1, <2>1, Bounds
<1>3. \A e \in Nat, k \in 0 .. Full : IF k + e < Full THEN k + e \in 0 .. Full ELSE Full \in 0 .. Full
  BY Bounds
<1>. QED  BY <1>2, <1>3 DEF Refill

\* Spending leaves no less than nothing.
LEMMA SpendTyped == ASSUME NEW k \in 0 .. Full PROVE Spend(k) \in 0 .. Full
<1>1. G \in Nat /\ Full \in Nat
  BY StoreAssumption, Bounds
<1>. QED  BY <1>1 DEF Spend, Affords

\* Token and time of a bucket are written.
LEMMA FillDoes ==
  ASSUME NEW l \in Lru, NEW s \in 1 .. Len(l.slab), NEW k \in 0 .. Full, NEW t \in Nat
  PROVE  WriteSpec(l, s, [l.slab[s] EXCEPT !.tokens = k, !.last = t],
                   [l EXCEPT !.slab[s].tokens = k, !.slab[s].last = t])
<1>. DEFINE node == [l.slab[s] EXCEPT !.tokens = k, !.last = t]
<1>1. l.slab[s] \in Node
  BY Parts
<1>2. node \in Node
  BY <1>1 DEF Node
<1>3. [l EXCEPT !.slab[s].tokens = k, !.slab[s].last = t]
        = [l EXCEPT !.slab = [l.slab EXCEPT ![s] = node]]
  <2>1. l = [index |-> l.index, slab |-> l.slab, head |-> l.head, tail |-> l.tail]
    BY DEF Lru
  <2>2. l.slab \in [1 .. Len(l.slab) -> Node]
    BY Parts
  <2>. QED  BY <1>1, <2>1, <2>2 DEF Node
<1>. HIDE DEF node
<1>4. WriteSpec(l, s, node, [l EXCEPT !.slab = [l.slab EXCEPT ![s] = node]])
  BY <1>2, WriteDoes
<1>. QED  BY <1>3, <1>4 DEF node

\* A request is paid for.
LEMMA PayDoes ==
  ASSUME NEW l \in Lru, NEW s \in 1 .. Len(l.slab)
  PROVE  WriteSpec(l, s, [l.slab[s] EXCEPT !.tokens = Spend(l.slab[s].tokens)],
                   [l EXCEPT !.slab[s].tokens = Spend(@)])
<1>. DEFINE node == [l.slab[s] EXCEPT !.tokens = Spend(l.slab[s].tokens)]
<1>1. l.slab[s] \in Node
  BY Parts
<1>2. Spend(l.slab[s].tokens) \in 0 .. Full
  BY <1>1, SpendTyped DEF Node
<1>3. node \in Node
  BY <1>1, <1>2 DEF Node
<1>4. [l EXCEPT !.slab[s].tokens = Spend(@)] = [l EXCEPT !.slab = [l.slab EXCEPT ![s] = node]]
  <2>1. l = [index |-> l.index, slab |-> l.slab, head |-> l.head, tail |-> l.tail]
    BY DEF Lru
  <2>2. l.slab \in [1 .. Len(l.slab) -> Node]
    BY Parts
  <2>. QED  BY <1>1, <2>1, <2>2 DEF Node
<1>. HIDE DEF node
<1>5. WriteSpec(l, s, node, [l EXCEPT !.slab = [l.slab EXCEPT ![s] = node]])
  BY <1>3, WriteDoes
<1>. QED  BY <1>4, <1>5 DEF node

\* A node and the index are written.
IndexedSpec(l, s, node, index, l2) ==
  /\ l2 \in Lru /\ l2.index = index /\ l2.head = l.head /\ l2.tail = l.tail
  /\ Len(l2.slab) = Len(l.slab)
  /\ \A i \in 1 .. Len(l.slab) : i # s => l2.slab[i] = l.slab[i]
  /\ l2.slab[s] = node

\* They are.
LEMMA IndexedDoes ==
  ASSUME NEW l \in Lru, NEW s \in 1 .. Len(l.slab), NEW node \in Node, NEW index \in Index
  PROVE  IndexedSpec(l, s, node, index,
                     [l EXCEPT !.slab = [l.slab EXCEPT ![s] = node], !.index = index])
<1>. DEFINE nodes == [l.slab EXCEPT ![s] = node]
            w == [l EXCEPT !.slab = nodes]
            l2 == [l EXCEPT !.slab = nodes, !.index = index]
<1>1. WriteSpec(l, s, node, w)
  BY WriteDoes
<1>2. nodes \in Seq(Node) /\ w.slab = nodes
  <2>1. w.slab = nodes
    BY DEF Lru
  <2>. HIDE DEF w, nodes
  <2>. QED  BY <1>1, <2>1, Parts DEF WriteSpec
<1>. HIDE DEF nodes
<1>3. /\ l2 \in Lru /\ l2.index = index /\ l2.slab = nodes /\ l2.head = l.head
      /\ l2.tail = l.tail
  BY <1>2 DEF Lru
<1>. HIDE DEF w, l2
<1>4. IndexedSpec(l, s, node, index, l2)
  BY <1>1, <1>2, <1>3 DEF WriteSpec, IndexedSpec
<1>. QED  BY <1>4 DEF l2, nodes

Indexed(index, ip, s) == [x \in DOMAIN index \cup {ip} |-> IF x = ip THEN s ELSE index[x]]

\* What becomes of a node and of the structure when its slot is given to an address.
SeatNode(l, s, ip, t) == [l.slab[s] EXCEPT !.ip = <<ip>>, !.tokens = Full, !.last = t]

Seated(l, s, ip, t) ==
  [l EXCEPT !.slab[s].ip = <<ip>>, !.slab[s].tokens = Full, !.slab[s].last = t,
            !.index = [x \in DOMAIN @ \cup {ip} |-> IF x = ip THEN s ELSE @[x]]]

\* A new address is given the slot.
LEMMA SeatDoes ==
  ASSUME NEW l \in Lru, NEW s \in 1 .. Len(l.slab), s \in Slot, NEW ip \in Ip, NEW t \in Nat
  PROVE  IndexedSpec(l, s, SeatNode(l, s, ip, t), Indexed(l.index, ip, s), Seated(l, s, ip, t))
<1>. DEFINE node == [l.slab[s] EXCEPT !.ip = <<ip>>, !.tokens = Full, !.last = t]
            index == Indexed(l.index, ip, s)
<1>1. l.slab[s] \in Node
  BY Parts
<1>2. node \in Node
  <2>1. Full \in 0 .. Full
    BY Bounds
  <2>. QED  BY <1>1, <2>1 DEF Node
<1>3. index \in Index
  <2>1. /\ DOMAIN l.index \subseteq Ip
        /\ \A x \in DOMAIN l.index : l.index[x] \in Slot \ {NIL}
    BY Parts, IsIndex
  <2>2. s \in Slot \ {NIL}
    BY Parts DEF NIL
  <2>3. /\ DOMAIN index = DOMAIN l.index \cup {ip}
        /\ index = [x \in DOMAIN index |-> index[x]]
        /\ \A x \in DOMAIN index : index[x] = IF x = ip THEN s ELSE l.index[x]
    BY DEF Indexed
  <2>. HIDE DEF index
  <2>. QED  BY <2>1, <2>2, <2>3, IsIndex
<1>4. [l EXCEPT !.slab[s].ip = <<ip>>, !.slab[s].tokens = Full, !.slab[s].last = t,
                !.index = [x \in DOMAIN @ \cup {ip} |-> IF x = ip THEN s ELSE @[x]]]
        = [l EXCEPT !.slab = [l.slab EXCEPT ![s] = node], !.index = index]
  <2>1. l = [index |-> l.index, slab |-> l.slab, head |-> l.head, tail |-> l.tail]
    BY DEF Lru
  <2>2. l.slab \in [1 .. Len(l.slab) -> Node]
    BY Parts
  <2>. QED  BY ZenonT(60), <1>1, <2>1, <2>2 DEF Node, Indexed
<1>. HIDE DEF node, index
<1>5. IndexedSpec(l, s, node, index,
                  [l EXCEPT !.slab = [l.slab EXCEPT ![s] = node], !.index = index])
  BY <1>2, <1>3, IndexedDoes
<1>. QED  BY <1>4, <1>5 DEF node, index, SeatNode, Seated

\* The slab grows by a node.
GrowSpec(l, l2) ==
  /\ l2 \in Lru /\ l2.index = l.index /\ l2.head = l.head /\ l2.tail = l.tail
  /\ Len(l2.slab) = Len(l.slab) + 1
  /\ \A i \in 1 .. Len(l.slab) : l2.slab[i] = l.slab[i]

\* It does.
LEMMA GrowDoes ==
  ASSUME NEW l \in Lru PROVE GrowSpec(l, [l EXCEPT !.slab = Append(@, FreshNode)])
<1>1. FreshNode \in Node
  <2>1. NIL \in Slot /\ 0 \in 0 .. Full
    BY Bounds DEF Slot
  <2>. QED  BY <2>1 DEF FreshNode, Node
<1>. DEFINE nodes == Append(l.slab, FreshNode)
<1>2. /\ nodes \in Seq(Node) /\ Len(nodes) = Len(l.slab) + 1
      /\ \A i \in 1 .. Len(l.slab) : nodes[i] = l.slab[i]
  BY <1>1, Parts, AppendProperties
<1>. HIDE DEF nodes
<1>3. l = [index |-> l.index, slab |-> l.slab, head |-> l.head, tail |-> l.tail]
  BY DEF Lru
<1>4. [l EXCEPT !.slab = nodes]
        = [index |-> l.index, slab |-> nodes, head |-> l.head, tail |-> l.tail]
  BY <1>3
<1>5. [index |-> l.index, slab |-> nodes, head |-> l.head, tail |-> l.tail] \in Lru
  BY <1>2, Parts DEF Lru
<1>. QED  BY <1>2, <1>4, <1>5 DEF GrowSpec, nodes

\* The addresses in the index that the last node is of.
Gone(l) == {ip \in DOMAIN l.index : <<ip>> = l.slab[l.tail].ip}

\* The index without them.
Remaining(l) == Restrict(l.index, DOMAIN l.index \ Gone(l))

\* evict_tail: the last node is taken out of the list, and its address from the index.
EvictSpec(l, u, l2) ==
  /\ UnlinkSpec(l, l.tail, u)
  /\ IndexedSpec(u, l.tail, [u.slab[l.tail] EXCEPT !.ip = << >>],
                 Remaining(l), l2)

\* It does.
LEMMA EvictDoes ==
  ASSUME NEW l \in Lru, l.tail \in 1 .. Len(l.slab)
  PROVE  EvictSpec(l, Unlink(l, l.tail), EvictTail(l))
<1>. DEFINE s == l.tail
            node == [Unlink(l, s).slab[s] EXCEPT !.ip = << >>]
            index == Remaining(l)
<1>1. UnlinkSpec(l, s, Unlink(l, s))
  BY UnlinkDoes
<1>. PICK u : u = Unlink(l, s)
  OBVIOUS
<1>2. u \in Lru /\ u.index = l.index /\ Len(u.slab) = Len(l.slab) /\ u.slab[s] \in Node
  BY <1>1, Parts DEF UnlinkSpec
<1>3. [u.slab[s] EXCEPT !.ip = << >>] \in Node
  BY <1>2 DEF Node
<1>4. index \in Index
  <2>1. /\ DOMAIN l.index \subseteq Ip
        /\ \A x \in DOMAIN l.index : l.index[x] \in Slot \ {NIL}
    BY Parts, IsIndex
  <2>2. /\ DOMAIN index = DOMAIN l.index \ Gone(l)
        /\ index = [x \in DOMAIN index |-> index[x]]
        /\ \A x \in DOMAIN index : index[x] = l.index[x]
    BY DEF Restrict, Remaining
  <2>. HIDE DEF index
  <2>. QED  BY <2>1, <2>2, IsIndex
<1>5. EvictTail(l) = [u EXCEPT !.slab = [u.slab EXCEPT ![s] = [u.slab[s] EXCEPT !.ip = << >>]],
                               !.index = index]
  <2>1. u = [index |-> u.index, slab |-> u.slab, head |-> u.head, tail |-> u.tail]
    BY <1>2 DEF Lru
  <2>2. u.slab \in [1 .. Len(u.slab) -> Node]
    BY <1>2, Parts
  <2>3. EvictTail(l) = [u EXCEPT !.slab[s].ip = << >>,
                                 !.index = Restrict(@, DOMAIN @ \ Gone(l))]
    BY DEF EvictTail, Gone, Remaining
  <2>. HIDE DEF s
  <2>. QED  BY <1>2, <2>1, <2>2, <2>3 DEF Node, Remaining
<1>. HIDE DEF index
<1>6. IndexedSpec(u, s, [u.slab[s] EXCEPT !.ip = << >>], index,
                  [u EXCEPT !.slab = [u.slab EXCEPT ![s] = [u.slab[s] EXCEPT !.ip = << >>]],
                            !.index = index])
  BY <1>2, <1>3, <1>4, IndexedDoes
<1>. QED  BY <1>1, <1>5, <1>6 DEF EvictSpec, index

-----------------------------------------------------------------------------
(* What a check does to the whole structure.                                *)

\* The order of n slots in which one comes first and those that were before place k
\* move up one place.
Front(w, n, slot, k) ==
  [i \in 1 .. n |-> IF i = 1 THEN slot ELSE IF i <= k THEN w[i - 1] ELSE w[i]]

\* l2 is l with the list in the order v, and with slot given to ip with these tokens,
\* at time t, and with that index.
Changed(l, l2, v, n, slot, ip, tokens, t, index) ==
  /\ l2 \in Lru /\ l2.index = index
  /\ Len(l2.slab) = n /\ Linked(l2, v, n)
  /\ \A i \in 1 .. Len(l.slab) : i # slot => SameData(l2.slab[i], l.slab[i])
  /\ slot \in 1 .. n
  /\ l2.slab[slot].ip = <<ip>> /\ l2.slab[slot].tokens = tokens /\ l2.slab[slot].last = t

\* touch: the slot is the first in the order, and nothing else is changed.
TouchSpec(l, w, m, k, l2) ==
  /\ l2 \in Lru /\ l2.index = l.index /\ Len(l2.slab) = Len(l.slab)
  /\ \A i \in 1 .. Len(l.slab) : SameData(l2.slab[i], l.slab[i])
  /\ Linked(l2, Front(w, m, w[k], k), m)

\* It does.
LEMMA TouchDoes ==
  ASSUME NEW l \in Lru, NEW w, NEW m, Linked(l, w, m), NEW k \in 1 .. m
  PROVE  TouchSpec(l, w, m, k, Touch(l, w[k]))
<1>1. /\ m \in Nat /\ w \in [1 .. m -> 1 .. Len(l.slab)] /\ w[k] \in 1 .. Len(l.slab)
      /\ \A i, j \in 1 .. m : w[i] = w[j] => i = j
      /\ l.head = At(w, m, 1)
  BY DEF Linked
<1>2. CASE l.head = w[k]
  <2>1. k = 1
    BY <1>1, <1>2 DEF At
  <2>2. Front(w, m, w[k], k) = w
    <3>1. \A i \in 1 .. m : (IF i = 1 THEN w[1] ELSE IF i <= 1 THEN w[i - 1] ELSE w[i]) = w[i]
      BY <1>1
    <3>2. w = [i \in 1 .. m |-> w[i]]
      BY <1>1
    <3>. QED  BY <2>1, <3>1, <3>2 DEF Front
  <2>3. Touch(l, w[k]) = l
    BY <1>2 DEF Touch
  <2>4. \A i \in 1 .. Len(l.slab) : SameData(l.slab[i], l.slab[i])
    BY DEF SameData
  <2>. QED  BY <2>2, <2>3, <2>4 DEF TouchSpec
<1>3. CASE l.head # w[k]
  <2>. PICK u : u = Unlink(l, w[k])
    OBVIOUS
  <2>. PICK l2 : l2 = PushFront(u, w[k])
    OBVIOUS
  <2>. DEFINE v == Without(w, m, k)
  <2>1. UnlinkSpec(l, w[k], u)
    BY <1>1, UnlinkDoes
  <2>2. u \in Lru /\ Len(u.slab) = Len(l.slab) /\ u.index = l.index
        /\ \A i \in 1 .. Len(l.slab) : SameData(u.slab[i], l.slab[i])
    BY <2>1 DEF UnlinkSpec
  <2>3. Linked(u, v, m - 1) /\ \A i \in 1 .. m - 1 : v[i] # w[k]
    BY <2>1, UnlinkTakesOut
  <2>4. w[k] \in 1 .. Len(u.slab) /\ w[k] \in Slot
    <3>1. l.head \in Slot /\ l.slab[w[k]] \in Node
      BY <1>1, Parts
    <3>2. w[k] = l.head \/ \E j \in 1 .. m : l.slab[w[j]].next = w[k]
      <4>1. CASE k = 1
        BY <1>1, <4>1 DEF At
      <4>2. CASE k # 1
        <5>1. k - 1 \in 1 .. m
          BY <1>1, <4>2
        <5>2. l.slab[w[k - 1]].next = At(w, m, k)
          BY <1>1, <5>1 DEF Linked
        <5>. QED  BY <5>1, <5>2 DEF At
      <4>. QED  BY <4>1, <4>2
    <3>3. \A j \in 1 .. m : l.slab[w[j]].next \in Slot
      BY <1>1, Parts DEF Node
    <3>. QED  BY <1>1, <2>2, <3>1, <3>2, <3>3
  <2>. HIDE DEF v
  <2>5. PushFrontSpec(u, w[k], l2)
    BY <2>2, <2>4, PushFrontDoes
  <2>6. Linked(l2, Before(v, m - 1, w[k]), m - 1 + 1)
    BY <2>2, <2>3, <2>4, <2>5, PushFrontPutsBefore
  <2>7. Before(v, m - 1, w[k]) = Front(w, m, w[k], k) /\ m - 1 + 1 = m
    <3>1. m - 1 + 1 = m
      BY <1>1
    <3>2. \A i \in 1 .. m - 1 : v[i] = IF i < k THEN w[i] ELSE w[i + 1]
      BY DEF v, Without
    <3>3. ASSUME NEW i \in 1 .. m
          PROVE  (IF i = 1 THEN w[k] ELSE v[i - 1])
                   = IF i = 1 THEN w[k] ELSE IF i <= k THEN w[i - 1] ELSE w[i]
      <4>1. CASE i # 1
        <5>1. i - 1 \in 1 .. m - 1 /\ i - 1 + 1 = i /\ (i - 1 < k <=> i <= k)
          BY <1>1, <4>1
        <5>2. v[i - 1] = IF i - 1 < k THEN w[i - 1] ELSE w[i - 1 + 1]
          BY <3>2, <5>1
        <5>. QED  BY <4>1, <5>1, <5>2
      <4>. QED  BY <4>1
    <3>. QED  BY <3>1, <3>3 DEF Before, Front
  <2>8. Touch(l, w[k]) = l2
    BY <1>3 DEF Touch
  <2>9. /\ l2 \in Lru /\ l2.index = l.index /\ Len(l2.slab) = Len(l.slab)
        /\ \A i \in 1 .. Len(l.slab) : SameData(l2.slab[i], l.slab[i])
    BY <2>2, <2>5 DEF PushFrontSpec, SameData
  <2>. QED  BY <2>6, <2>7, <2>8, <2>9 DEF TouchSpec
<1>. QED  BY <1>2, <1>3

\* A known address: its slot is first, and its bucket is refilled.
LEMMA RevisitDoes ==
  ASSUME NEW l \in Lru, NEW w, NEW m, m = Len(l.slab), Linked(l, w, m), NEW k \in 1 .. m,
         NEW ip \in DOMAIN l.index, l.index[ip] = w[k], l.slab[w[k]].ip = <<ip>>, now \in Nat
  PROVE  Changed(l, Revisit(l, ip), Front(w, m, w[k], k), m, w[k], ip,
                 Refill(l.slab[w[k]], now), now, l.index)
<1>. PICK s : s = w[k]
  OBVIOUS
<1>. PICK u : u = Touch(l, s)
  OBVIOUS
<1>. DEFINE v == Front(w, m, s, k)
            tokens == Refill(l.slab[s], now)
            r == Revisit(l, ip)
<1>1. s \in 1 .. m /\ l.slab[s] \in Node
  BY Parts DEF Linked
<1>2. tokens \in 0 .. Full
  BY <1>1, RefillTyped DEF Node
<1>3. /\ u \in Lru /\ u.index = l.index /\ Len(u.slab) = m /\ Linked(u, v, m)
      /\ \A i \in 1 .. m : SameData(u.slab[i], l.slab[i])
  BY TouchDoes DEF TouchSpec
<1>. HIDE DEF v, tokens
<1>4. WriteSpec(u, s, [u.slab[s] EXCEPT !.tokens = tokens, !.last = now], r)
  <2>1. r = [u EXCEPT !.slab[s].tokens = tokens, !.slab[s].last = now]
    BY DEF Revisit, tokens
  <2>. HIDE DEF r
  <2>. QED  BY <1>1, <1>2, <1>3, <2>1, FillDoes
<1>. HIDE DEF r
<1>5. u.slab[s] \in Node
  BY <1>1, <1>3, Parts
<1>6. r.slab[s].tokens = tokens /\ r.slab[s].last = now /\ r.slab[s].ip = <<ip>>
      /\ SameLinks(r.slab[s], u.slab[s])
  BY <1>1, <1>3, <1>4, <1>5 DEF WriteSpec, Node, SameData, SameLinks
<1>7. \A i \in 1 .. m : i # s => SameData(r.slab[i], l.slab[i]) /\ SameLinks(r.slab[i], u.slab[i])
  BY <1>3, <1>4 DEF WriteSpec, SameData, SameLinks
<1>8. Linked(r, v, m)
  <2>1. m >= m
    BY Parts
  <2>. QED  BY <1>3, <1>4, <1>6, <1>7, <2>1, SameLinksSameList DEF WriteSpec
<1>9. Changed(l, r, v, m, s, ip, tokens, now, l.index)
  BY <1>1, <1>3, <1>4, <1>6, <1>7, <1>8 DEF WriteSpec, Changed
<1>. QED  BY <1>9 DEF v, tokens, r

\* A new address is seated in a slot outside the list, and the slot put before it.
LEMMA SeatedAtTheFront ==
  ASSUME NEW l \in Lru, NEW w, NEW m, Linked(l, w, m), NEW n, n = Len(l.slab), n = m + 1,
         NEW s \in 1 .. n, s \in Slot, \A i \in 1 .. m : w[i] # s,
         NEW ip \in Ip, NEW t \in Nat, NEW b,
         IndexedSpec(l, s, SeatNode(l, s, ip, t), Indexed(l.index, ip, s), b)
  PROVE  Changed(l, PushFront(b, s), Front(w, n, s, n), n, s, ip, Full, t,
                 Indexed(l.index, ip, s))
<1>. DEFINE node == SeatNode(l, s, ip, t)
            r == PushFront(b, s)
<1>1. /\ node.ip = <<ip>> /\ node.tokens = Full /\ node.last = t
      /\ SameLinks(node, l.slab[s])
  <2>1. l.slab[s] \in Node
    BY Parts
  <2>. QED  BY <2>1 DEF Node, SameLinks, SeatNode
<1>2. /\ b \in Lru /\ b.index = Indexed(l.index, ip, s) /\ b.head = l.head /\ b.tail = l.tail
      /\ Len(b.slab) = n /\ b.slab[s] = node
      /\ \A i \in 1 .. n : i # s => b.slab[i] = l.slab[i]
  BY DEF IndexedSpec
<1>. HIDE DEF node, r
<1>3. Linked(b, w, m)
  <2>1. \A i \in 1 .. Len(l.slab) : SameLinks(b.slab[i], l.slab[i])
    BY <1>1, <1>2 DEF SameLinks
  <2>2. Len(b.slab) >= Len(l.slab)
    BY <1>2, Parts
  <2>. QED  BY <1>2, <2>1, <2>2, SameLinksSameList
<1>4. PushFrontSpec(b, s, r)
  BY <1>2, PushFrontDoes DEF r
<1>5. Linked(r, Before(w, m, s), n)
  BY <1>2, <1>3, <1>4, PushFrontPutsBefore
<1>6. Before(w, m, s) = Front(w, n, s, n)
  <2>1. \A i \in 1 .. n : (IF i = 1 THEN s ELSE IF i <= n THEN w[i - 1] ELSE w[i])
                            = IF i = 1 THEN s ELSE w[i - 1]
    BY Parts
  <2>. QED  BY <2>1 DEF Before, Front
<1>7. /\ r \in Lru /\ r.index = Indexed(l.index, ip, s) /\ Len(r.slab) = n
      /\ \A i \in 1 .. n : i # s => SameData(r.slab[i], l.slab[i])
      /\ r.slab[s].ip = <<ip>> /\ r.slab[s].tokens = Full /\ r.slab[s].last = t
  BY <1>1, <1>2, <1>4 DEF PushFrontSpec, SameData
<1>8. Changed(l, r, Front(w, n, s, n), n, s, ip, Full, t, Indexed(l.index, ip, s))
  BY <1>5, <1>6, <1>7 DEF Changed
<1>. QED  BY <1>8 DEF r

\* A new address while there is room: the slab grows.
LEMMA AdmitGrows ==
  ASSUME NEW l \in Lru, NEW w, NEW m, m = Len(l.slab), m < Cap, Linked(l, w, m),
         NEW ip \in Ip, now \in Nat
  PROVE  /\ Changed(l, Admit(l, ip), Front(w, m + 1, m + 1, m + 1), m + 1, m + 1, ip, Full, now,
                    Indexed(l.index, ip, m + 1))
         /\ Admit(l, ip).index[ip] = m + 1
<1>. PICK g : g = [l EXCEPT !.slab = Append(@, FreshNode)]
  OBVIOUS
<1>. PICK s : s = m + 1
  OBVIOUS
<1>1. m \in Nat /\ s \in 1 .. s /\ s \in Slot
  BY Parts, Bounds DEF Slot
<1>2. GrowSpec(l, g)
  BY GrowDoes
<1>3. /\ g \in Lru /\ g.index = l.index /\ g.head = l.head /\ g.tail = l.tail
      /\ Len(g.slab) = s /\ \A i \in 1 .. m : g.slab[i] = l.slab[i]
  BY <1>2 DEF GrowSpec
<1>4. Linked(g, w, m)
  <2>1. \A i \in 1 .. Len(l.slab) : SameLinks(g.slab[i], l.slab[i])
    BY <1>3 DEF SameLinks
  <2>2. Len(g.slab) >= Len(l.slab)
    BY <1>1, <1>3
  <2>. QED  BY <1>3, <2>1, <2>2, SameLinksSameList
<1>5. \A i \in 1 .. m : w[i] # s
  BY <1>1 DEF Linked
<1>. PICK b : b = Seated(g, s, ip, now)
  OBVIOUS
<1>6. IndexedSpec(g, s, SeatNode(g, s, ip, now), Indexed(g.index, ip, s), b)
  BY <1>1, <1>3, SeatDoes
<1>7. Changed(g, PushFront(b, s), Front(w, s, s, s), s, s, ip, Full, now, Indexed(g.index, ip, s))
  <2>. PICK n : n = Len(g.slab)
    OBVIOUS
  <2>1. n = m + 1 /\ s \in 1 .. n /\ n = s
    BY <1>1, <1>3
  <2>2. Changed(g, PushFront(b, s), Front(w, n, s, n), n, s, ip, Full, now, Indexed(g.index, ip, s))
    BY <1>1, <1>3, <1>4, <1>5, <1>6, <2>1, SeatedAtTheFront
  <2>. QED  BY <2>1, <2>2
<1>8. Admit(l, ip) = PushFront(b, s)
  <2>1. AcquireSlot(l) = [l |-> g, slot |-> s]
    BY DEF AcquireSlot
  <2>2. AcquireSlot(l).l = g /\ AcquireSlot(l).slot = s
    BY <2>1
  <2>. QED  BY <2>2 DEF Admit, Seated
<1>9. Changed(l, Admit(l, ip), Front(w, s, s, s), s, s, ip, Full, now, Indexed(l.index, ip, s))
  <2>1. \A i \in 1 .. m : i \in 1 .. s
    BY <1>1
  <2>. QED  BY <1>3, <1>7, <1>8, <2>1 DEF Changed
<1>10. Indexed(l.index, ip, s)[ip] = s
  BY DEF Indexed
<1>. QED  BY <1>9, <1>10 DEF Changed

\* A new address when there is none: it gets the slot of the one that comes last.
LEMMA AdmitEvicts ==
  ASSUME NEW l \in Lru, NEW w, NEW m, m = Len(l.slab), ~(m < Cap), Linked(l, w, m),
         NEW ip \in Ip, now \in Nat
  PROVE  /\ m \in 1 .. m
         /\ Changed(l, Admit(l, ip), Front(w, m, w[m], m), m, w[m], ip, Full, now,
                    Indexed(Remaining(l), ip, w[m]))
         /\ Admit(l, ip).index[ip] = w[m]
<1>. PICK kept : kept = Remaining(l)
  OBVIOUS
<1>. PICK s : s = w[m]
  OBVIOUS
<1>. DEFINE v == Without(w, m, m)
<1>1. m \in Nat /\ m \in 1 .. m /\ m - 1 + 1 = m
  BY Parts, Bounds
<1>2. l.tail = s /\ s \in 1 .. m /\ s \in Slot
  <2>1. l.tail = w[m] /\ w[m] \in 1 .. m
    BY <1>1 DEF Linked, At
  <2>. QED  BY <2>1, Parts
<1>. PICK u : u = Unlink(l, s)
  OBVIOUS
<1>. PICK e : e = EvictTail(l)
  OBVIOUS
<1>3. EvictSpec(l, u, e)
  BY <1>2, EvictDoes
<1>4. /\ UnlinkSpec(l, s, u)
      /\ IndexedSpec(u, s, [u.slab[s] EXCEPT !.ip = << >>], kept, e)
  BY <1>2, <1>3 DEF EvictSpec
<1>5. /\ u \in Lru /\ Len(u.slab) = m
      /\ \A i \in 1 .. m : SameData(u.slab[i], l.slab[i])
  BY <1>4 DEF UnlinkSpec
<1>6. Linked(u, v, m - 1) /\ \A i \in 1 .. m - 1 : v[i] # s
  BY <1>1, <1>4, UnlinkTakesOut
<1>7. /\ e \in Lru /\ e.index = kept /\ e.head = u.head /\ e.tail = u.tail
      /\ Len(e.slab) = m
      /\ \A i \in 1 .. m : i # s => e.slab[i] = u.slab[i]
      /\ e.slab[s] = [u.slab[s] EXCEPT !.ip = << >>]
  BY <1>4, <1>5 DEF IndexedSpec
<1>. HIDE DEF v
<1>8. Linked(e, v, m - 1)
  <2>1. SameLinks([u.slab[s] EXCEPT !.ip = << >>], u.slab[s])
    <3>1. u.slab[s] \in Node
      BY <1>2, <1>5, Parts
    <3>. QED  BY <3>1 DEF Node, SameLinks
  <2>2. \A i \in 1 .. m : SameLinks(e.slab[i], u.slab[i])
    BY <1>7, <2>1 DEF SameLinks
  <2>3. m >= m
    BY <1>1
  <2>. QED  BY <1>5, <1>6, <1>7, <2>2, <2>3, SameLinksSameList
<1>. PICK b : b = Seated(e, s, ip, now)
  OBVIOUS
<1>9. IndexedSpec(e, s, SeatNode(e, s, ip, now), Indexed(e.index, ip, s), b)
  BY <1>2, <1>7, SeatDoes
<1>10. Changed(e, PushFront(b, s), Front(v, m, s, m), m, s, ip, Full, now, Indexed(kept, ip, s))
  BY <1>1, <1>2, <1>6, <1>7, <1>8, <1>9, SeatedAtTheFront
<1>11. Front(v, m, s, m) = Front(w, m, s, m)
  <2>1. \A i \in 1 .. m - 1 : v[i] = w[i]
    BY <1>1 DEF v, Without
  <2>2. ASSUME NEW i \in 1 .. m
        PROVE  (IF i = 1 THEN s ELSE IF i <= m THEN v[i - 1] ELSE v[i])
                 = IF i = 1 THEN s ELSE IF i <= m THEN w[i - 1] ELSE w[i]
    <3>1. i <= m /\ (i # 1 => i - 1 \in 1 .. m - 1)
      BY <1>1
    <3>. QED  BY <2>1, <3>1
  <2>. QED  BY <2>2 DEF Front
<1>12. Admit(l, ip) = PushFront(b, s)
  <2>1. AcquireSlot(l) = [l |-> e, slot |-> s]
    BY <1>2 DEF AcquireSlot
  <2>2. AcquireSlot(l).l = e /\ AcquireSlot(l).slot = s
    BY <2>1
  <2>. QED  BY <2>2 DEF Admit, Seated
<1>13. Changed(l, Admit(l, ip), Front(w, m, s, m), m, s, ip, Full, now, Indexed(kept, ip, s))
  <2>. PICK r : r = Admit(l, ip)
    OBVIOUS
  <2>1. \A i \in 1 .. m : i # s => SameData(e.slab[i], l.slab[i])
    BY <1>5, <1>7
  <2>2. Changed(e, r, Front(w, m, s, m), m, s, ip, Full, now, Indexed(kept, ip, s))
    BY <1>10, <1>11, <1>12
  <2>3. \A i \in 1 .. m : i # s => SameData(r.slab[i], l.slab[i])
    BY <1>7, <2>1, <2>2 DEF Changed, SameData
  <2>. QED  BY <2>2, <2>3 DEF Changed
<1>14. Indexed(kept, ip, s)[ip] = s
  BY DEF Indexed
<1>. QED  BY <1>1, <1>13, <1>14 DEF Changed

\* Paying is a change to the same slot.
LEMMA PaidFor ==
  ASSUME NEW l, NEW r, NEW v, NEW n, NEW slot, NEW ip, NEW tokens, NEW t, NEW index,
         Changed(l, r, v, n, slot, ip, tokens, t, index), \A i \in 1 .. Len(l.slab) : i \in 1 .. n
  PROVE  Changed(l, [r EXCEPT !.slab[slot].tokens = Spend(@)], v, n, slot, ip, Spend(tokens), t,
                 index)
<1>. DEFINE node == [r.slab[slot] EXCEPT !.tokens = Spend(r.slab[slot].tokens)]
            p == [r EXCEPT !.slab[slot].tokens = Spend(@)]
<1>1. /\ r \in Lru /\ r.index = index /\ Len(r.slab) = n /\ Linked(r, v, n) /\ slot \in 1 .. n
      /\ \A i \in 1 .. Len(l.slab) : i # slot => SameData(r.slab[i], l.slab[i])
      /\ r.slab[slot].ip = <<ip>> /\ r.slab[slot].tokens = tokens /\ r.slab[slot].last = t
  BY DEF Changed
<1>2. r.slab[slot] \in Node /\ n \in Nat
  BY <1>1, Parts
<1>3. node.ip = <<ip>> /\ node.tokens = Spend(tokens) /\ node.last = t
      /\ SameLinks(node, r.slab[slot])
  BY <1>1, <1>2 DEF Node, SameLinks
<1>4. WriteSpec(r, slot, node, p)
  BY <1>1, PayDoes
<1>. HIDE DEF node, p
<1>5. /\ p \in Lru /\ p.index = index /\ Len(p.slab) = n /\ p.slab[slot] = node
      /\ p.head = r.head /\ p.tail = r.tail
      /\ \A i \in 1 .. n : i # slot => p.slab[i] = r.slab[i]
  BY <1>1, <1>4 DEF WriteSpec
<1>6. Linked(p, v, n)
  <2>1. \A i \in 1 .. Len(r.slab) : SameLinks(p.slab[i], r.slab[i])
    BY <1>1, <1>3, <1>5 DEF SameLinks
  <2>2. Len(p.slab) >= Len(r.slab)
    BY <1>1, <1>2, <1>5
  <2>. QED  BY <1>1, <1>5, <2>1, <2>2, SameLinksSameList
<1>7. Changed(l, p, v, n, slot, ip, Spend(tokens), t, index)
  BY <1>1, <1>3, <1>5, <1>6 DEF Changed, SameData
<1>. QED  BY <1>7 DEF p

-----------------------------------------------------------------------------
(* The invariant.                                                          *)

\* The list is one of all slots.
Whole(l, w) ==
  /\ Linked(l, w, Len(l.slab))
  /\ \A s \in 1 .. Len(l.slab) : \E i \in 1 .. Len(l.slab) : w[i] = s

\* Every address of the index is in its node, and every node is indexed.
Named(l) ==
  /\ \A ip \in DOMAIN l.index : l.index[ip] \in 1 .. Len(l.slab) /\ l.slab[l.index[ip]].ip = <<ip>>
  /\ \A s \in 1 .. Len(l.slab) : \E ip \in DOMAIN l.index : l.index[ip] = s

SlabInv ==
  /\ TypeOK
  /\ Len(lru.slab) <= Cap
  /\ \E w : Whole(lru, w)
  /\ Named(lru)

\* Which slot a check moves to the front from which place k, what is in its bucket
\* before it pays, and the index it leaves: for a known address, for a new one while
\* there is room, and for a new one when there is none.
Known(l, w, n, slot, k, ip, tokens, index) ==
  /\ ip \in DOMAIN l.index /\ slot = l.index[ip] /\ n = Len(l.slab)
  /\ k \in 1 .. n /\ slot = w[k]
  /\ tokens = Refill(l.slab[slot], now)
  /\ index = l.index

Grown(l, w, n, slot, k, ip, tokens, index) ==
  /\ ip \notin DOMAIN l.index /\ Len(l.slab) < Cap
  /\ n = Len(l.slab) + 1 /\ slot = n /\ k = n
  /\ tokens = Full
  /\ index = Indexed(l.index, ip, slot)

Evicted(l, w, n, slot, k, ip, tokens, index) ==
  /\ ip \notin DOMAIN l.index /\ ~(Len(l.slab) < Cap)
  /\ n = Len(l.slab) /\ k = n /\ n \in 1 .. n /\ slot = w[n] /\ slot = l.tail
  /\ tokens = Full
  /\ index = Indexed(Remaining(l), ip, slot)

\* What a check does.
InspectSpec(w, n, slot, k, ip, tokens, index) ==
  /\ \/ Known(lru, w, n, slot, k, ip, tokens, index)
     \/ Grown(lru, w, n, slot, k, ip, tokens, index)
     \/ Evicted(lru, w, n, slot, k, ip, tokens, index)
  /\ Changed(lru, lru', Front(w, n, slot, k), n, slot, ip, Spend(tokens), now, index)
  /\ answer' = <<[ip |-> ip, denied |-> ip \in Denied, limited |-> ~Affords(tokens)]>>
  /\ now' = now

\* It does one of the three.
LEMMA InspectDoes ==
  ASSUME SlabInv, NEW w, Whole(lru, w), NEW ip \in Ip, Inspect(ip)
  PROVE  \E n, slot, k, tokens, index : InspectSpec(w, n, slot, k, ip, tokens, index)
<1>. PICK m : m = Len(lru.slab)
  OBVIOUS
<1>. DEFINE ready == IF ip \in DOMAIN lru.index THEN Revisit(lru, ip) ELSE Admit(lru, ip)
<1>1. /\ lru \in Lru /\ now \in Nat /\ m \in Nat
      /\ Linked(lru, w, m)
  BY Parts DEF SlabInv, TypeOK, Lru, Index, Whole
<1>2. ASSUME NEW n, NEW slot, NEW k, NEW tokens, NEW index,
             Changed(lru, ready, Front(w, n, slot, k), n, slot, ip, tokens, now, index),
             ready.index[ip] = slot, m <= n, n \in Nat
      PROVE  /\ Changed(lru, lru', Front(w, n, slot, k), n, slot, ip, Spend(tokens), now, index)
             /\ answer' = <<[ip |-> ip, denied |-> ip \in Denied, limited |-> ~Affords(tokens)]>>
             /\ now' = now
  <2>1. /\ lru' = [ready EXCEPT !.slab[slot].tokens = Spend(@)]
        /\ answer' = <<[ip |-> ip, denied |-> ip \in Denied,
                        limited |-> ~Affords(ready.slab[slot].tokens)]>>
        /\ now' = now
    <3>1. ready = IF ip \in DOMAIN lru.index THEN Revisit(lru, ip) ELSE Admit(lru, ip)
      OBVIOUS
    <3>. HIDE DEF ready
    <3>. QED  BY <1>2, <3>1 DEF Inspect
  <2>2. ready.slab[slot].tokens = tokens
    BY <1>2 DEF Changed
  <2>3. \A i \in 1 .. Len(lru.slab) : i \in 1 .. n
    BY <1>1, <1>2
  <2>. HIDE DEF ready
  <2>4. Changed(lru, [ready EXCEPT !.slab[slot].tokens = Spend(@)], Front(w, n, slot, k), n, slot,
                ip, Spend(tokens), now, index)
    BY <1>2, <2>3, PaidFor
  <2>. QED  BY <2>1, <2>2, <2>4
<1>. HIDE DEF ready
<1>3. CASE ip \in DOMAIN lru.index
  <2>. PICK slot : slot = lru.index[ip]
    OBVIOUS
  <2>1. slot \in 1 .. m /\ lru.slab[slot].ip = <<ip>>
    BY <1>3 DEF SlabInv, Named
  <2>2. PICK k \in 1 .. m : w[k] = slot
    BY <2>1 DEF Whole
  <2>. PICK tokens : tokens = Refill(lru.slab[slot], now)
    OBVIOUS
  <2>3. Changed(lru, Revisit(lru, ip), Front(w, m, slot, k), m, slot, ip, tokens, now, lru.index)
    BY <1>1, <1>3, <2>1, <2>2, RevisitDoes
  <2>4. ready = Revisit(lru, ip)
    BY <1>3 DEF ready
  <2>5. ready.index[ip] = slot /\ m <= m
    BY <1>1, <2>3, <2>4 DEF Changed
  <2>6. Known(lru, w, m, slot, k, ip, tokens, lru.index)
    BY <1>3, <2>2 DEF Known
  <2>7. InspectSpec(w, m, slot, k, ip, tokens, lru.index)
    BY <1>1, <1>2, <2>3, <2>4, <2>5, <2>6 DEF InspectSpec
  <2>. QED  BY <2>7
<1>4. CASE ip \notin DOMAIN lru.index /\ m < Cap
  <2>. PICK n : n = m + 1
    OBVIOUS
  <2>. PICK index : index = Indexed(lru.index, ip, n)
    OBVIOUS
  <2>1. /\ Changed(lru, Admit(lru, ip), Front(w, n, n, n), n, n, ip, Full, now, index)
        /\ Admit(lru, ip).index[ip] = n
    BY <1>1, <1>4, AdmitGrows
  <2>2. ready = Admit(lru, ip)
    BY <1>4 DEF ready
  <2>3. m <= n /\ n \in Nat
    BY <1>1
  <2>4. Grown(lru, w, n, n, n, ip, Full, index)
    BY <1>4 DEF Grown
  <2>5. InspectSpec(w, n, n, n, ip, Full, index)
    BY <1>2, <2>1, <2>2, <2>3, <2>4 DEF InspectSpec
  <2>. QED  BY <2>5
<1>5. CASE ip \notin DOMAIN lru.index /\ ~(m < Cap)
  <2>. PICK slot : slot = w[m]
    OBVIOUS
  <2>. PICK index : index = Indexed(Remaining(lru), ip, slot)
    OBVIOUS
  <2>1. /\ m \in 1 .. m
        /\ Changed(lru, Admit(lru, ip), Front(w, m, slot, m), m, slot, ip, Full, now, index)
        /\ Admit(lru, ip).index[ip] = slot
    BY <1>1, <1>5, AdmitEvicts
  <2>2. ready = Admit(lru, ip)
    BY <1>5 DEF ready
  <2>3. m <= m /\ slot = lru.tail
    BY <1>1, <2>1 DEF Linked, At
  <2>4. Evicted(lru, w, m, slot, m, ip, Full, index)
    BY <1>5, <2>1, <2>3 DEF Evicted
  <2>5. InspectSpec(w, m, slot, m, ip, Full, index)
    BY <1>1, <1>2, <2>1, <2>2, <2>3, <2>4 DEF InspectSpec
  <2>. QED  BY <2>5
<1>. QED  BY <1>3, <1>4, <1>5

-----------------------------------------------------------------------------
(* A check keeps the invariant.                                            *)

\* A number up to the next is the next or is not above the last.
LEMMA OrBelow == ASSUME NEW m \in Nat, NEW i \in 1 .. m + 1, i # m + 1 PROVE i \in 1 .. m
OBVIOUS

\* A number up to the last is below the next.
LEMMA OneUp == ASSUME NEW m \in Nat PROVE \A j \in 1 .. m : j \in 1 .. m + 1 /\ j # m + 1
OBVIOUS

\* What the three ways have in common: the slot comes from place k, and every other
\* slot was in the list at another place.
LEMMA FromItsPlace ==
  ASSUME SlabInv, NEW w, Whole(lru, w), NEW n, NEW slot, NEW k, NEW ip, NEW tokens, NEW index,
         InspectSpec(w, n, slot, k, ip, tokens, index)
  PROVE  /\ n \in Nat /\ k \in 1 .. n /\ slot \in 1 .. n /\ n <= Cap
         /\ Len(lru.slab) \in Nat /\ Len(lru.slab) <= n
         /\ \A i \in 1 .. n : i # k => i \in 1 .. Len(lru.slab) /\ w[i] # slot
         /\ \A i \in 1 .. n : i < k => i \in 1 .. Len(lru.slab) /\ w[i] # slot
         /\ \A s \in 1 .. n : s # slot => /\ s \in 1 .. Len(lru.slab)
                                          /\ \E i \in 1 .. n : i # k /\ w[i] = s
<1>1. /\ Len(lru.slab) \in Nat /\ Len(lru.slab) <= Cap /\ Cap \in Nat
      /\ Linked(lru, w, Len(lru.slab))
      /\ \A s \in 1 .. Len(lru.slab) : \E i \in 1 .. Len(lru.slab) : w[i] = s
      /\ w \in [1 .. Len(lru.slab) -> 1 .. Len(lru.slab)]
      /\ \A i, j \in 1 .. Len(lru.slab) : w[i] = w[j] => i = j
  BY Parts, Bounds DEF SlabInv, TypeOK, Lru, Index, Whole, Linked
<1>2. CASE n = Len(lru.slab) /\ k \in 1 .. n /\ slot = w[k]
  <2>1. /\ n \in Nat /\ n <= Cap /\ w \in [1 .. n -> 1 .. n]
        /\ \A s \in 1 .. n : \E i \in 1 .. n : w[i] = s
        /\ \A i, j \in 1 .. n : w[i] = w[j] => i = j
    BY <1>1, <1>2
  <2>2. slot \in 1 .. n
    BY <1>2, <2>1
  <2>3. \A i \in 1 .. n : i # k => w[i] # slot
    BY <1>2, <2>1
  <2>4. ASSUME NEW i \in 1 .. n, i < k PROVE w[i] # slot
    <3>1. i # k
      BY <1>2, <2>1, <2>4
    <3>. QED  BY <2>3, <3>1
  <2>5. ASSUME NEW s \in 1 .. n, s # slot PROVE \E i \in 1 .. n : i # k /\ w[i] = s
    <3>. PICK i \in 1 .. n : w[i] = s
      BY <2>1
    <3>1. i # k
      BY <1>2, <2>5
    <3>. QED  BY <3>1
  <2>. QED  BY <1>2, <2>1, <2>2, <2>3, <2>4, <2>5
<1>3. CASE Len(lru.slab) < Cap /\ n = Len(lru.slab) + 1 /\ slot = n /\ k = n
  <2>. PICK m : m = Len(lru.slab)
    OBVIOUS
  <2>1. /\ m \in Nat /\ m < Cap /\ Cap \in Nat /\ n = m + 1 /\ w \in [1 .. m -> 1 .. m]
        /\ \A s \in 1 .. m : \E i \in 1 .. m : w[i] = s
    BY <1>1, <1>3
  <2>2. n \in Nat /\ n <= Cap /\ m <= n /\ n \in 1 .. n
    BY <2>1
  <2>3. ASSUME NEW i \in 1 .. n, i # n PROVE i \in 1 .. m
    <3>1. m \in Nat /\ n = m + 1 /\ i \in 1 .. m + 1 /\ i # m + 1
      BY <2>1, <2>3
    <3>2. i \in 1 .. m
      BY <3>1, OrBelow
    <3>. QED  BY <3>2
  <2>4. ASSUME NEW i \in 1 .. m PROVE i \in 1 .. n /\ i # n /\ w[i] \in 1 .. m /\ w[i] # n
    <3>1. \A j \in 1 .. m : j \in 1 .. m + 1 /\ j # m + 1
      BY <2>1, OneUp
    <3>2. w[i] \in 1 .. m
      BY <2>1
    <3>. QED  BY <2>1, <3>1, <3>2
  <2>5. ASSUME NEW i \in 1 .. n, i # n PROVE i \in 1 .. m /\ w[i] # n
    <3>1. i \in 1 .. m
      BY <2>3, <2>5
    <3>. QED  BY <2>4, <3>1
  <2>6. ASSUME NEW i \in 1 .. n, i < n PROVE i \in 1 .. m /\ w[i] # n
    <3>1. i # n
      BY <2>2, <2>6
    <3>. QED  BY <2>5, <3>1
  <2>7. ASSUME NEW s \in 1 .. n, s # n
        PROVE  s \in 1 .. m /\ \E i \in 1 .. n : i # n /\ w[i] = s
    <3>1. s \in 1 .. m
      BY <2>3, <2>7
    <3>2. PICK i \in 1 .. m : w[i] = s
      BY <2>1, <3>1
    <3>. QED  BY <2>4, <3>1, <3>2
  <2>8. /\ n \in Nat /\ k \in 1 .. n /\ slot \in 1 .. n /\ n <= Cap
        /\ Len(lru.slab) \in Nat /\ Len(lru.slab) <= n
    BY <1>1, <1>3, <2>1, <2>2
  <2>9. k = n /\ slot = n /\ Len(lru.slab) = m
    BY <1>3
  <2>. QED  BY <2>5, <2>6, <2>7, <2>8, <2>9
<1>. QED  BY <1>2, <1>3 DEF InspectSpec, Known, Grown, Evicted

\* The list is whole again.
LEMMA StaysWhole ==
  ASSUME SlabInv, NEW w, Whole(lru, w), NEW n, NEW slot, NEW k, NEW ip, NEW tokens, NEW index,
         InspectSpec(w, n, slot, k, ip, tokens, index)
  PROVE  Whole(lru', Front(w, n, slot, k)) /\ Len(lru'.slab) = n
<1>. DEFINE v == Front(w, n, slot, k)
<1>1. Linked(lru', v, n) /\ Len(lru'.slab) = n
  BY DEF InspectSpec, Changed
<1>2. \A i \in 1 .. n : v[i] = IF i = 1 THEN slot ELSE IF i <= k THEN w[i - 1] ELSE w[i]
  BY DEF Front
<1>. HIDE DEF v
<1>3. ASSUME NEW s \in 1 .. n PROVE \E i \in 1 .. n : v[i] = s
  <2>0. n \in Nat /\ k \in 1 .. n
    BY FromItsPlace
  <2>1. CASE s = slot
    <3>1. 1 \in 1 .. n /\ v[1] = s
      BY <1>2, <2>0, <2>1
    <3>. QED  BY <3>1
  <2>2. CASE s # slot
    <3>. PICK i \in 1 .. n : i # k /\ w[i] = s
      BY <2>2, FromItsPlace
    <3>1. CASE i < k
      <4>1. i + 1 \in 1 .. n /\ i + 1 # 1 /\ i + 1 <= k /\ i + 1 - 1 = i
        BY <2>0, <3>1
      <4>2. v[i + 1] = s
        BY <1>2, <4>1
      <4>. QED  BY <4>1, <4>2
    <3>2. CASE i > k
      <4>1. i # 1 /\ ~(i <= k)
        BY <2>0, <3>2
      <4>2. v[i] = s
        BY <1>2, <4>1
      <4>. QED  BY <4>2
    <3>. QED  BY <2>0, <3>1, <3>2
  <2>. QED  BY <2>1, <2>2
<1>4. Whole(lru', v)
  BY <1>1, <1>3 DEF Whole
<1>. QED  BY <1>1, <1>4 DEF v

\* Two addresses have no slot in common.
LEMMA OwnSlots ==
  ASSUME NEW l, Named(l), NEW x \in DOMAIN l.index, NEW y, l.slab[l.index[x]].ip = <<y>>
  PROVE  x = y
<1>1. <<x>> = <<y>>
  BY DEF Named
<1>. QED  BY <1>1

\* What is in the index when a check is done: the address with its slot, and the others
\* that still have theirs.
LEMMA IndexAfter ==
  ASSUME SlabInv, NEW w, Whole(lru, w), NEW n, NEW slot, NEW k, NEW ip, NEW tokens, NEW index,
         InspectSpec(w, n, slot, k, ip, tokens, index)
  PROVE  /\ lru'.index = index
         /\ ip \in DOMAIN index /\ index[ip] = slot
         /\ \A x \in DOMAIN index \ {ip} :
              x \in DOMAIN lru.index /\ index[x] = lru.index[x] /\ index[x] # slot
         /\ \A x \in DOMAIN lru.index \ {ip} : lru.index[x] # slot => x \in DOMAIN index
<1>1. lru'.index = index
  BY DEF InspectSpec, Changed
<1>2. \A x \in DOMAIN lru.index :
        lru.index[x] \in 1 .. Len(lru.slab) /\ lru.slab[lru.index[x]].ip = <<x>>
  BY DEF SlabInv, Named
<1>3. CASE Known(lru, w, n, slot, k, ip, tokens, index)
  <2>1. index = lru.index /\ ip \in DOMAIN index /\ index[ip] = slot
    BY <1>3 DEF Known
  <2>2. ASSUME NEW x \in DOMAIN index \ {ip} PROVE index[x] # slot
    <3>1. index[x] = slot => x = ip
      BY <1>2, <2>1, OwnSlots DEF SlabInv
    <3>. QED  BY <3>1
  <2>. QED  BY <1>1, <2>1, <2>2
<1>4. CASE Grown(lru, w, n, slot, k, ip, tokens, index)
  <2>1. index = Indexed(lru.index, ip, slot) /\ ip \notin DOMAIN lru.index /\ slot = Len(lru.slab) + 1
    BY <1>4 DEF Grown
  <2>2. Len(lru.slab) \in Nat
    BY FromItsPlace
  <2>3. \A x \in DOMAIN lru.index : lru.index[x] # slot
    BY <1>2, <2>1, <2>2
  <2>. QED  BY <1>1, <2>1, <2>3 DEF Indexed
<1>5. CASE Evicted(lru, w, n, slot, k, ip, tokens, index)
  <2>1. /\ index = Indexed(Remaining(lru), ip, slot) /\ ip \notin DOMAIN lru.index
        /\ slot = lru.tail
    BY <1>5 DEF Evicted
  <2>2. DOMAIN Remaining(lru) = {x \in DOMAIN lru.index : lru.slab[slot].ip # <<x>>}
    BY <2>1 DEF Remaining, Restrict, Gone
  <2>3. \A x \in DOMAIN Remaining(lru) : Remaining(lru)[x] = lru.index[x]
    BY DEF Remaining, Restrict
  <2>4. ASSUME NEW x \in DOMAIN lru.index PROVE x \in DOMAIN Remaining(lru) <=> lru.index[x] # slot
    <3>1. CASE lru.index[x] = slot
      BY <1>2, <2>2, <3>1
    <3>2. CASE lru.index[x] # slot
      <4>1. slot \in 1 .. Len(lru.slab)
        <5>1. n = Len(lru.slab)
          BY <1>5 DEF Evicted
        <5>. QED  BY <5>1, FromItsPlace
      <4>2. PICK y \in DOMAIN lru.index : lru.index[y] = slot
        BY <4>1 DEF SlabInv, Named
      <4>3. lru.slab[slot].ip = <<y>>
        BY <1>2, <4>2
      <4>4. lru.slab[slot].ip # <<x>>
        <5>1. lru.slab[slot].ip = <<x>> => y = x
          BY <4>2, OwnSlots DEF SlabInv
        <5>. QED  BY <3>2, <4>2, <5>1
      <4>5. x \in DOMAIN Remaining(lru)
        BY <2>2, <4>4
      <4>. QED  BY <3>2, <4>5
    <3>. QED  BY <3>1, <3>2
  <2>. PICK rest : rest = Remaining(lru)
    OBVIOUS
  <2>5. /\ DOMAIN index = DOMAIN rest \cup {ip} /\ index[ip] = slot
        /\ \A x \in DOMAIN rest : x # ip => index[x] = rest[x]
    BY <2>1 DEF Indexed
  <2>6. ASSUME NEW x \in DOMAIN index \ {ip}
        PROVE  x \in DOMAIN lru.index /\ index[x] = lru.index[x] /\ index[x] # slot
    <3>1. x \in DOMAIN rest /\ x # ip
      BY <2>5
    <3>2. x \in DOMAIN lru.index
      BY <2>2, <3>1
    <3>3. index[x] = lru.index[x]
      BY <2>3, <2>5, <3>1
    <3>4. lru.index[x] # slot
      BY <2>4, <3>1, <3>2
    <3>. QED  BY <3>2, <3>3, <3>4
  <2>7. ASSUME NEW x \in DOMAIN lru.index \ {ip}, lru.index[x] # slot PROVE x \in DOMAIN index
    BY <2>4, <2>5, <2>7
  <2>. QED  BY <1>1, <2>5, <2>6, <2>7
<1>. QED  BY <1>3, <1>4, <1>5 DEF InspectSpec

\* The index and the nodes name each other again.
LEMMA StaysNamed ==
  ASSUME SlabInv, NEW w, Whole(lru, w), NEW n, NEW slot, NEW k, NEW ip, NEW tokens, NEW index,
         InspectSpec(w, n, slot, k, ip, tokens, index)
  PROVE  Named(lru')
<1>1. /\ Len(lru'.slab) = n /\ lru'.slab[slot].ip = <<ip>>
      /\ \A i \in 1 .. Len(lru.slab) : i # slot => SameData(lru'.slab[i], lru.slab[i])
  BY DEF InspectSpec, Changed
<1>2. /\ slot \in 1 .. n /\ n \in Nat /\ Len(lru.slab) \in Nat /\ Len(lru.slab) <= n
      /\ \A s \in 1 .. n : s # slot => s \in 1 .. Len(lru.slab)
  BY FromItsPlace
<1>3. /\ lru'.index = index
      /\ ip \in DOMAIN index /\ index[ip] = slot
      /\ \A x \in DOMAIN index \ {ip} :
           x \in DOMAIN lru.index /\ index[x] = lru.index[x] /\ index[x] # slot
      /\ \A x \in DOMAIN lru.index \ {ip} : lru.index[x] # slot => x \in DOMAIN index
  BY IndexAfter
<1>4. ASSUME NEW x \in DOMAIN index
      PROVE  index[x] \in 1 .. n /\ lru'.slab[index[x]].ip = <<x>>
  <2>1. CASE x = ip
    BY <1>1, <1>2, <1>3, <2>1
  <2>2. CASE x # ip
    <3>1. /\ index[x] = lru.index[x] /\ index[x] # slot /\ lru.index[x] \in 1 .. Len(lru.slab)
          /\ lru.slab[lru.index[x]].ip = <<x>>
      BY <1>3, <2>2 DEF SlabInv, Named
    <3>. QED  BY <1>1, <1>2, <3>1 DEF SameData
  <2>. QED  BY <2>1, <2>2
<1>5. ASSUME NEW s \in 1 .. n PROVE \E x \in DOMAIN index : index[x] = s
  <2>1. CASE s = slot
    BY <1>3, <2>1
  <2>2. CASE s # slot
    <3>. PICK x \in DOMAIN lru.index : lru.index[x] = s
      BY <1>2, <2>2 DEF SlabInv, Named
    <3>1. CASE x = ip
      <4>1. Known(lru, w, n, slot, k, ip, tokens, index)
        BY <3>1 DEF InspectSpec, Grown, Evicted
      <4>. QED  BY <2>2, <3>1, <4>1 DEF Known
    <3>2. CASE x # ip
      BY <1>3, <2>2, <3>2
    <3>. QED  BY <3>1, <3>2
  <2>. QED  BY <2>1, <2>2
<1>. QED  BY <1>1, <1>3, <1>4, <1>5 DEF Named

\* A check keeps the invariant.
LEMMA InspectKeepsSlab == ASSUME SlabInv, NEW ip \in Ip, Inspect(ip) PROVE SlabInv'
<1>. PICK w : Whole(lru, w)
  BY DEF SlabInv
<1>. PICK n, slot, k, tokens, index : InspectSpec(w, n, slot, k, ip, tokens, index)
  BY InspectDoes
<1>1. Whole(lru', Front(w, n, slot, k)) /\ Len(lru'.slab) = n /\ n <= Cap
  BY StaysWhole, FromItsPlace
<1>2. Named(lru')
  BY StaysNamed
<1>3. TypeOK'
  <2>1. lru' \in Lru /\ now' = now
    BY DEF InspectSpec, Changed
  <2>2. answer'[1].ip = ip
    BY DEF InspectSpec
  <2>. QED  BY <2>1, <2>2 DEF SlabInv, TypeOK, Lru, Index
<1>. QED  BY <1>1, <1>2, <1>3 DEF SlabInv

\* SlabInv is an invariant of the limiter.
LEMMA SlabInvHolds == Spec => []SlabInv
<1>1. Init => SlabInv
  <2>. SUFFICES ASSUME Init PROVE SlabInv
    OBVIOUS
  <2>1. /\ lru.slab = << >> /\ Len(lru.slab) = 0 /\ lru.head = NIL /\ lru.tail = NIL
        /\ lru.index = [ip \in {} |-> NIL]
    BY DEF Init
  <2>2. lru \in Lru
    <3>1. lru.index \in Index
      BY <2>1 DEF Index
    <3>2. << >> \in Seq(Node) /\ NIL \in Slot
      BY Bounds DEF Slot
    <3>. QED  BY <2>1, <3>1, <3>2 DEF Init, Lru
  <2>3. TypeOK
    <3>1. now \in 0 .. MaxNow /\ answer = << >>
      BY ClockAssumption DEF Init
    <3>. QED  BY <2>2, <3>1 DEF TypeOK, Lru, Index
  <2>4. Whole(lru, << >>)
    <3>1. << >> \in [1 .. 0 -> 1 .. 0]
      OBVIOUS
    <3>. QED  BY <2>1, <3>1 DEF Whole, Linked, At
  <2>5. Named(lru)
    BY <2>1 DEF Named
  <2>. QED  BY <2>1, <2>3, <2>4, <2>5, Bounds DEF SlabInv
<1>2. SlabInv /\ [Next]_vars => SlabInv'
  <2>. SUFFICES ASSUME SlabInv, [Next]_vars PROVE SlabInv'
    OBVIOUS
  <2>1. ASSUME lru' = lru, answer' = answer, now' \in 0 .. MaxNow PROVE SlabInv'
    <3>1. TypeOK'
      BY <2>1 DEF SlabInv, TypeOK
    <3>2. PICK w : Whole(lru, w)
      BY DEF SlabInv
    <3>3. Whole(lru', w)
      BY <2>1, <3>2
    <3>4. Named(lru') /\ Len(lru'.slab) <= Cap
      BY <2>1 DEF SlabInv
    <3>. QED  BY <3>1, <3>3, <3>4 DEF SlabInv
  <2>2. CASE UNCHANGED vars
    <3>1. now' \in 0 .. MaxNow
      BY <2>2 DEF vars, SlabInv, TypeOK
    <3>. QED  BY <2>1, <2>2, <3>1 DEF vars
  <2>3. CASE Tick
    <3>1. now' \in 0 .. MaxNow
      BY <2>3, ClockAssumption DEF Tick, SlabInv, TypeOK
    <3>. QED  BY <2>1, <2>3, <3>1 DEF Tick
  <2>. QED  BY <2>2, <2>3, InspectKeepsSlab DEF Next
<1>. QED  BY <1>1, <1>2, PTL DEF Spec

-----------------------------------------------------------------------------
(* The walk from the head meets the slots in the order of the list.        *)

Prefix(w, n) == [i \in 1 .. n |-> w[i]]

\* One step of the walk.
Further(l, u) ==
  LET at == IF u = << >> THEN l.head ELSE l.slab[u[Len(u)]].next
  IN  IF at = NIL THEN u ELSE Append(u, at)

Follows(f, l, m) == f = [n \in 0 .. m |-> IF n = 0 THEN << >> ELSE Further(l, f[n - 1])]

\* The walk of a structure, Walk of the limiter's.
WalkOf(l) ==
  LET step[n \in 0 .. Len(l.slab)] ==
        IF n = 0 THEN << >>
        ELSE LET w == step[n - 1]
                 at == IF w = << >> THEN l.head ELSE l.slab[w[Len(w)]].next
             IN IF at = NIL THEN w ELSE Append(w, at)
  IN step[Len(l.slab)]

\* A step of the walk reaches the next slot of the order.
LEMMA FurtherAlong ==
  ASSUME NEW l, NEW w, NEW m, Linked(l, w, m), m = Len(l.slab), NEW n \in Nat, n + 1 <= m
  PROVE  Further(l, Prefix(w, n)) = Prefix(w, n + 1)
<1>0. /\ m \in Nat /\ w \in [1 .. m -> 1 .. m]
      /\ l.head = At(w, m, 1)
      /\ \A i \in 1 .. m : l.slab[w[i]].next = At(w, m, i + 1)
  <2>1. /\ m \in Nat /\ w \in [1 .. m -> 1 .. Len(l.slab)]
        /\ l.head = At(w, m, 1)
    BY DEF Linked
  <2>2. \A i \in 1 .. m : l.slab[w[i]].next = At(w, m, i + 1)
    BY DEF Linked
  <2>. QED  BY <2>1, <2>2
<1>1. n + 1 \in 1 .. m /\ w[n + 1] \in 1 .. m /\ w[n + 1] # NIL
  <2>1. n + 1 \in 1 .. m
    BY <1>0
  <2>2. w[n + 1] \in 1 .. m
    BY <1>0, <2>1
  <2>. QED  BY <2>1, <2>2 DEF NIL
<1>. PICK u : u = Prefix(w, n)
  OBVIOUS
<1>2. u \in Seq(1 .. m) /\ Len(u) = n /\ \A i \in 1 .. n : u[i] = w[i]
  <2>0. n <= m /\ m \in Nat
    BY <1>0
  <2>1. ASSUME NEW i \in 1 .. n PROVE w[i] \in 1 .. m
    <3>1. i \in 1 .. m
      BY <2>0
    <3>. QED  BY <1>0, <3>1
  <2>2. u \in [1 .. n -> 1 .. m] /\ \A i \in 1 .. n : u[i] = w[i]
    BY <2>1 DEF Prefix
  <2>. QED  BY <2>2, MakesSeq
<1>3. ASSUME Further(l, u) = Append(u, w[n + 1]) PROVE Further(l, u) = Prefix(w, n + 1)
  <2>. PICK v : v = Append(u, w[n + 1])
    OBVIOUS
  <2>1. v \in Seq(1 .. m) /\ Len(v) = n + 1 /\ v[n + 1] = w[n + 1]
        /\ \A i \in 1 .. n : v[i] = u[i]
    BY <1>1, <1>2, AppendProperties
  <2>2. ASSUME NEW i \in 1 .. n + 1 PROVE v[i] = w[i]
    <3>1. i \in 1 .. n \/ i = n + 1
      OBVIOUS
    <3>. QED  BY <1>2, <2>1, <3>1
  <2>3. v = [i \in 1 .. n + 1 |-> v[i]]
    BY <2>1
  <2>4. v = Prefix(w, n + 1)
    BY <2>2, <2>3 DEF Prefix
  <2>. QED  BY <1>3, <2>4
<1>4. CASE n = 0
  <2>1. u = << >>
    BY <1>2, <1>4, EmptySeq
  <2>2. l.head = w[n + 1]
    BY <1>0, <1>1, <1>4 DEF At
  <2>3. Further(l, u) = Append(u, w[n + 1])
    BY <1>1, <2>1, <2>2 DEF Further
  <2>. QED  BY <1>3, <2>3
<1>5. CASE n # 0
  <2>1. n \in 1 .. n /\ n \in 1 .. m
    BY <1>0, <1>1, <1>5
  <2>2. u # << >>
    BY <1>2, <1>5, EmptySeq
  <2>3. u[Len(u)] = w[n]
    BY <1>2, <2>1
  <2>4. l.slab[w[n]].next = w[n + 1]
    BY <1>0, <1>1, <2>1 DEF At
  <2>5. Further(l, u) = Append(u, w[n + 1])
    BY <1>1, <2>2, <2>3, <2>4 DEF Further
  <2>. QED  BY <1>3, <2>5
<1>. QED  BY <1>4, <1>5

\* Following the links is going through the order.
LEMMA FollowsTheOrder ==
  ASSUME NEW l, NEW w, NEW m, Linked(l, w, m), m = Len(l.slab)
  PROVE  /\ \E f : Follows(f, l, m)
         /\ \A f : Follows(f, l, m) => f[m] = Prefix(w, m)
<1>0. m \in Nat
  BY DEF Linked
<1>1. Prefix(w, 0) = << >>
  BY DEF Prefix
<1>2. \A n \in 0 .. m : n # 0 => n - 1 \in 0 .. m /\ Further(l, Prefix(w, n - 1)) = Prefix(w, n)
  <2>1. ASSUME NEW n \in 0 .. m, n # 0
        PROVE  n - 1 \in 0 .. m /\ Further(l, Prefix(w, n - 1)) = Prefix(w, n)
    <3>1. n - 1 \in Nat /\ n - 1 \in 0 .. m /\ n - 1 + 1 = n /\ n - 1 + 1 <= m
      BY <1>0, <2>1
    <3>2. Further(l, Prefix(w, n - 1)) = Prefix(w, n - 1 + 1)
      BY <3>1, FurtherAlong
    <3>. QED  BY <3>1, <3>2
  <2>. QED  BY <2>1
<1>3. \E f : Follows(f, l, m)
  <2>. DEFINE f == [n \in 0 .. m |-> Prefix(w, n)]
  <2>1. \A n \in 0 .. m : f[n] = IF n = 0 THEN << >> ELSE Further(l, f[n - 1])
    BY <1>1, <1>2
  <2>2. f = [n \in 0 .. m |-> f[n]]
    OBVIOUS
  <2>. HIDE DEF f
  <2>3. Follows(f, l, m)
    BY <2>1, <2>2 DEF Follows
  <2>. QED  BY <2>3
<1>4. ASSUME NEW f, Follows(f, l, m) PROVE f[m] = Prefix(w, m)
  <2>1. \A n \in 0 .. m : f[n] = IF n = 0 THEN << >> ELSE Further(l, f[n - 1])
    BY <1>4 DEF Follows
  <2>. DEFINE Bad == {n \in 0 .. m : f[n] # Prefix(w, n)}
  <2>. SUFFICES ASSUME Bad # {} PROVE FALSE
    <3>1. m \in 0 .. m
      BY <1>0
    <3>. QED  BY <3>1
  <2>2. Bad \in SUBSET Nat
    BY <1>0
  <2>3. PICK n \in Bad : \A j \in Bad : n <= j
    BY <2>2, LeastMember
  <2>4. n \in 0 .. m /\ f[n] # Prefix(w, n)
    OBVIOUS
  <2>5. n # 0
    BY <1>1, <2>1, <2>4
  <2>6. n - 1 \in 0 .. m /\ ~(n <= n - 1)
    BY <1>0, <2>4, <2>5
  <2>7. f[n - 1] = Prefix(w, n - 1)
    BY <2>3, <2>6
  <2>8. f[n] = Further(l, f[n - 1])
    BY <2>1, <2>4, <2>5
  <2>. QED  BY <1>2, <2>4, <2>5, <2>7, <2>8
<1>. QED  BY <1>3, <1>4

\* The walk is the order.
LEMMA WalkIsTheOrder == ASSUME NEW l, NEW w, Whole(l, w) PROVE WalkOf(l) = w
<1>. PICK m : m = Len(l.slab)
  OBVIOUS
<1>1. Linked(l, w, m)
  BY DEF Whole
<1>. DEFINE f == CHOOSE g : g = [n \in 0 .. Len(l.slab) |->
                   IF n = 0 THEN << >>
                   ELSE LET u == g[n - 1]
                            at == IF u = << >> THEN l.head ELSE l.slab[u[Len(u)]].next
                        IN IF at = NIL THEN u ELSE Append(u, at)]
<1>2. WalkOf(l) = f[m]
  BY DEF WalkOf
<1>3. Follows(f, l, m)
  <2>1. \E g : g = [n \in 0 .. Len(l.slab) |->
                   IF n = 0 THEN << >>
                   ELSE LET u == g[n - 1]
                            at == IF u = << >> THEN l.head ELSE l.slab[u[Len(u)]].next
                        IN IF at = NIL THEN u ELSE Append(u, at)]
    <3>1. PICK g : Follows(g, l, m)
      BY <1>1, FollowsTheOrder
    <3>2. g = [n \in 0 .. Len(l.slab) |->
                   IF n = 0 THEN << >>
                   ELSE LET u == g[n - 1]
                            at == IF u = << >> THEN l.head ELSE l.slab[u[Len(u)]].next
                        IN IF at = NIL THEN u ELSE Append(u, at)]
      BY <3>1 DEF Follows, Further
    <3>. QED  BY <3>2
  <2>2. f = [n \in 0 .. Len(l.slab) |->
                   IF n = 0 THEN << >>
                   ELSE LET u == f[n - 1]
                            at == IF u = << >> THEN l.head ELSE l.slab[u[Len(u)]].next
                        IN IF at = NIL THEN u ELSE Append(u, at)]
    BY <2>1
  <2>. QED  BY <2>2 DEF Follows, Further
<1>. HIDE DEF f
<1>4. f[m] = Prefix(w, m)
  BY <1>1, <1>3, FollowsTheOrder
<1>5. Prefix(w, m) = w
  <2>1. w \in [1 .. m -> 1 .. m]
    BY <1>1 DEF Linked
  <2>. QED  BY <2>1 DEF Prefix
<1>. QED  BY <1>2, <1>4, <1>5

\* As many addresses are indexed as the slab has slots.
LEMMA IndexedOncePerSlot ==
  ASSUME NEW l, Named(l), Len(l.slab) \in Nat
  PROVE  Cardinality(DOMAIN l.index) = Len(l.slab)
<1>. PICK m : m = Len(l.slab)
  OBVIOUS
<1>. PICK T : T = DOMAIN l.index
  OBVIOUS
<1>. DEFINE g == [s \in 1 .. m |-> CHOOSE x \in T : l.index[x] = s]
<1>1. \A s \in 1 .. m : g[s] \in T /\ l.index[g[s]] = s
  BY DEF Named
<1>2. g \in [1 .. m -> T]
  BY <1>1
<1>. HIDE DEF g
<1>3. \A a, b \in 1 .. m : g[a] = g[b] => a = b
  BY <1>1
<1>4. ASSUME NEW x \in T PROVE \E s \in 1 .. m : g[s] = x
  <2>1. l.index[x] \in 1 .. m /\ l.slab[l.index[x]].ip = <<x>>
    BY DEF Named
  <2>. PICK s : s = l.index[x]
    OBVIOUS
  <2>2. g[s] \in DOMAIN l.index /\ l.slab[l.index[g[s]]].ip = <<x>>
    BY <1>1, <2>1
  <2>3. g[s] = x
    BY <2>2, OwnSlots
  <2>. QED  BY <2>1, <2>3
<1>5. g \in Bijection(1 .. m, T)
  BY <1>2, <1>3, <1>4, Fun_IsBij
<1>6. IsFiniteSet(1 .. m) /\ Cardinality(1 .. m) = m
  <2>1. 1 \in Int /\ m \in Int /\ m \in Nat
    OBVIOUS
  <2>2. IsFiniteSet(1 .. m) /\ Cardinality(1 .. m) = IF 1 > m THEN 0 ELSE m - 1 + 1
    BY <2>1, FS_Interval
  <2>. QED  BY <2>1, <2>2
<1>7. Cardinality(T) = Cardinality(1 .. m)
  BY <1>5, <1>6, FS_Bijection DEF ExistsBijection
<1>. QED  BY <1>6, <1>7

\* The walk is the ghost.
LEMMA WalkIsWhole == ASSUME SlabInv PROVE Whole(lru, Walk) /\ Linked(lru, Walk, Len(lru.slab))
<1>. PICK w : Whole(lru, w)
  BY DEF SlabInv
<1>1. WalkOf(lru) = w
  BY WalkIsTheOrder
<1>2. Walk = w
  BY <1>1 DEF Walk, WalkOf
<1>. QED  BY <1>2 DEF Whole

\* The invariant has all of the structure in it.
LEMMA SlabInvIsEnough == ASSUME SlabInv PROVE StructureOK
<1>. PICK m : m = Len(lru.slab)
  OBVIOUS
<1>. PICK w : w = Walk
  OBVIOUS
<1>1. Linked(lru, w, m)
  BY WalkIsWhole
<1>2. m \in Nat /\ w \in [1 .. m -> 1 .. m]
  <2>1. m \in Nat /\ w \in [1 .. m -> 1 .. Len(lru.slab)]
    BY <1>1 DEF Linked
  <2>. QED  BY <2>1
<1>3. w \in Seq(1 .. m) /\ Len(w) = m /\ DOMAIN w = 1 .. m
  BY <1>2, MakesSeq
<1>4. ListIsWhole
  <2>1. \A i, j \in 1 .. m : i # j => w[i] # w[j]
    BY <1>1 DEF Linked
  <2>2. ASSUME w # << >>
        PROVE  /\ lru.tail = w[Len(w)]
               /\ lru.slab[lru.tail].next = NIL
               /\ lru.slab[lru.head].prev = NIL
    <3>1. m # 0
      BY <1>3, <2>2, EmptySeq
    <3>2. 1 \in 1 .. m /\ m \in 1 .. m /\ ~(m + 1 \in 1 .. m) /\ ~(1 - 1 \in 1 .. m)
      BY <1>2, <3>1
    <3>3. lru.head = At(w, m, 1) /\ lru.tail = At(w, m, m)
      BY <1>1 DEF Linked
    <3>4. lru.slab[w[1]].prev = At(w, m, 1 - 1) /\ lru.slab[w[m]].next = At(w, m, m + 1)
      BY <1>1, <3>2 DEF Linked
    <3>. QED  BY <1>3, <3>2, <3>3, <3>4 DEF At
  <2>3. ASSUME NEW i \in 2 .. Len(w) PROVE lru.slab[w[i]].prev = w[i - 1]
    <3>1. i \in 1 .. m /\ i - 1 \in 1 .. m
      BY <1>2, <1>3
    <3>2. lru.slab[w[i]].prev = At(w, m, i - 1)
      BY <1>1, <3>1 DEF Linked
    <3>. QED  BY <3>1, <3>2 DEF At
  <2>. QED  BY <1>3, <2>1, <2>2, <2>3 DEF ListIsWhole
<1>5. IndexAgrees
  <2>1. \A ip \in DOMAIN lru.index : lru.slab[lru.index[ip]].ip = <<ip>>
    BY DEF SlabInv, Named
  <2>2. Cardinality(DOMAIN lru.index) = Len(lru.slab)
    BY <1>2, IndexedOncePerSlot DEF SlabInv
  <2>. QED  BY <2>1, <2>2 DEF IndexAgrees
<1>. QED  BY <1>4, <1>5 DEF StructureOK, SlabInv

\* Between two checks the links are one list through every slot, readable in both
\* directions, and the index and the nodes name each other (reputation.rs:107-215).
THEOREM StructureStaysOK == Spec => []StructureOK
BY SlabInvHolds, SlabInvIsEnough, PTL

-----------------------------------------------------------------------------
(* Refinement: a check of the slab is a check of the store of buckets.     *)

\* The buckets and the addresses in their order, as the refinement reads them.
StoreOf(l, w) ==
  [bucket  |-> [ip \in DOMAIN l.index |-> [tokens |-> l.slab[l.index[ip]].tokens,
                                           last   |-> l.slab[l.index[ip]].last]],
   recency |-> [i \in DOMAIN w |-> l.slab[w[i]].ip[1]]]

\* What is in that store, of a structure with m slots.
Reads(l, w, m, store) ==
  /\ Tracked(store) = DOMAIN l.index
  /\ DOMAIN store.bucket = DOMAIN l.index
  /\ \A x \in DOMAIN l.index :
       store.bucket[x] = [tokens |-> l.slab[l.index[x]].tokens, last |-> l.slab[l.index[x]].last]
  /\ DOMAIN store.recency = 1 .. m /\ Len(store.recency) = m
  /\ store = [bucket |-> store.bucket, recency |-> store.recency]
  /\ \A i \in 1 .. m : /\ store.recency[i] = l.slab[w[i]].ip[1]
                       /\ store.recency[i] \in DOMAIN l.index
                       /\ l.index[store.recency[i]] = w[i]
  /\ store.bucket = [x \in DOMAIN l.index |-> store.bucket[x]]
  /\ store.recency = [i \in 1 .. m |-> store.recency[i]]

\* It is.
LEMMA StoreReads ==
  ASSUME NEW l, NEW w, Whole(l, w), Named(l)
  PROVE  Reads(l, w, Len(l.slab), StoreOf(l, w))
<1>. PICK m : m = Len(l.slab)
  OBVIOUS
<1>. PICK store : store = StoreOf(l, w)
  OBVIOUS
<1>1. m \in Nat /\ w \in [1 .. m -> 1 .. m] /\ DOMAIN w = 1 .. m
  <2>1. m \in Nat /\ w \in [1 .. m -> 1 .. Len(l.slab)]
    BY DEF Whole, Linked
  <2>. QED  BY <2>1
<1>2. /\ store.bucket = [x \in DOMAIN l.index |-> [tokens |-> l.slab[l.index[x]].tokens,
                                                   last |-> l.slab[l.index[x]].last]]
      /\ store = [bucket |-> store.bucket, recency |-> store.recency]
  BY DEF StoreOf
<1>3. store.recency = [i \in 1 .. m |-> l.slab[w[i]].ip[1]]
  BY <1>1 DEF StoreOf
<1>. PICK r : r = store.recency
  OBVIOUS
<1>4. /\ \A i \in 1 .. m : r[i] = l.slab[w[i]].ip[1]
      /\ DOMAIN r = 1 .. m /\ r = [i \in 1 .. m |-> r[i]]
  BY <1>3
<1>5. ASSUME NEW i \in 1 .. m PROVE r[i] \in DOMAIN l.index /\ l.index[r[i]] = w[i]
  <2>1. w[i] \in 1 .. m
    BY <1>1
  <2>2. PICK x \in DOMAIN l.index : l.index[x] = w[i]
    BY <2>1 DEF Named
  <2>3. l.slab[w[i]].ip = <<x>>
    <3>1. l.slab[l.index[x]].ip = <<x>>
      BY <2>2 DEF Named
    <3>. QED  BY <2>2, <3>1
  <2>4. r[i] = x
    <3>1. <<x>>[1] = x
      OBVIOUS
    <3>2. r[i] = l.slab[w[i]].ip[1]
      BY <1>4
    <3>. QED  BY <2>3, <3>1, <3>2
  <2>. QED  BY <2>2, <2>4
<1>6. Len(r) = m
  <2>1. r \in [1 .. m -> DOMAIN l.index]
    BY <1>4, <1>5
  <2>. QED  BY <1>1, <2>1, MakesSeq
<1>. HIDE DEF StoreOf
<1>7. /\ DOMAIN store.bucket = DOMAIN l.index
      /\ \A x \in DOMAIN l.index :
           store.bucket[x] = [tokens |-> l.slab[l.index[x]].tokens, last |-> l.slab[l.index[x]].last]
      /\ store.bucket = [x \in DOMAIN l.index |-> store.bucket[x]]
  BY <1>2
<1>. QED  BY <1>2, <1>4, <1>5, <1>6, <1>7 DEF Reads, Tracked

\* The slab's slot and place are the store's.
LEMMA SamePlace ==
  ASSUME SlabInv, NEW w, Whole(lru, w), NEW n, NEW slot, NEW k, NEW ip, NEW tokens, NEW index,
         InspectSpec(w, n, slot, k, ip, tokens, index),
         NEW store, Reads(lru, w, Len(lru.slab), store)
  PROVE  /\ Place(store, ip) = k
         /\ Available(store, ip, now) = tokens
         /\ n = IF k > Len(store.recency) THEN k ELSE Len(store.recency)
         /\ \A x \in DOMAIN lru.index : x # ip => (x \in Victim(store, ip) <=> lru.index[x] = slot)
<1>. PICK m : m = Len(lru.slab)
  OBVIOUS
<1>. PICK r : r = store.recency
  OBVIOUS
<1>1. /\ Tracked(store) = DOMAIN lru.index
      /\ DOMAIN r = 1 .. m /\ Len(r) = m
      /\ \A i \in 1 .. m : r[i] \in DOMAIN lru.index /\ lru.index[r[i]] = w[i]
  BY DEF Reads
<1>2. m \in Nat /\ Cap \in Nat /\ n \in Nat /\ k \in 1 .. n
  BY FromItsPlace, Bounds
<1>3. \A x, y \in DOMAIN lru.index : lru.index[x] = lru.index[y] => x = y
  <2>1. ASSUME NEW x \in DOMAIN lru.index, NEW y \in DOMAIN lru.index, lru.index[x] = lru.index[y]
        PROVE  x = y
    <3>1. lru.slab[lru.index[x]].ip = <<y>>
      BY <2>1 DEF SlabInv, Named
    <3>. QED  BY <3>1, OwnSlots DEF SlabInv
  <2>. QED  BY <2>1
<1>4. \A i, j \in 1 .. m : w[i] = w[j] => i = j
  BY DEF Whole, Linked
<1>5. CASE Known(lru, w, n, slot, k, ip, tokens, index)
  <2>1. ip \in DOMAIN lru.index /\ slot = lru.index[ip] /\ n = m /\ k \in 1 .. m /\ slot = w[k]
        /\ tokens = Refill(lru.slab[slot], now)
    BY <1>5 DEF Known
  <2>2. r[k] = ip
    BY <1>1, <1>3, <2>1
  <2>3. \A i \in 1 .. m : r[i] = ip => i = k
    BY ZenonT(60), <1>1, <1>4, <2>1
  <2>4. Place(store, ip) = k
    <3>1. (CHOOSE i \in 1 .. m : r[i] = ip) = k
      BY <2>1, <2>2, <2>3
    <3>. QED  BY <1>1, <2>1, <3>1 DEF Place
  <2>5. Available(store, ip, now) = tokens
    <3>1. store.bucket[ip] = [tokens |-> lru.slab[slot].tokens, last |-> lru.slab[slot].last]
      BY ZenonT(60), <2>1 DEF Reads
    <3>2. /\ store.bucket[ip].tokens = lru.slab[slot].tokens
          /\ store.bucket[ip].last = lru.slab[slot].last
      BY <3>1
    <3>3. Refill(store.bucket[ip], now) = Refill(lru.slab[slot], now)
      BY <3>2 DEF Refill
    <3>. QED  BY <1>1, <2>1, <3>3 DEF Available
  <2>6. Victim(store, ip) = {}
    BY <1>1, <2>1 DEF Victim
  <2>7. \A x \in DOMAIN lru.index : x # ip => lru.index[x] # slot
    BY <1>3, <2>1
  <2>8. ~(k > m)
    BY <1>2, <2>1
  <2>. QED  BY <1>1, <2>1, <2>4, <2>5, <2>6, <2>7, <2>8
<1>6. CASE Grown(lru, w, n, slot, k, ip, tokens, index)
  <2>1. ip \notin DOMAIN lru.index /\ m < Cap /\ n = m + 1 /\ slot = n /\ k = n /\ tokens = Full
    BY <1>6 DEF Grown
  <2>2. Place(store, ip) = k
    BY <1>1, <2>1 DEF Place
  <2>3. Available(store, ip, now) = tokens
    BY <1>1, <2>1 DEF Available
  <2>4. ~(m >= Cap) /\ k > m
    BY <1>2, <2>1
  <2>5. Victim(store, ip) = {}
    BY <1>1, <2>4 DEF Victim
  <2>6. \A x \in DOMAIN lru.index : lru.index[x] # slot
    <3>1. \A x \in DOMAIN lru.index : lru.index[x] \in 1 .. m
      BY DEF SlabInv, Named
    <3>. QED  BY <1>2, <2>1, <3>1
  <2>. QED  BY <1>1, <2>1, <2>2, <2>3, <2>4, <2>5, <2>6
<1>7. CASE Evicted(lru, w, n, slot, k, ip, tokens, index)
  <2>1. ip \notin DOMAIN lru.index /\ ~(m < Cap) /\ n = m /\ k = n /\ n \in 1 .. n /\ slot = w[n]
        /\ tokens = Full
    BY <1>7 DEF Evicted
  <2>2. Place(store, ip) = k
    BY <1>1, <2>1 DEF Place
  <2>3. Available(store, ip, now) = tokens
    BY <1>1, <2>1 DEF Available
  <2>4. m >= Cap /\ ~(k > m)
    BY <1>2, <2>1
  <2>5. Victim(store, ip) = {r[m]}
    BY <1>1, <2>1, <2>4 DEF Victim
  <2>6. r[m] \in DOMAIN lru.index /\ lru.index[r[m]] = slot
    BY <1>1, <2>1
  <2>7. \A x \in DOMAIN lru.index : x \in Victim(store, ip) <=> lru.index[x] = slot
    BY <1>3, <2>5, <2>6
  <2>. QED  BY <1>1, <2>1, <2>2, <2>3, <2>4, <2>7
<1>. QED  BY <1>5, <1>6, <1>7 DEF InspectSpec

\* The list of addresses after a check is the store's.
LEMMA SameRecency ==
  ASSUME SlabInv, NEW w, Whole(lru, w), NEW n, NEW slot, NEW k, NEW ip, NEW tokens, NEW index,
         InspectSpec(w, n, slot, k, ip, tokens, index),
         NEW store, Reads(lru, w, Len(lru.slab), store),
         NEW store2, Reads(lru', Front(w, n, slot, k), n, store2)
  PROVE  store2.recency = MovedToFront(store.recency, ip, k)
<1>. PICK m : m = Len(lru.slab)
  OBVIOUS
<1>. PICK r : r = store.recency
  OBVIOUS
<1>. PICK r2 : r2 = store2.recency
  OBVIOUS
<1>. PICK v : v = Front(w, n, slot, k)
  OBVIOUS
<1>1. n \in Nat /\ k \in 1 .. n /\ m \in Nat /\ m <= n
  BY FromItsPlace
<1>2. \A i \in 1 .. n : v[i] = IF i = 1 THEN slot ELSE IF i <= k THEN w[i - 1] ELSE w[i]
  BY DEF Front
<1>3. /\ \A i \in 1 .. m : r[i] = lru.slab[w[i]].ip[1]
      /\ \A i \in 1 .. n : r2[i] = lru'.slab[v[i]].ip[1]
      /\ r2 = [i \in 1 .. n |-> r2[i]]
  BY DEF Reads
<1>4. /\ lru'.slab[slot].ip = <<ip>>
      /\ \A s \in 1 .. m : s # slot => lru'.slab[s].ip = lru.slab[s].ip
  BY DEF InspectSpec, Changed, SameData
<1>5. ASSUME NEW i \in 1 .. m, w[i] # slot PROVE lru'.slab[w[i]].ip[1] = r[i]
  <2>1. w[i] \in 1 .. m
    BY DEF Whole, Linked
  <2>. QED  BY <1>3, <1>4, <1>5, <2>1
<1>6. ASSUME NEW i \in 1 .. n
      PROVE  r2[i] = IF i = 1 THEN ip ELSE IF i <= k THEN r[i - 1] ELSE r[i]
  <2>1. CASE i = 1
    BY <1>2, <1>3, <1>4, <2>1
  <2>2. CASE i # 1 /\ i <= k
    <3>1. i - 1 \in 1 .. n /\ i - 1 < k
      BY <1>1, <2>2
    <3>2. i - 1 \in 1 .. m /\ w[i - 1] # slot
      BY <3>1, FromItsPlace
    <3>3. v[i] = w[i - 1]
      BY <1>2, <2>2
    <3>4. r2[i] = r[i - 1]
      BY <1>3, <1>5, <3>2, <3>3
    <3>. QED  BY <2>2, <3>4
  <2>3. CASE i # 1 /\ ~(i <= k)
    <3>1. i # k
      BY <1>1, <2>3
    <3>2. i \in 1 .. m /\ w[i] # slot
      BY <3>1, FromItsPlace
    <3>3. v[i] = w[i]
      BY <1>2, <2>3
    <3>4. r2[i] = r[i]
      BY <1>3, <1>5, <3>2, <3>3
    <3>. QED  BY <2>3, <3>4
  <2>. QED  BY <2>1, <2>2, <2>3
<1>7. n = IF k > Len(r) THEN k ELSE Len(r)
  BY SamePlace
<1>8. r2 = [i \in 1 .. n |-> IF i = 1 THEN ip ELSE IF i <= k THEN r[i - 1] ELSE r[i]]
  BY <1>3, <1>6
<1>. QED  BY <1>7, <1>8 DEF MovedToFront

\* The buckets a check leaves in the store.
BucketsAfter(store, ip, t) ==
  [x \in (Tracked(store) \ Victim(store, ip)) \cup {ip} |->
     IF x = ip THEN [tokens |-> Spend(Available(store, ip, t)), last |-> t]
     ELSE store.bucket[x]]

\* The buckets after a check are the store's.
LEMMA SameBuckets ==
  ASSUME SlabInv, NEW w, Whole(lru, w), NEW n, NEW slot, NEW k, NEW ip, NEW tokens, NEW index,
         InspectSpec(w, n, slot, k, ip, tokens, index),
         NEW store, Reads(lru, w, Len(lru.slab), store),
         NEW store2, Reads(lru', Front(w, n, slot, k), n, store2)
  PROVE  store2.bucket = BucketsAfter(store, ip, now)
<1>. PICK b : b = store.bucket
  OBVIOUS
<1>. PICK b2 : b2 = store2.bucket
  OBVIOUS
<1>. PICK victim : victim = Victim(store, ip)
  OBVIOUS
<1>. PICK bucket : bucket = [tokens |-> Spend(Available(store, ip, now)), last |-> now]
  OBVIOUS
<1>1. /\ lru'.index = index
      /\ ip \in DOMAIN index /\ index[ip] = slot
      /\ \A x \in DOMAIN index \ {ip} :
           x \in DOMAIN lru.index /\ index[x] = lru.index[x] /\ index[x] # slot
      /\ \A x \in DOMAIN lru.index \ {ip} : lru.index[x] # slot => x \in DOMAIN index
  BY IndexAfter
<1>2. /\ lru'.slab[slot].tokens = Spend(tokens) /\ lru'.slab[slot].last = now
      /\ \A s \in 1 .. Len(lru.slab) : s # slot => /\ lru'.slab[s].tokens = lru.slab[s].tokens
                                                   /\ lru'.slab[s].last = lru.slab[s].last
  BY DEF InspectSpec, Changed, SameData
<1>3. /\ Available(store, ip, now) = tokens
      /\ \A x \in DOMAIN lru.index : x # ip => (x \in victim <=> lru.index[x] = slot)
  BY SamePlace
<1>4. /\ Tracked(store) = DOMAIN lru.index
      /\ \A x \in DOMAIN lru.index :
           b[x] = [tokens |-> lru.slab[lru.index[x]].tokens, last |-> lru.slab[lru.index[x]].last]
  BY DEF Reads
<1>5. /\ \A x \in DOMAIN index :
           b2[x] = [tokens |-> lru'.slab[index[x]].tokens, last |-> lru'.slab[index[x]].last]
      /\ b2 = [x \in DOMAIN index |-> b2[x]]
  BY <1>1 DEF Reads
<1>6. DOMAIN index = (Tracked(store) \ victim) \cup {ip}
  <2>1. ASSUME NEW x \in DOMAIN index PROVE x \in (Tracked(store) \ victim) \cup {ip}
    BY <1>1, <1>3, <1>4
  <2>2. ASSUME NEW x \in (Tracked(store) \ victim) \cup {ip} PROVE x \in DOMAIN index
    BY <1>1, <1>3, <1>4
  <2>. QED  BY <2>1, <2>2
<1>7. ASSUME NEW x \in DOMAIN index PROVE b2[x] = IF x = ip THEN bucket ELSE b[x]
  <2>1. CASE x = ip
    BY <1>1, <1>2, <1>3, <1>5, <2>1
  <2>2. CASE x # ip
    <3>1. x \in DOMAIN lru.index /\ index[x] = lru.index[x] /\ index[x] # slot
      BY <1>1, <2>2
    <3>2. lru.index[x] \in 1 .. Len(lru.slab)
      BY <3>1 DEF SlabInv, Named
    <3>3. /\ lru'.slab[index[x]].tokens = lru.slab[lru.index[x]].tokens
          /\ lru'.slab[index[x]].last = lru.slab[lru.index[x]].last
      BY <1>2, <3>1, <3>2
    <3>4. b2[x] = [tokens |-> lru'.slab[index[x]].tokens, last |-> lru'.slab[index[x]].last]
      BY <1>5
    <3>5. b[x] = [tokens |-> lru.slab[lru.index[x]].tokens, last |-> lru.slab[lru.index[x]].last]
      BY <1>4, <3>1
    <3>6. b2[x] = b[x]
      BY <3>3, <3>4, <3>5
    <3>. QED  BY <2>2, <3>6
  <2>. QED  BY <2>1, <2>2
<1>8. b2 = [x \in DOMAIN index |-> IF x = ip THEN bucket ELSE b[x]]
  BY <1>5, <1>7
<1>. QED  BY <1>6, <1>8 DEF BucketsAfter

\* The store after a check is the one the specification asks for.
LEMMA SameStore ==
  ASSUME SlabInv, NEW ip \in Ip, Inspect(ip)
  PROVE  /\ StoreOf(lru', Walk') = Checked(StoreOf(lru, Walk), ip, now)
         /\ answer' = <<[ip |-> ip, denied |-> ip \in Denied,
                         limited |-> ~Allows(StoreOf(lru, Walk), ip, now)]>>
         /\ now' = now
<1>. PICK w : w = Walk
  OBVIOUS
<1>1. Whole(lru, w)
  BY WalkIsWhole
<1>. PICK n, slot, k, tokens, index : InspectSpec(w, n, slot, k, ip, tokens, index)
  BY <1>1, InspectDoes
<1>. PICK v : v = Front(w, n, slot, k)
  OBVIOUS
<1>2. Whole(lru', v) /\ Len(lru'.slab) = n /\ Named(lru') /\ Named(lru)
  BY <1>1, StaysWhole, StaysNamed DEF SlabInv
<1>3. Walk' = v
  <2>1. WalkOf(lru') = v
    BY <1>2, WalkIsTheOrder
  <2>. QED  BY <2>1 DEF Walk, WalkOf
<1>. PICK store : store = StoreOf(lru, w)
  OBVIOUS
<1>. PICK store2 : store2 = StoreOf(lru', v)
  OBVIOUS
<1>4. Reads(lru, w, Len(lru.slab), store)
  BY <1>1, <1>2, StoreReads
<1>5. Reads(lru', v, n, store2)
  BY <1>2, StoreReads
<1>6. Place(store, ip) = k /\ Available(store, ip, now) = tokens
  BY <1>1, <1>4, SamePlace
<1>7. store2.recency = MovedToFront(store.recency, ip, Place(store, ip))
  BY <1>1, <1>4, <1>5, <1>6, SameRecency
<1>8. store2.bucket = BucketsAfter(store, ip, now)
  BY <1>1, <1>4, <1>5, SameBuckets
<1>9. store2 = [bucket |-> store2.bucket, recency |-> store2.recency]
  BY <1>5 DEF Reads
<1>10. store2 = Checked(store, ip, now)
  BY <1>7, <1>8, <1>9 DEF Checked, BucketsAfter
<1>11. /\ answer' = <<[ip |-> ip, denied |-> ip \in Denied,
                       limited |-> ~Allows(store, ip, now)]>>
       /\ now' = now
  BY <1>6 DEF InspectSpec, Allows
<1>. QED  BY <1>3, <1>10, <1>11

\* The specification speaks of the same store of buckets.
LEMMA SameOperators ==
  ASSUME NEW store, NEW ip, NEW t
  PROVE  /\ Abstract!Checked(store, ip, t) = Checked(store, ip, t)
         /\ Abstract!Allows(store, ip, t) = Allows(store, ip, t)
         /\ Abstract!EmptyStore = EmptyStore
BY DEF Abstract!Checked, Checked, Abstract!Tracked, Tracked, Abstract!Victim, Victim,
       Abstract!Place, Place, Abstract!MovedToFront, MovedToFront, Abstract!Available, Available,
       Abstract!Allows, Allows, Abstract!Affords, Affords, Abstract!Spend, Spend,
       Abstract!Refill, Refill, Abstract!Elapsed, Elapsed, Abstract!EmptyStore, EmptyStore,
       Abstract!Full, Full, Abstract!Cap, Cap, Abstract!Quota, Quota,
       Abstract!AtLeastOne, AtLeastOne

\* Every check of the slab is a check of the LRU token buckets with the same answer:
\* the same address moved to the front, the same victim, the same tokens left
\* (reputation.rs:188-215).
THEOREM SlabImplementsBuckets == Spec => ImplementsTokenBuckets
<1>1. Init => Abstract!Init
  <2>. SUFFICES ASSUME Init PROVE Abstract!Init
    OBVIOUS
  <2>1. lru.slab = << >> /\ Len(lru.slab) = 0 /\ lru.head = NIL /\ lru.tail = NIL
        /\ lru.index = [ip \in {} |-> NIL] /\ DOMAIN lru.index = {}
    BY DEF Init
  <2>2. Whole(lru, << >>)
    <3>1. << >> \in [1 .. 0 -> 1 .. 0]
      OBVIOUS
    <3>. QED  BY <2>1, <3>1 DEF Whole, Linked, At
  <2>3. Walk = << >>
    <3>1. WalkOf(lru) = << >>
      BY <2>2, WalkIsTheOrder
    <3>. QED  BY <3>1 DEF Walk, WalkOf
  <2>4. StoreOf(lru, Walk) = EmptyStore
    BY <2>1, <2>3 DEF StoreOf, EmptyStore
  <2>. QED  BY <2>4, SameOperators DEF Abstract!Init, Init, StoreOf
<1>2. SlabInv /\ [Next]_vars => [Abstract!Next]_(Abstract!vars)
  <2>. SUFFICES ASSUME SlabInv, [Next]_vars PROVE [Abstract!Next]_(Abstract!vars)
    OBVIOUS
  <2>1. ASSUME lru' = lru PROVE StoreOf(lru', Walk') = StoreOf(lru, Walk)
    BY <2>1 DEF Walk
  <2>2. CASE UNCHANGED vars
    BY <2>1, <2>2 DEF vars, Abstract!vars, StoreOf
  <2>3. CASE Tick
    <3>1. Abstract!Tick
      BY <2>1, <2>3 DEF Tick, Abstract!Tick, StoreOf
    <3>. QED  BY <3>1 DEF Abstract!Next
  <2>4. ASSUME NEW ip \in Ip, Inspect(ip) PROVE Abstract!Inspect(ip)
    BY <2>4, SameStore, SameOperators DEF Abstract!Inspect, StoreOf
  <2>. QED  BY <2>2, <2>3, <2>4 DEF Next, Abstract!Next
<1>. QED  BY <1>1, <1>2, SlabInvHolds, PTL DEF Spec, ImplementsTokenBuckets, Abstract!Spec
=============================================================================
