------------------------------- MODULE SlabLru -------------------------------
(***************************************************************************)
(* The limiter as it is built: LruTokenBuckets of detectors/reputation.rs,  *)
(* an index from addresses to slots of a slab whose nodes are threaded into *)
(* a doubly linked recency list by slot numbers.  Slots count from 1 and    *)
(* NIL is 0 (0 and usize::MAX in the code); the lock around the structure   *)
(* makes every check one step.                                             *)
(***************************************************************************)
EXTENDS BucketStore, Functions, FiniteSets

CONSTANTS
  Denied,  \* the deny list
  MaxNow   \* bound of the model: the clock stops here

ASSUME ClockAssumption == MaxNow \in Nat

NIL == 0

VARIABLES
  lru,     \* LruTokenBuckets: index, slab, head, tail
  now,
  answer   \* << >> or <<what inspect returned for the last request>>

vars == <<lru, now, answer>>

Slot == 0 .. Cap
Node == [ip : {<< >>} \cup {<<i>> : i \in Ip}, tokens : 0 .. Full, last : Nat,
         prev : Slot, next : Slot]
FreshNode == [ip |-> << >>, tokens |-> 0, last |-> 0, prev |-> NIL, next |-> NIL]

TypeOK ==
  /\ lru \in [index : UNION {[T -> Slot \ {NIL}] : T \in SUBSET Ip},
              slab : Seq(Node), head : Slot, tail : Slot]
  /\ now \in 0 .. MaxNow
  /\ answer = << >> \/ answer[1].ip \in Ip

Init ==
  /\ lru = [index |-> [ip \in {} |-> NIL], slab |-> << >>, head |-> NIL, tail |-> NIL]
  /\ now = 0
  /\ answer = << >>

Unlink(l, slot) ==
  LET p == l.slab[slot].prev
      n == l.slab[slot].next
  IN [l EXCEPT !.slab = [i \in DOMAIN l.slab |->
                           [l.slab[i] EXCEPT !.next = IF i = p THEN n ELSE @,
                                             !.prev = IF i = n THEN p ELSE @]],
               !.head = IF p = NIL THEN n ELSE @,
               !.tail = IF n = NIL THEN p ELSE @]

\* mutant: the old head does not learn its new neighbour
PushFrontNoBackLink(l, slot) ==
  [l EXCEPT !.slab[slot].prev = NIL, !.slab[slot].next = l.head,
            !.head = slot, !.tail = IF @ = NIL THEN slot ELSE @]

PushFront(l, slot) ==
  [l EXCEPT !.slab = [i \in DOMAIN @ |->
                        CASE i = slot   -> [@[i] EXCEPT !.prev = NIL, !.next = l.head]
                          [] i = l.head /\ i # slot -> [@[i] EXCEPT !.prev = slot]
                          [] OTHER      -> @[i]],
            !.head = slot,
            !.tail = IF @ = NIL THEN slot ELSE @]

\* mutant: a known address keeps its place
TouchNothing(l, slot) == l

Touch(l, slot) == IF l.head = slot THEN l ELSE PushFront(Unlink(l, slot), slot)

\* mutant: the index keeps the evicted address
EvictTailKeepsIndex(l) == [Unlink(l, l.tail) EXCEPT !.slab[l.tail].ip = << >>]

EvictTail(l) ==
  LET gone == {ip \in DOMAIN l.index : <<ip>> = l.slab[l.tail].ip}
  IN [Unlink(l, l.tail) EXCEPT !.slab[l.tail].ip = << >>,
                               !.index = Restrict(@, DOMAIN @ \ gone)]

\* mutant: the slab grows one slot too far
AcquireSlotOneTooMany(l) ==
  IF Len(l.slab) <= Cap
  THEN [l |-> [l EXCEPT !.slab = Append(@, FreshNode)], slot |-> Len(l.slab) + 1]
  ELSE [l |-> EvictTail(l), slot |-> l.tail]

\* A slot detached from the list: grown while under Cap, else the tail's.
AcquireSlot(l) ==
  IF Len(l.slab) < Cap
  THEN [l |-> [l EXCEPT !.slab = Append(@, FreshNode)], slot |-> Len(l.slab) + 1]
  ELSE [l |-> EvictTail(l), slot |-> l.tail]

\* mutant: a reused slot keeps the tokens of the address it was taken from
AdmitStale(l, ip) ==
  LET a == AcquireSlot(l)
  IN PushFront([a.l EXCEPT !.slab[a.slot].ip = <<ip>>, !.slab[a.slot].last = now,
                           !.index = [x \in DOMAIN @ \cup {ip} |->
                                        IF x = ip THEN a.slot ELSE @[x]]], a.slot)

\* A new address: a full bucket, indexed and at the front.
Admit(l, ip) ==
  LET a == AcquireSlot(l)
  IN PushFront([a.l EXCEPT !.slab[a.slot].ip = <<ip>>, !.slab[a.slot].tokens = Full,
                           !.slab[a.slot].last = now,
                           !.index = [x \in DOMAIN @ \cup {ip} |->
                                        IF x = ip THEN a.slot ELSE @[x]]], a.slot)

\* A known address: to the front, and refilled.
Revisit(l, ip) ==
  LET s == l.index[ip]
  IN [Touch(l, s) EXCEPT !.slab[s].tokens = Refill(l.slab[s], now),
                         !.slab[s].last = now]

Inspect(ip) ==
  LET ready == IF ip \in DOMAIN lru.index THEN Revisit(lru, ip) ELSE Admit(lru, ip)
      s     == ready.index[ip]
  IN /\ lru' = [ready EXCEPT !.slab[s].tokens = Spend(@)]
     /\ answer' = <<[ip |-> ip, denied |-> ip \in Denied,
                     limited |-> ~Affords(ready.slab[s].tokens)]>>
     /\ UNCHANGED now

\* SystemClock is monotonic.
Tick ==
  /\ now < MaxNow
  /\ now' = now + 1
  /\ UNCHANGED <<lru, answer>>

Next == Tick \/ \E ip \in Ip : Inspect(ip)

Spec == Init /\ [][Next]_vars

-----------------------------------------------------------------------------
\* The slots met from `head` along `next`, at most one step per node.
Walk ==
  LET step[n \in 0 .. Len(lru.slab)] ==
        IF n = 0 THEN << >>
        ELSE LET w == step[n - 1]
                 at == IF w = << >> THEN lru.head ELSE lru.slab[w[Len(w)]].next
             IN IF at = NIL THEN w ELSE Append(w, at)
  IN step[Len(lru.slab)]

\* Between two checks the links are one list through every slot of the slab,
\* readable in both directions and ending at `tail`: what unlink, push_front
\* and evict_tail leave each other (reputation.rs:107-164).
ListIsWhole ==
  /\ Len(Walk) = Len(lru.slab)
  /\ \A i, j \in DOMAIN Walk : i # j => Walk[i] # Walk[j]
  /\ Walk # << >> => /\ lru.tail = Walk[Len(Walk)]
                     /\ lru.slab[lru.tail].next = NIL
                     /\ lru.slab[lru.head].prev = NIL
  /\ \A i \in 2 .. Len(Walk) : lru.slab[Walk[i]].prev = Walk[i - 1]

\* The index and the slab name each other: no address without its node, no
\* node of an evicted address, no slot shared (reputation.rs:156-215).
IndexAgrees ==
  /\ \A ip \in DOMAIN lru.index : lru.slab[lru.index[ip]].ip = <<ip>>
  /\ Cardinality(DOMAIN lru.index) = Len(lru.slab)

\* The detailed limiter answers exactly as the abstract store does.
Abstract == INSTANCE TokenBuckets WITH
  store <- [bucket  |-> [ip \in DOMAIN lru.index |->
                           [tokens |-> lru.slab[lru.index[ip]].tokens,
                            last   |-> lru.slab[lru.index[ip]].last]],
            recency |-> [i \in DOMAIN Walk |-> lru.slab[Walk[i]].ip[1]]]

\* Refinement: every check of the slab is a check of the LRU token buckets
\* with the same answer (reputation.rs:188-215).
ImplementsTokenBuckets == Abstract!Spec

\* The slab, its links and its index are one structure between two checks
\* (reputation.rs:107-215).
StructureOK ==
  /\ TypeOK
  /\ ListIsWhole
  /\ IndexAgrees
=============================================================================
