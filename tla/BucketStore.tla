----------------------------- MODULE BucketStore -----------------------------
(***************************************************************************)
(* What the rate limiter of detectors/reputation.rs promises, as operators: *)
(* a store of at most Cap token buckets in recency order.  SlabLru has the  *)
(* slab and the linked list that implement it.                             *)
(*                                                                         *)
(* Time is counted in ticks of 1/G second and tokens in units of 1/G token, *)
(* so the float arithmetic of the code is exact here: a tick refills Quota  *)
(* units, a request costs G of them and a full bucket holds Quota * G.      *)
(***************************************************************************)
EXTENDS Integers, Sequences

CONSTANTS
  Ip,         \* source addresses
  PerSecond,  \* reputation.perSecond
  MaxTracked, \* max_tracked_ips
  G           \* clock ticks per second

ASSUME StoreAssumption ==
  /\ PerSecond \in Nat
  /\ MaxTracked \in Nat
  /\ G \in Nat \ {0}

AtLeastOne(n) == IF n = 0 THEN 1 ELSE n
Quota == AtLeastOne(PerSecond)
Cap   == AtLeastOne(MaxTracked)
Full  == Quota * G

Bucket == [tokens : 0 .. Full, last : Nat]

\* A store: `bucket` has a bucket per tracked address, `recency` lists the
\* tracked addresses, most recently seen first.
EmptyStore == [bucket |-> [ip \in {} |-> [tokens |-> 0, last |-> 0]],
               recency |-> << >>]

Tracked(store) == DOMAIN store.bucket

\* Every store the limiter can be in: bounded, and the list and the buckets
\* are about the same addresses.
StoreOK(store) ==
  /\ Tracked(store) \subseteq Ip
  /\ store.bucket \in [Tracked(store) -> Bucket]
  /\ store.recency \in Seq(Ip)
  /\ Len(store.recency) <= Cap
  /\ {store.recency[i] : i \in DOMAIN store.recency} = Tracked(store)
  /\ \A i, j \in DOMAIN store.recency :
        store.recency[i] = store.recency[j] => i = j

Elapsed(now, last) == IF now >= last THEN now - last ELSE 0

\* mutant: the refill is not clamped
RefillUnclamped(b, now) == b.tokens + Quota * Elapsed(now, b.last)

\* mutant: the refill forgets the tokens that were left
RefillFromZero(b, now) ==
  IF Quota * Elapsed(now, b.last) < Full THEN Elapsed(now, b.last) * Quota ELSE Full

Refill(b, now) ==
  IF b.tokens + Quota * Elapsed(now, b.last) < Full
  THEN b.tokens + Quota * Elapsed(now, b.last)
  ELSE Full

\* mutant: the rest of a token is taken for a whole one
AffordsRest(tokens) == tokens > 0

\* Whether `consume` finds a whole token, and what it leaves.
Affords(tokens) == tokens >= G
Spend(tokens)   == IF Affords(tokens) THEN tokens - G ELSE tokens

\* The tokens `check` decides on: refilled if known, a full bucket otherwise.
Available(store, ip, now) ==
  IF ip \in Tracked(store) THEN Refill(store.bucket[ip], now) ELSE Full

Allows(store, ip, now) == Affords(Available(store, ip, now))

\* mutant: a store makes room only when it is over its capacity
VictimOverCap(store, ip) ==
  IF ip \notin Tracked(store) /\ Len(store.recency) > Cap
  THEN {store.recency[Len(store.recency)]}
  ELSE {}

\* The address that makes room for a new one when the store is full.
Victim(store, ip) ==
  IF ip \notin Tracked(store) /\ Len(store.recency) >= Cap
  THEN {store.recency[Len(store.recency)]}
  ELSE {}

\* The place `ip` is moved to the front from: its own if it is known, the
\* victim's if the store is full, a new one otherwise.
Place(store, ip) ==
  IF ip \in Tracked(store)
  THEN CHOOSE i \in DOMAIN store.recency : store.recency[i] = ip
  ELSE IF Len(store.recency) < Cap THEN Len(store.recency) + 1 ELSE Len(store.recency)

MovedToFront(recency, ip, place) ==
  [i \in 1 .. (IF place > Len(recency) THEN place ELSE Len(recency)) |->
     IF i = 1 THEN ip ELSE IF i <= place THEN recency[i - 1] ELSE recency[i]]

Checked(store, ip, now) ==
  [bucket  |-> [x \in (Tracked(store) \ Victim(store, ip)) \cup {ip} |->
                  IF x = ip THEN [tokens |-> Spend(Available(store, ip, now)),
                                  last   |-> now]
                  ELSE store.bucket[x]],
   recency |-> MovedToFront(store.recency, ip, Place(store, ip))]
=============================================================================
