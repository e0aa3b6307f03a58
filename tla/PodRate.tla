------------------------------- MODULE PodRate -------------------------------
(***************************************************************************)
(* The per-address rate as a pod delivers it: Traefik keeps a pool of        *)
(* guests, every guest has a limiter of its own (entry.rs: STATE is a static *)
(* of the guest) and any guest may serve any request.                        *)
(*                                                                         *)
(* `watch` is an observer, not code: from an arbitrary moment it counts the *)
(* requests of one address that each guest allows.  What holds of every     *)
(* observer holds of every window of time.                                  *)
(***************************************************************************)
EXTENDS BucketStore, FiniteSets

CONSTANTS
  Guests,  \* the pool
  MaxNow,  \* bound of the model: the clock stops here
  MaxPod   \* bound of the model: requests allowed under one observer

ASSUME PodAssumption ==
  /\ IsFiniteSet(Guests)
  /\ MaxNow \in Nat /\ MaxPod \in Nat

VARIABLES
  stores,  \* one store per guest
  now,     \* the clock the guests share
  watch,   \* the observer
  refused  \* {<<guest>>}, the guest that has just refused the watched address

vars == <<stores, now, watch, refused>>

Watch == [ip      : Ip,                    \* whom it watches
          from    : Nat,                   \* since when
          granted : [Guests -> Nat],       \* requests each guest has allowed
          pod     : Nat,                   \* and the pod as a whole
          kept    : [Guests -> BOOLEAN]]   \* no guest's bucket was evicted

TypeOK ==
  /\ DOMAIN stores = Guests
  /\ \A g \in Guests : StoreOK(stores[g])
  /\ now \in 0 .. MaxNow
  /\ watch \in Watch
  /\ refused \in SUBSET Guests

NewWatch(ip, at) ==
  [ip |-> ip, from |-> at, granted |-> [g \in Guests |-> 0], pod |-> 0,
   kept |-> [g \in Guests |-> TRUE]]

Init ==
  /\ stores = [g \in Guests |-> EmptyStore]
  /\ now = 0
  /\ \E ip \in Ip : watch = NewWatch(ip, 0)
  /\ refused = {}

\* A request of `ip` is inspected by guest g.
Serve(g, ip) ==
  LET allowed == Allows(stores[g], ip, now)
      seen    == ip = watch.ip
  IN /\ watch.pod < MaxPod
     /\ stores' = [stores EXCEPT ![g] = Checked(stores[g], ip, now)]
     /\ watch' = [watch EXCEPT
          !.granted[g] = IF seen /\ allowed THEN @ + 1 ELSE @,
          !.pod        = IF seen /\ allowed THEN @ + 1 ELSE @,
          !.kept[g]    = @ /\ watch.ip \notin Victim(stores[g], ip)]
     /\ refused' = IF seen /\ ~allowed THEN {g} ELSE {}
     /\ UNCHANGED now

Tick ==
  /\ now < MaxNow
  /\ now' = now + 1
  /\ refused' = {}
  /\ UNCHANGED <<stores, watch>>

\* The observer starts over.
Restart ==
  /\ watch' = NewWatch(watch.ip, now)
  /\ refused' = {}
  /\ UNCHANGED <<stores, now>>

Next == Tick \/ Restart \/ \E g \in Guests, ip \in Ip : Serve(g, ip)

Spec == Init /\ [][Next]_vars

-----------------------------------------------------------------------------
\* What a window of time refills, in units of 1/G token.
Supply(from, to) == Quota * (to - from)

\* In every window of time a guest that keeps the address's bucket allows at
\* most one bucket plus the refill of the window (reputation.rs:188-215).
RateBounded ==
  \A g \in Guests :
    watch.kept[g] =>
      watch.granted[g] * G <= Full + Supply(watch.from, now)

\* No early refusal: a guest that refuses an address has allowed it Quota
\* requests in the second before, evictions or not (reputation.rs:188-225).
NeverLimitedEarly ==
  \A g \in refused :
    now - watch.from >= G => watch.granted[g] >= Quota

\* The guests of a pod count apart (entry.rs:58 keeps the limiter in each guest's
\* STATE), so what the pod allows an address is one budget per guest, and not the
\* single one of docs/configuration.md:13.
PodBounded ==
  (\A g \in Guests : watch.kept[g]) =>
    watch.pod * G <= Cardinality(Guests) * (Full + Supply(watch.from, now))

-----------------------------------------------------------------------------
(* The inductive invariant behind both bounds.  Spent + left over is at most *)
(* what the window supplied (the observer may be younger than the bucket's   *)
(* last refill or older), and at least the refill since the window began.    *)
StoresOK ==
  \A g \in Guests : \A ip \in Tracked(stores[g]) : stores[g].bucket[ip].last <= now

BucketOf(g) == stores[g].bucket[watch.ip]
Seen(g)     == watch.ip \in Tracked(stores[g])

SpentAtMost(g) ==
  watch.kept[g] =>
    \/ watch.granted[g] = 0
    \/ /\ Seen(g)
       /\ watch.from <= BucketOf(g).last
       /\ watch.granted[g] * G + BucketOf(g).tokens
            <= Full + Supply(watch.from, BucketOf(g).last)

SpentAtLeast(g) ==
  Seen(g) /\ watch.from <= BucketOf(g).last =>
    \/ watch.granted[g] * G + BucketOf(g).tokens >= Full
    \/ watch.granted[g] * G + BucketOf(g).tokens
         >= Supply(watch.from, BucketOf(g).last)

RefusedIsEmpty(g) ==
  g \in refused =>
    Seen(g) /\ BucketOf(g).last = now /\ BucketOf(g).tokens < G

IInv ==
  /\ TypeOK
  /\ StoresOK
  /\ watch.from <= now
  /\ \A g \in Guests : SpentAtMost(g) /\ SpentAtLeast(g) /\ RefusedIsEmpty(g)
=============================================================================
