---------------------------- MODULE TokenBuckets ----------------------------
(***************************************************************************)
(* The abstract specification of ReputationDetector: requests of one guest  *)
(* are answered from a bounded LRU store of token buckets.                  *)
(***************************************************************************)
EXTENDS BucketStore

CONSTANTS
  Denied,   \* the deny list
  MaxNow    \* bound of the model: the clock stops here

VARIABLES
  store,    \* the token buckets
  now,      \* the guest's monotonic clock
  answer    \* << >> or <<what inspect returned for the last request>>

vars == <<store, now, answer>>

Init ==
  /\ store = EmptyStore
  /\ now = 0
  /\ answer = << >>

\* Detector::inspect: a denied address is counted all the same.
Inspect(ip) ==
  /\ store' = Checked(store, ip, now)
  /\ answer' = <<[ip |-> ip, denied |-> ip \in Denied,
                  limited |-> ~Allows(store, ip, now)]>>
  /\ UNCHANGED now

Tick ==
  /\ now < MaxNow
  /\ now' = now + 1
  /\ UNCHANGED <<store, answer>>

Next == Tick \/ \E ip \in Ip : Inspect(ip)

Spec == Init /\ [][Next]_vars
=============================================================================
