------------------------------- MODULE Delivery -------------------------------
(***************************************************************************)
(* What the relay promises each subscriber about the events it accepts for  *)
(* it: an event is offered once, and those accepted are settled in the order  *)
(* of acceptance, each at most once, as delivered or dead-lettered; what is   *)
(* not settled is dropped only when the subscriber's delivery ends.  At most  *)
(* QueueCap + 1 events wait.                                               *)
(***************************************************************************)
EXTENDS Naturals, Sequences

CONSTANTS Subs, Event, QueueCap

VARIABLES
  offered,  \* events offered to the subscribers so far
  live,     \* subscribers that still take events
  pending,  \* accepted and not settled, oldest first
  settled   \* settled, in the order it happened

vars == <<offered, live, pending, settled>>

Fate == {"delivered", "dead"}

Init ==
  /\ offered = {}
  /\ live = Subs
  /\ pending = [s \in Subs |-> << >>]
  /\ settled = [s \in Subs |-> << >>]

\* One event is offered, and accepted for some of the subscribers it matches.
Accept(e, S) ==
  /\ e \notin offered
  /\ offered' = offered \cup {e}
  /\ \A s \in S : Len(pending[s]) <= QueueCap
  /\ pending' = [s \in Subs |-> IF s \in S THEN Append(pending[s], e) ELSE pending[s]]
  /\ UNCHANGED <<live, settled>>

Settle(s, fate) ==
  /\ s \in live
  /\ pending[s] # << >>
  /\ pending' = [pending EXCEPT ![s] = Tail(@)]
  /\ settled' = [settled EXCEPT ![s] = Append(@, [event |-> Head(pending[s]),
                                                  fate |-> fate])]
  /\ UNCHANGED <<offered, live>>

End(s) ==
  /\ s \in live
  /\ live' = live \ {s}
  /\ pending' = [pending EXCEPT ![s] = << >>]
  /\ UNCHANGED <<offered, settled>>

Next ==
  \/ \E e \in Event, S \in SUBSET live : Accept(e, S)
  \/ \E s \in Subs, fate \in Fate : Settle(s, fate)
  \/ \E s \in Subs : End(s)

Spec == Init /\ [][Next]_vars
=============================================================================
