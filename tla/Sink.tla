--------------------------------- MODULE Sink ---------------------------------
(***************************************************************************)
(* The delivery side of the relay: fan_out of pipeline.rs, a bounded queue  *)
(* per subscriber, one run_sink task per subscriber (subscribers/http.rs)    *)
(* with its retries, and the dead-letter ring (subscribers/dlq.rs).         *)
(*                                                                         *)
(* An event stands for its envelope; the ids, timestamps and signatures     *)
(* that roll with every attempt are the attempt number here.                *)
(***************************************************************************)
EXTENDS Naturals, Sequences, SequencesExt

CONSTANTS
  Subs,         \* enabled subscribers
  Event,        \* audit events
  Matches,      \* the subscribers whose filter an event passes
  QueueCap,     \* relay.subscriber_queue
  MaxAttempts,  \* retry.max_attempts, per subscriber
  DlqCap,       \* capacity of the dead-letter ring
  Responses     \* what the subscribers' endpoints answer

Response == {"2xx", "3xx", "4xx", "408", "429", "5xx", "network error", "timeout"}

ASSUME SinkAssumption ==
  /\ Responses \subseteq Response
  /\ Matches \in [Event -> SUBSET Subs]
  /\ QueueCap \in Nat \ {0}
  /\ MaxAttempts \in [Subs -> Nat \ {0}]
  /\ DlqCap \in Nat \ {0}

VARIABLES
  senders,   \* whether the parser task still holds the queues' senders
  heard,     \* what each sink's shutdown receiver has got
  task,      \* the run_sink task of each subscriber
  queue,     \* mpsc channel of each subscriber
  inHand,    \* << >> or <<[event, attempt]>>: deliver_with_retries' envelope
  dlq,       \* dead-letter ring: entries and overflow_count
  metrics,   \* pw_relay counters of each subscriber
  fanned,    \* history: events fan_out was called with
  inbox,     \* history: POSTs each subscriber got
  settled,   \* history: envelopes delivered or dead-lettered
  discarded  \* history: accepted events dropped unsettled

sinkVars == <<senders, heard, task, queue, inHand, dlq, metrics,
              fanned, inbox, settled, discarded>>

Envelope == [event : Event, attempt : Nat \ {0}]
Ended == {"done", "aborted"}

\* A receiver of the broadcast has not got it, or its next poll finds it; or it
\* missed it so far, as the poll that was on its way had passed that branch.
Hearing == {"no", "missed", "yes"}
AfterPoll(h) == IF h = "missed" THEN "yes" ELSE h

Counter == {"matched", "delivered", "retry", "dlq", "full", "closed"}

SinkTypeOK ==
  /\ senders \in BOOLEAN
  /\ heard \in [Subs -> Hearing]
  /\ task \in [Subs -> {"waiting", "sending", "backoff"} \cup Ended]
  /\ queue \in [Subs -> Seq(Event)]
  /\ \A s \in Subs : Len(queue[s]) <= QueueCap
  /\ inHand \in [Subs -> Seq(Envelope)]
  /\ \A s \in Subs : Len(inHand[s]) = IF task[s] \in {"sending", "backoff"} THEN 1 ELSE 0
  /\ dlq \in [Subs -> [entries : Seq(Envelope), overflow : Nat]]
  /\ \A s \in Subs : Len(dlq[s].entries) <= DlqCap
  /\ metrics \in [Subs -> [Counter -> Nat]]

SinkInit ==
  /\ senders = TRUE
  /\ heard = [s \in Subs |-> "no"]
  /\ task = [s \in Subs |-> "waiting"]
  /\ queue = [s \in Subs |-> << >>]
  /\ inHand = [s \in Subs |-> << >>]
  /\ dlq = [s \in Subs |-> [entries |-> << >>, overflow |-> 0]]
  /\ metrics = [s \in Subs |-> [c \in Counter |-> 0]]
  /\ fanned = << >>
  /\ inbox = [s \in Subs |-> << >>]
  /\ settled = [s \in Subs |-> << >>]
  /\ discarded = [s \in Subs |-> 0]

-----------------------------------------------------------------------------
(* fan_out: try_send to every matching subscriber, never waiting.           *)

TryRoom(s) == Len(queue[s]) < QueueCap

\* What try_send returns for subscriber s, and the counter it bumps.
TrySend(s) ==
  IF task[s] \in Ended THEN "closed" ELSE IF TryRoom(s) THEN "ok" ELSE "full"

FanOut(e) ==
  /\ fanned' = Append(fanned, e)
  /\ queue' = [s \in Subs |-> IF s \in Matches[e] /\ TrySend(s) = "ok"
                              THEN Append(queue[s], e) ELSE queue[s]]
  /\ metrics' = [s \in Subs |->
                   [c \in Counter |->
                      IF s \in Matches[e] /\ c \in {"matched", TrySend(s)}
                      THEN metrics[s][c] + 1 ELSE metrics[s][c]]]
  /\ UNCHANGED <<senders, heard, task, inHand, dlq, inbox, settled, discarded>>

\* The parser's loop is left and drops its senders.
DropSenders ==
  /\ senders
  /\ senders' = FALSE
  /\ UNCHANGED <<heard, task, queue, inHand, dlq, metrics, fanned, inbox,
                 settled, discarded>>

-----------------------------------------------------------------------------
(* run_sink: the shutdown branch of the select comes first.                 *)

\* A poll of the select in which the shutdown branch was not ready.
PollsOn(s) ==
  /\ task[s] = "waiting"
  /\ heard[s] # "yes"
  /\ heard' = [heard EXCEPT ![s] = AfterPoll(@)]

\* mutant: the envelope stays in the queue until it is settled
ReceivePeeks(s) ==
  /\ PollsOn(s)
  /\ queue[s] # << >>
  /\ inHand' = [inHand EXCEPT ![s] = <<[event |-> Head(queue[s]), attempt |-> 1]>>]
  /\ task' = [task EXCEPT ![s] = "sending"]
  /\ UNCHANGED <<senders, queue, dlq, metrics, fanned, inbox, settled, discarded>>

Receive(s) ==
  /\ PollsOn(s)
  /\ queue[s] # << >>
  /\ inHand' = [inHand EXCEPT ![s] = <<[event |-> Head(queue[s]), attempt |-> 1]>>]
  /\ queue' = [queue EXCEPT ![s] = Tail(@)]
  /\ task' = [task EXCEPT ![s] = "sending"]
  /\ UNCHANGED <<senders, dlq, metrics, fanned, inbox, settled, discarded>>

InputClosed(s) ==
  /\ PollsOn(s)
  /\ queue[s] = << >>
  /\ ~senders
  /\ task' = [task EXCEPT ![s] = "done"]
  /\ UNCHANGED <<senders, queue, inHand, dlq, metrics, fanned, inbox, settled,
                 discarded>>

\* The task is left and its receiver with what is queued is dropped.
Leave(s, how) ==
  /\ task' = [task EXCEPT ![s] = how]
  /\ queue' = [queue EXCEPT ![s] = << >>]
  /\ inHand' = [inHand EXCEPT ![s] = << >>]
  /\ discarded' = [discarded EXCEPT ![s] = @ + Len(queue[s]) + Len(inHand[s])]
  /\ UNCHANGED <<senders, heard, dlq, metrics, fanned, inbox, settled>>

SinkShutdown(s) ==
  /\ task[s] = "waiting"
  /\ heard[s] # "no"
  /\ Leave(s, "done")

Running == {s \in Subs : task[s] \notin Ended}

\* abort() reaches the task: it is dropped where it waits.
AbortSink(s) ==
  /\ s \in Running
  /\ Leave(s, "aborted")

\* mutant: a 429 is not retried
Classify429Permanent(response) ==
  CASE response = "2xx" -> "delivered"
    [] response \in {"408", "5xx", "network error", "timeout"} -> "retryable"
    [] OTHER -> "permanent"

Classify(response) ==
  CASE response = "2xx" -> "delivered"
    [] response \in {"408", "429", "5xx", "network error", "timeout"} -> "retryable"
    [] OTHER -> "permanent"

\* mutant: one attempt too many
GivesUpLate(s) == inHand[s][1].attempt > MaxAttempts[s]

GivesUp(s) == inHand[s][1].attempt >= MaxAttempts[s]

\* mutant: a full ring refuses the newest entry
PushDropNewest(ring, env) ==
  IF Len(ring.entries) >= DlqCap
  THEN [ring EXCEPT !.overflow = @ + 1]
  ELSE [ring EXCEPT !.entries = Append(@, env)]

\* mutant: the ring is never full
PushGrowing(ring, env) == [ring EXCEPT !.entries = Append(@, env)]

\* Dlq::push: the oldest entry makes room.
Push(ring, env) ==
  IF Len(ring.entries) >= DlqCap
  THEN [entries |-> Append(Tail(ring.entries), env), overflow |-> ring.overflow + 1]
  ELSE [ring EXCEPT !.entries = Append(@, env)]

\* The end of deliver_with_retries: the envelope has its fate.
Settle(s, fate) ==
  /\ settled' = [settled EXCEPT ![s] = Append(@, [event |-> inHand[s][1].event,
                                                  fate |-> fate])]
  /\ inHand' = [inHand EXCEPT ![s] = << >>]
  /\ task' = [task EXCEPT ![s] = "waiting"]

Bump(s, counter) == metrics' = [metrics EXCEPT ![s][counter] = @ + 1]

\* mutant: the dead letter is not counted
DeadLetterUncounted(s) ==
  /\ Settle(s, "dead")
  /\ dlq' = [dlq EXCEPT ![s] = Push(@, inHand[s][1])]
  /\ UNCHANGED metrics

DeadLetter(s) ==
  /\ Settle(s, "dead")
  /\ Bump(s, "dlq")
  /\ dlq' = [dlq EXCEPT ![s] = Push(@, inHand[s][1])]

\* attempt_one and what deliver_with_retries makes of the response.
Attempt(s, response) ==
  /\ task[s] = "sending"
  /\ inbox' = [inbox EXCEPT ![s] = Append(@, [envelope |-> inHand[s][1],
                                               response |-> response])]
  /\ \/ /\ Classify(response) = "delivered"
        /\ Settle(s, "delivered")
        /\ Bump(s, "delivered")
        /\ UNCHANGED dlq
     \/ /\ \/ Classify(response) = "permanent"
           \/ Classify(response) = "retryable" /\ GivesUp(s)
        /\ DeadLetter(s)
     \/ /\ Classify(response) = "retryable" /\ ~GivesUp(s)
        /\ Bump(s, "retry")
        /\ task' = [task EXCEPT ![s] = "backoff"]
        /\ UNCHANGED <<inHand, dlq, settled>>
  /\ UNCHANGED <<senders, heard, queue, fanned, discarded>>

\* The sleep ends: with_attempt, and around again.
Retry(s) ==
  /\ task[s] = "backoff"
  /\ inHand' = [inHand EXCEPT ![s][1].attempt = @ + 1]
  /\ task' = [task EXCEPT ![s] = "sending"]
  /\ UNCHANGED <<senders, heard, queue, dlq, metrics, fanned, inbox, settled, discarded>>

RunSink(s) ==
  \/ Receive(s)
  \/ InputClosed(s)
  \/ SinkShutdown(s)
  \/ \E response \in Responses : Attempt(s, response)
  \/ Retry(s)

-----------------------------------------------------------------------------
(* The sinks on their own, fed every event once and stopped in every way    *)
(* the pipeline has: senders dropped, broadcast, abort.                    *)

\* A sink that is waiting may be in the middle of a poll.
HearingAfterSend(s) == IF task[s] = "waiting" THEN {"missed", "yes"} ELSE {"yes"}

Broadcast ==
  /\ heard = [s \in Subs |-> "no"]
  /\ \E h \in [Subs -> {"missed", "yes"}] :
       /\ \A s \in Subs : h[s] \in HearingAfterSend(s)
       /\ heard' = h
  /\ UNCHANGED <<senders, task, queue, inHand, dlq, metrics, fanned, inbox, settled,
                 discarded>>

FannedOut == {fanned[i] : i \in DOMAIN fanned}

SinkNext ==
  \/ senders /\ \E e \in Event \ FannedOut : FanOut(e)
  \/ DropSenders
  \/ Broadcast
  \/ \E s \in Subs : RunSink(s) \/ AbortSink(s)

SinkSpec == SinkInit /\ [][SinkNext]_sinkVars

-----------------------------------------------------------------------------
(* Safety.                                                                 *)

Backlog(s) == Len(queue[s]) + Len(inHand[s])

\* The counters account for every event that matched a subscriber: it is
\* delivered, dead-lettered, dropped at a full or closed queue, waiting, or
\* was discarded when the task ended (pipeline.rs:437-474, http.rs:105-167).
MetricsBalance ==
  \A s \in Subs :
    metrics[s]["matched"] = metrics[s]["delivered"] + metrics[s]["dlq"]
                            + metrics[s]["full"] + metrics[s]["closed"]
                            + Backlog(s) + discarded[s]

\* Where the dead letters stand among the settled events, and the number of
\* the dead letter at i, counted from the first.
Dead(s) == {i \in DOMAIN settled[s] : settled[s][i].fate = "dead"}
Rank(s, i) == Cardinality({j \in Dead(s) : j <= i})

\* The ring holds the latest dead letters, newest last, and overflow_count
\* is the number of older ones it let go (dlq.rs:40-50).
RingKeepsLatest ==
  \A s \in Subs :
    /\ Cardinality(Dead(s)) = dlq[s].overflow + Len(dlq[s].entries)
    /\ \A i \in Dead(s) :
         Rank(s, i) > dlq[s].overflow =>
           dlq[s].entries[Rank(s, i) - dlq[s].overflow].event = settled[s][i].event

\* A subscriber sees the attempts of an event as one run 1, 2, ... of at most
\* max_attempts, never mixed with another event's (http.rs:105-167).
RetriesAreRuns ==
  \A s \in Subs : \A i \in DOMAIN inbox[s] :
    LET now == inbox[s][i].envelope
    IN /\ now.attempt <= MaxAttempts[s]
       /\ now.attempt > 1 =>
            /\ i > 1
            /\ inbox[s][i - 1].envelope = [now EXCEPT !.attempt = @ - 1]

\* The k-th POST is the last a subscriber got of event e.
LastPost(s, k, e) ==
  /\ inbox[s][k].envelope.event = e
  /\ \A j \in DOMAIN inbox[s] : inbox[s][j].envelope.event = e => j <= k

\* What the k-th answer has to be for this fate.
FateFits(s, k, fate) ==
  IF fate = "delivered"
  THEN inbox[s][k].response = "2xx"
  ELSE \/ inbox[s][k].response \in {"3xx", "4xx"}
       \/ /\ inbox[s][k].response # "2xx"
          /\ inbox[s][k].envelope.attempt = MaxAttempts[s]

\* Delivered means that the last response was a 2xx; a dead letter had no
\* chance left: its last response was permanent or it used every attempt
\* (docs/webhook-protocol.md:95-106, http.rs:61-67 and 105-167).
FateFitsResponses ==
  \A s \in Subs : \A i \in DOMAIN settled[s] :
    \E k \in DOMAIN inbox[s] :
      LastPost(s, k, settled[s][i].event) /\ FateFits(s, k, settled[s][i].fate)

\* The books of a subscriber balance: the events that matched it are as many as those
\* counted as delivered, dead-lettered, refused by a full or a closed queue, those
\* waiting and those discarded at the end, and the ring holds the latest of the dead and
\* counts the others (pipeline.rs:437-474, http.rs:105-167, dlq.rs:40-50).
AccountsBalance ==
  /\ SinkTypeOK
  /\ MetricsBalance
  /\ RingKeepsLatest

\* What is retried, and what is given up, follows from what the subscriber
\* answered (http.rs:61-67 and 105-167).
RetriesFitResponses ==
  /\ RetriesAreRuns
  /\ FateFitsResponses

\* The queues, retries and the ring implement the promise of Delivery.
Promise == INSTANCE Delivery WITH
  offered <- FannedOut,
  live    <- Running,
  pending <- [s \in Subs |-> [i \in DOMAIN inHand[s] |-> inHand[s][i].event] \o queue[s]]

\* Refinement: order, one fate per event, bounded waiting (http.rs:75-167).
KeepsPromise == Promise!Spec
=============================================================================
