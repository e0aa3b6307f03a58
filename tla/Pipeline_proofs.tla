--------------------------- MODULE Pipeline_proofs ---------------------------
(***************************************************************************)
(* Proofs about the delivery side of the relay, for any number of sources    *)
(* and subscribers, any lines, filters, retry budgets, capacities and         *)
(* answers.  First Sink on its own: the books of a subscriber balance, what it *)
(* was told fits what it answered, and the queues, retries and the ring keep   *)
(* the promise of Delivery.  Then Pipeline, which composes it: it is the task  *)
(* PipelineTask, what it returns is true, it drains patiently, and the events  *)
(* flow in order.                                                          *)
(***************************************************************************)
EXTENDS Pipeline, Picks_proofs

-----------------------------------------------------------------------------
(* Types, those of the histories included.                                 *)

Post == [envelope : Envelope, response : Response]
Outcome == [event : Event, fate : {"delivered", "dead"}]

HistoryOK ==
  /\ fanned \in Seq(Event)
  /\ inbox \in [Subs -> Seq(Post)]
  /\ settled \in [Subs -> Seq(Outcome)]
  /\ discarded \in [Subs -> Nat]

Typed == SinkTypeOK /\ HistoryOK

\* Before the first event.
LEMMA InitIsTyped == SinkInit => Typed
BY SinkAssumption DEF SinkInit, Typed, SinkTypeOK, HistoryOK, Hearing, Ended, Counter, Envelope,
   Post, Outcome

\* Only a task with an envelope has one in hand.
LEMMA HandOfATask ==
  ASSUME Typed, NEW s \in Subs
  PROVE  /\ task[s] \in {"sending", "backoff"} => /\ inHand[s][1] \in Envelope
                                                  /\ inHand[s] = <<inHand[s][1]>>
         /\ task[s] \notin {"sending", "backoff"} => inHand[s] = << >>
<1>1. inHand[s] \in Seq(Envelope)
  BY DEF Typed, SinkTypeOK
<1>2. CASE task[s] \in {"sending", "backoff"}
  <2>1. Len(inHand[s]) = 1
    BY <1>2 DEF Typed, SinkTypeOK
  <2>2. inHand[s][1] \in Envelope
    BY <1>1, <2>1, ElementOfSeq
  <2>3. inHand[s] = <<inHand[s][1]>>
    BY <1>1, <2>1, <2>2, SeqEqual
  <2>. QED  BY <1>2, <2>2, <2>3
<1>3. CASE task[s] \notin {"sending", "backoff"}
  BY <1>1, <1>3, EmptySeq DEF Typed, SinkTypeOK
<1>. QED  BY <1>2, <1>3

\* fan_out only adds to queues that have room.
LEMMA FanOutKeepsTypes == ASSUME Typed, NEW e \in Event, FanOut(e) PROVE Typed'
<1>. USE SinkAssumption
<1>1. queue' \in [Subs -> Seq(Event)] /\ \A s \in Subs : Len(queue'[s]) <= QueueCap
  <2>1. \A s \in Subs : queue[s] \in Seq(Event) /\ Len(queue[s]) <= QueueCap
    BY DEF Typed, SinkTypeOK
  <2>2. \A s \in Subs : /\ queue'[s] \in Seq(Event)
                        /\ Len(queue'[s]) <= QueueCap
    <3>. TAKE s \in Subs
    <3>1. \/ queue'[s] = queue[s]
          \/ queue'[s] = Append(queue[s], e) /\ Len(queue[s]) < QueueCap
      BY DEF FanOut, TrySend, TryRoom
    <3>2. CASE Len(queue[s]) < QueueCap
      <4>1. Append(queue[s], e) \in Seq(Event) /\ Len(Append(queue[s], e)) = Len(queue[s]) + 1
        BY <2>1
      <4>2. Len(queue[s]) \in Nat
        BY <2>1
      <4>3. CASE queue'[s] = queue[s]
        BY <2>1, <4>3
      <4>4. CASE queue'[s] = Append(queue[s], e)
        BY <3>2, <4>1, <4>2, <4>4
      <4>. QED  BY <3>1, <4>3, <4>4
    <3>3. CASE ~(Len(queue[s]) < QueueCap)
      BY <2>1, <3>1, <3>3
    <3>. QED  BY <3>2, <3>3
  <2>. QED  BY <2>2 DEF FanOut
<1>2. metrics' \in [Subs -> [Counter -> Nat]]
  BY DEF FanOut, Typed, SinkTypeOK
<1>3. fanned' \in Seq(Event)
  BY DEF FanOut, Typed, HistoryOK
<1>. QED  BY <1>1, <1>2, <1>3 DEF FanOut, Typed, SinkTypeOK, HistoryOK

\* A poll moves what a sink has heard towards "yes".
LEMMA PollKeepsHearing == ASSUME Typed, NEW s \in Subs, PollsOn(s) PROVE heard' \in [Subs -> Hearing]
BY DEF PollsOn, AfterPoll, Typed, SinkTypeOK, Hearing

\* A sink that takes the head of its queue.
LEMMA ReceiveKeepsTypes == ASSUME Typed, NEW s \in Subs, Receive(s) PROVE Typed'
<1>. USE SinkAssumption
<1>1. queue[s] \in Seq(Event) /\ queue[s] # << >> /\ Len(queue[s]) <= QueueCap
  BY DEF Receive, Typed, SinkTypeOK
<1>2. Head(queue[s]) \in Event /\ Tail(queue[s]) \in Seq(Event) /\ Len(Tail(queue[s])) <= QueueCap
  BY <1>1
<1>3. <<[event |-> Head(queue[s]), attempt |-> 1]>> \in Seq(Envelope)
  BY <1>2 DEF Envelope
<1>4. queue' \in [Subs -> Seq(Event)] /\ \A r \in Subs : Len(queue'[r]) <= QueueCap
  BY <1>2 DEF Receive, Typed, SinkTypeOK
<1>5. /\ inHand' \in [Subs -> Seq(Envelope)]
      /\ task' \in [Subs -> {"waiting", "sending", "backoff"} \cup Ended]
      /\ \A r \in Subs : Len(inHand'[r]) = IF task'[r] \in {"sending", "backoff"} THEN 1 ELSE 0
  BY <1>3 DEF Receive, Typed, SinkTypeOK
<1>6. heard' \in [Subs -> Hearing]
  BY PollKeepsHearing DEF Receive
<1>. QED  BY <1>4, <1>5, <1>6 DEF Receive, Typed, SinkTypeOK, HistoryOK

\* A sink that ends with nothing queued.
LEMMA InputClosedKeepsTypes == ASSUME Typed, NEW s \in Subs, InputClosed(s) PROVE Typed'
<1>1. heard' \in [Subs -> Hearing]
  BY PollKeepsHearing DEF InputClosed
<1>. QED  BY <1>1 DEF InputClosed, PollsOn, Ended, Typed, SinkTypeOK, HistoryOK

\* No envelope in hand.
LEMMA EmptyHand == << >> \in Seq(Envelope) /\ Len(<< >>) = 0
OBVIOUS

\* A task that is left by its envelope, in whatever way.
LEMMA HandEmptied ==
  ASSUME Typed, NEW s \in Subs, NEW how \in {"waiting"} \cup Ended,
         task' = [task EXCEPT ![s] = how], inHand' = [inHand EXCEPT ![s] = << >>]
  PROVE  /\ inHand' \in [Subs -> Seq(Envelope)]
         /\ task' \in [Subs -> {"waiting", "sending", "backoff"} \cup Ended]
         /\ \A r \in Subs : Len(inHand'[r]) = IF task'[r] \in {"sending", "backoff"} THEN 1 ELSE 0
<1>1. /\ inHand \in [Subs -> Seq(Envelope)]
      /\ task \in [Subs -> {"waiting", "sending", "backoff"} \cup Ended]
      /\ \A r \in Subs : Len(inHand[r]) = IF task[r] \in {"sending", "backoff"} THEN 1 ELSE 0
  BY DEF Typed, SinkTypeOK
<1>2. \A r \in Subs : Len(inHand'[r]) = IF task'[r] \in {"sending", "backoff"} THEN 1 ELSE 0
  <2>. TAKE r \in Subs
  <2>1. CASE r = s
    <3>1. inHand'[r] = << >> /\ task'[r] = how /\ how \notin {"sending", "backoff"}
      BY <1>1, <2>1 DEF Ended
    <3>. QED  BY <3>1, EmptyHand
  <2>2. CASE r # s
    BY <1>1, <2>2
  <2>. QED  BY <2>1, <2>2
<1>. QED  BY <1>1, <1>2, EmptyHand

\* A sink that ends and drops what it had.
LEMMA LeaveKeepsTypes ==
  ASSUME Typed, NEW s \in Subs, NEW how \in Ended, Leave(s, how) PROVE Typed'
<1>. USE SinkAssumption
<1>1. queue' \in [Subs -> Seq(Event)] /\ \A r \in Subs : Len(queue'[r]) <= QueueCap
  BY DEF Leave, Typed, SinkTypeOK
<1>2. /\ inHand' \in [Subs -> Seq(Envelope)]
      /\ task' \in [Subs -> {"waiting", "sending", "backoff"} \cup Ended]
      /\ \A r \in Subs : Len(inHand'[r]) = IF task'[r] \in {"sending", "backoff"} THEN 1 ELSE 0
  BY HandEmptied DEF Leave
<1>3. discarded' \in [Subs -> Nat]
  <2>1. Len(queue[s]) \in Nat /\ Len(inHand[s]) \in Nat /\ discarded[s] \in Nat
    BY DEF Typed, SinkTypeOK, HistoryOK
  <2>. QED  BY <2>1 DEF Leave, Typed, HistoryOK
<1>. QED  BY <1>1, <1>2, <1>3 DEF Leave, Typed, SinkTypeOK, HistoryOK

\* dlq.rs push: the ring never exceeds its capacity.
LEMMA PushKeepsTheRing ==
  ASSUME NEW ring \in [entries : Seq(Envelope), overflow : Nat], Len(ring.entries) <= DlqCap,
         NEW env \in Envelope
  PROVE  /\ Push(ring, env) \in [entries : Seq(Envelope), overflow : Nat]
         /\ Len(Push(ring, env).entries) <= DlqCap
<1>. USE SinkAssumption
<1>1. CASE Len(ring.entries) >= DlqCap
  <2>1. /\ Tail(ring.entries) \in Seq(Envelope)
        /\ Len(Tail(ring.entries)) = Len(ring.entries) - 1
    BY <1>1
  <2>. QED  BY <1>1, <2>1 DEF Push
<1>2. CASE ~(Len(ring.entries) >= DlqCap)
  <2>1. Push(ring, env) = [entries |-> Append(ring.entries, env), overflow |-> ring.overflow]
    BY <1>2 DEF Push
  <2>. QED  BY <1>2, <2>1
<1>. QED  BY <1>1, <1>2

\* The end of an envelope: its fate is noted, and a dead letter pushed.
LEMMA SettleKeepsTypes ==
  ASSUME Typed, NEW s \in Subs, task[s] = "sending", NEW fate \in {"delivered", "dead"},
         Settle(s, fate)
  PROVE  /\ settled' \in [Subs -> Seq(Outcome)]
         /\ inHand' \in [Subs -> Seq(Envelope)]
         /\ task' \in [Subs -> {"waiting", "sending", "backoff"} \cup Ended]
         /\ \A r \in Subs : Len(inHand'[r]) = IF task'[r] \in {"sending", "backoff"} THEN 1 ELSE 0
<1>1. inHand[s][1] \in Envelope
  BY HandOfATask
<1>2. [event |-> inHand[s][1].event, fate |-> fate] \in Outcome
  BY <1>1 DEF Envelope, Outcome
<1>3. settled' \in [Subs -> Seq(Outcome)]
  BY <1>2 DEF Settle, Typed, HistoryOK
<1>. QED  BY <1>3, HandEmptied DEF Settle

\* A counter goes up by one.
LEMMA BumpKeepsTypes ==
  ASSUME Typed, NEW s \in Subs, NEW c \in Counter, Bump(s, c)
  PROVE  /\ metrics' \in [Subs -> [Counter -> Nat]]
         /\ metrics'[s][c] = metrics[s][c] + 1
         /\ \A r \in Subs, d \in Counter : r # s \/ d # c => metrics'[r][d] = metrics[r][d]
BY DEF Bump, Typed, SinkTypeOK

\* The three ways an attempt goes on.
LEMMA AttemptKeepsTypes ==
  ASSUME Typed, NEW s \in Subs, NEW response \in Responses, Attempt(s, response) PROVE Typed'
<1>. USE SinkAssumption
<1>1. task[s] = "sending" /\ inHand[s][1] \in Envelope
  BY HandOfATask DEF Attempt
<1>2. inbox' \in [Subs -> Seq(Post)]
  <2>1. [envelope |-> inHand[s][1], response |-> response] \in Post
    BY <1>1 DEF Post
  <2>. QED  BY <2>1 DEF Attempt, Typed, HistoryOK
<1>3. CASE Settle(s, "delivered") /\ Bump(s, "delivered") /\ UNCHANGED dlq
  BY <1>1, <1>2, <1>3, SettleKeepsTypes, BumpKeepsTypes
     DEF Attempt, Counter, Typed, SinkTypeOK, HistoryOK
<1>4. CASE DeadLetter(s)
  <2>1. /\ dlq' \in [Subs -> [entries : Seq(Envelope), overflow : Nat]]
        /\ \A r \in Subs : Len(dlq'[r].entries) <= DlqCap
    <3>1. /\ Push(dlq[s], inHand[s][1]) \in [entries : Seq(Envelope), overflow : Nat]
          /\ Len(Push(dlq[s], inHand[s][1]).entries) <= DlqCap
      BY <1>1, PushKeepsTheRing DEF Typed, SinkTypeOK
    <3>. QED  BY <1>4, <3>1 DEF DeadLetter, Typed, SinkTypeOK
  <2>. QED  BY <1>1, <1>2, <1>4, <2>1, SettleKeepsTypes, BumpKeepsTypes
               DEF Attempt, DeadLetter, Counter, Typed, SinkTypeOK, HistoryOK
<1>5. CASE /\ Bump(s, "retry")
           /\ task' = [task EXCEPT ![s] = "backoff"]
           /\ UNCHANGED <<inHand, dlq, settled>>
  BY <1>1, <1>2, <1>5, BumpKeepsTypes DEF Attempt, Counter, Typed, SinkTypeOK, HistoryOK
<1>. QED  BY <1>3, <1>4, <1>5 DEF Attempt

\* The sleep of the backoff ends.
LEMMA RetryKeepsTypes == ASSUME Typed, NEW s \in Subs, Retry(s) PROVE Typed'
<1>1. inHand[s][1] \in Envelope /\ inHand[s] = <<inHand[s][1]>>
  BY HandOfATask DEF Retry
<1>. DEFINE again == [event |-> inHand[s][1].event, attempt |-> inHand[s][1].attempt + 1]
<1>2. [inHand[s] EXCEPT ![1].attempt = @ + 1] = <<again>>
  BY <1>1 DEF Envelope
<1>3. <<again>> \in Seq(Envelope)
  BY <1>1 DEF Envelope
<1>4. inHand' = [inHand EXCEPT ![s] = <<again>>]
  BY <1>2 DEF Retry
<1>. HIDE DEF again
<1>. QED  BY ZenonT(60), <1>3, <1>4 DEF Retry, Typed, SinkTypeOK, HistoryOK

\* Whatever a sink does, it keeps the types.
LEMMA RunSinkKeepsTypes == ASSUME Typed, NEW s \in Subs, RunSink(s) PROVE Typed'
<1>1. CASE SinkShutdown(s)
  BY <1>1, LeaveKeepsTypes DEF SinkShutdown, Ended
<1>. QED  BY <1>1, ReceiveKeepsTypes, InputClosedKeepsTypes, AttemptKeepsTypes, RetryKeepsTypes
             DEF RunSink

\* So does an abort.
LEMMA AbortKeepsTypes == ASSUME Typed, NEW s \in Subs, AbortSink(s) PROVE Typed'
BY LeaveKeepsTypes DEF AbortSink, Ended

\* The parser's task and the broadcast touch nothing else.
LEMMA SignalsKeepTypes == ASSUME Typed, DropSenders \/ Broadcast PROVE Typed'
BY ZenonT(60) DEF DropSenders, Broadcast, Hearing, Typed, SinkTypeOK, HistoryOK

\* A step in which nothing of the sinks changes.
LEMMA StutterKeepsTypes == ASSUME Typed, UNCHANGED sinkVars PROVE Typed'
BY DEF sinkVars, Typed, SinkTypeOK, HistoryOK

\* Every step of the sinks, of the parser and of the pipeline that stops them.
LEMMA NextKeepsTypes == Typed /\ [SinkNext]_sinkVars => Typed'
BY FanOutKeepsTypes, RunSinkKeepsTypes, AbortKeepsTypes, SignalsKeepTypes, StutterKeepsTypes
   DEF SinkNext

\* Type correctness of the delivery side.
THEOREM SinksAreTyped == SinkSpec => []Typed
BY InitIsTyped, NextKeepsTypes, PTL DEF SinkSpec

-----------------------------------------------------------------------------
(* The counters balance.                                                   *)

\* All that is counted are numbers.
NumbersOf(s) ==
  /\ Len(queue[s]) \in Nat /\ Len(inHand[s]) \in Nat /\ discarded[s] \in Nat
  /\ metrics[s]["matched"] \in Nat /\ metrics[s]["delivered"] \in Nat
  /\ metrics[s]["dlq"] \in Nat /\ metrics[s]["full"] \in Nat
  /\ metrics[s]["closed"] \in Nat

\* Every amount of the balance is a number.
LEMMA AmountsAreNumbers == ASSUME Typed, NEW s \in Subs PROVE NumbersOf(s)
<1>1. queue[s] \in Seq(Event) /\ inHand[s] \in Seq(Envelope) /\ discarded[s] \in Nat
  BY DEF Typed, SinkTypeOK, HistoryOK
<1>2. metrics[s] \in [Counter -> Nat]
  BY DEF Typed, SinkTypeOK
<1>. QED  BY <1>1, <1>2 DEF Counter, NumbersOf

\* The equation of MetricsBalance, for a step that changes two of its terms.
Balanced(matched, delivered, dead, full, closed, queued, held, dropped) ==
  matched = delivered + dead + full + closed + (queued + held) + dropped

\* The ways an event moves between the amounts keep their balance.
LEMMA BalanceIsKept ==
  ASSUME NEW m \in Nat, NEW d \in Nat, NEW l \in Nat, NEW f \in Nat, NEW c \in Nat,
         NEW q \in Nat, NEW h \in Nat, NEW x \in Nat, Balanced(m, d, l, f, c, q, h, x)
  PROVE  /\ Balanced(m + 1, d, l, f, c, q + 1, h, x)
         /\ Balanced(m + 1, d, l, f + 1, c, q, h, x)
         /\ Balanced(m + 1, d, l, f, c + 1, q, h, x)
         /\ h = 1 => Balanced(m, d + 1, l, f, c, q, 0, x) /\ Balanced(m, d, l + 1, f, c, q, 0, x)
         /\ h = 0 /\ q > 0 => Balanced(m, d, l, f, c, q - 1, 1, x)
         /\ Balanced(m, d, l, f, c, 0, 0, x + q + h)
BY DEF Balanced

SubBalanced(s) ==
  Balanced(metrics[s]["matched"], metrics[s]["delivered"], metrics[s]["dlq"],
           metrics[s]["full"], metrics[s]["closed"], Len(queue[s]), Len(inHand[s]),
           discarded[s])

\* The balance, one subscriber at a time.
LEMMA BalanceBySub == MetricsBalance <=> \A s \in Subs : SubBalanced(s)
BY DEF MetricsBalance, Backlog, SubBalanced, Balanced

\* fan_out counts each matching event once as matched, and once more when it is
\* not queued.
LEMMA FanOutBalances ==
  ASSUME Typed, MetricsBalance, NEW e \in Event, FanOut(e) PROVE MetricsBalance'
<1>. SUFFICES ASSUME NEW s \in Subs PROVE SubBalanced(s)'
  BY DEF MetricsBalance, Backlog, SubBalanced, Balanced
<1>1. SubBalanced(s) /\ NumbersOf(s)
  BY BalanceBySub, AmountsAreNumbers
<1>2. /\ inHand'[s] = inHand[s] /\ discarded'[s] = discarded[s]
      /\ \A c \in Counter : metrics'[s][c] =
           IF s \in Matches[e] /\ c \in {"matched", TrySend(s)} THEN metrics[s][c] + 1
                                                                ELSE metrics[s][c]
      /\ queue'[s] = IF s \in Matches[e] /\ TrySend(s) = "ok" THEN Append(queue[s], e)
                                                              ELSE queue[s]
  BY DEF FanOut
<1>3. Len(Append(queue[s], e)) = Len(queue[s]) + 1
  BY DEF Typed, SinkTypeOK
<1>4. TrySend(s) \in {"ok", "full", "closed"}
  BY DEF TrySend
<1>5. CASE s \notin Matches[e]
  BY <1>1, <1>2, <1>5 DEF Counter, SubBalanced
<1>6. CASE s \in Matches[e]
  <2>1. /\ metrics'[s]["matched"] = metrics[s]["matched"] + 1
        /\ metrics'[s]["delivered"] = metrics[s]["delivered"]
        /\ metrics'[s]["dlq"] = metrics[s]["dlq"]
        /\ metrics'[s]["full"] = IF TrySend(s) = "full" THEN metrics[s]["full"] + 1
                                                        ELSE metrics[s]["full"]
        /\ metrics'[s]["closed"] = IF TrySend(s) = "closed" THEN metrics[s]["closed"] + 1
                                                            ELSE metrics[s]["closed"]
        /\ Len(queue'[s]) = IF TrySend(s) = "ok" THEN Len(queue[s]) + 1 ELSE Len(queue[s])
    BY <1>2, <1>3, <1>4, <1>6 DEF Counter
  <2>2. /\ Balanced(metrics[s]["matched"] + 1, metrics[s]["delivered"], metrics[s]["dlq"],
                    metrics[s]["full"], metrics[s]["closed"], Len(queue[s]) + 1,
                    Len(inHand[s]), discarded[s])
        /\ Balanced(metrics[s]["matched"] + 1, metrics[s]["delivered"], metrics[s]["dlq"],
                    metrics[s]["full"] + 1, metrics[s]["closed"], Len(queue[s]),
                    Len(inHand[s]), discarded[s])
        /\ Balanced(metrics[s]["matched"] + 1, metrics[s]["delivered"], metrics[s]["dlq"],
                    metrics[s]["full"], metrics[s]["closed"] + 1, Len(queue[s]),
                    Len(inHand[s]), discarded[s])
    BY <1>1, BalanceIsKept DEF SubBalanced, NumbersOf
  <2>. QED  BY <1>2, <1>4, <2>1, <2>2 DEF SubBalanced
<1>. QED  BY <1>5, <1>6

\* A step of one subscriber leaves the books of the others alone.
LEMMA OneSinkBalances ==
  ASSUME MetricsBalance, NEW s \in Subs,
         \A r \in Subs \ {s} : /\ metrics'[r] = metrics[r] /\ queue'[r] = queue[r]
                               /\ inHand'[r] = inHand[r] /\ discarded'[r] = discarded[r],
         SubBalanced(s)'
  PROVE  MetricsBalance'
<1>1. \A r \in Subs \ {s} : SubBalanced(r)'
  BY BalanceBySub DEF SubBalanced
<1>. QED  BY <1>1 DEF MetricsBalance, Backlog, SubBalanced, Balanced

\* An envelope that is delivered or dead-lettered leaves the hand for a counter.
LEMMA AttemptBalances ==
  ASSUME Typed, MetricsBalance, NEW s \in Subs, NEW response \in Responses, Attempt(s, response)
  PROVE  MetricsBalance'
<1>1. SubBalanced(s) /\ NumbersOf(s)
  BY BalanceBySub, AmountsAreNumbers
<1>2. Len(inHand[s]) = 1
  BY DEF Typed, SinkTypeOK, Attempt
<1>3. UNCHANGED <<queue, discarded>>
  BY DEF Attempt
<1>4. ASSUME NEW fate \in {"delivered", "dead"}, NEW c \in {"delivered", "dlq"},
             Settle(s, fate), Bump(s, c)
      PROVE  MetricsBalance'
  <2>1. /\ metrics'[s][c] = metrics[s][c] + 1
        /\ \A r \in Subs, d \in Counter : r # s \/ d # c => metrics'[r][d] = metrics[r][d]
    BY <1>4, BumpKeepsTypes DEF Counter
  <2>2. \A r \in Subs \ {s} : metrics'[r] = metrics[r] /\ inHand'[r] = inHand[r]
    BY <1>4 DEF Bump, Settle, Typed, SinkTypeOK
  <2>3. Len(inHand'[s]) = 0
    BY <1>4, EmptyHand DEF Settle, Typed, SinkTypeOK
  <2>4. /\ metrics'[s]["matched"] = metrics[s]["matched"]
        /\ metrics'[s]["delivered"] = IF c = "delivered" THEN metrics[s]["delivered"] + 1
                                                         ELSE metrics[s]["delivered"]
        /\ metrics'[s]["dlq"] = IF c = "dlq" THEN metrics[s]["dlq"] + 1 ELSE metrics[s]["dlq"]
        /\ metrics'[s]["full"] = metrics[s]["full"]
        /\ metrics'[s]["closed"] = metrics[s]["closed"]
    BY <2>1 DEF Counter
  <2>5. /\ Balanced(metrics[s]["matched"], metrics[s]["delivered"] + 1, metrics[s]["dlq"],
                    metrics[s]["full"], metrics[s]["closed"], Len(queue[s]), 0, discarded[s])
        /\ Balanced(metrics[s]["matched"], metrics[s]["delivered"], metrics[s]["dlq"] + 1,
                    metrics[s]["full"], metrics[s]["closed"], Len(queue[s]), 0, discarded[s])
    BY <1>1, <1>2, BalanceIsKept DEF SubBalanced, NumbersOf
  <2>6. SubBalanced(s)'
    BY <1>3, <2>3, <2>4, <2>5 DEF SubBalanced
  <2>. QED  BY <1>3, <2>2, <2>6, OneSinkBalances
<1>5. CASE /\ Bump(s, "retry")
           /\ task' = [task EXCEPT ![s] = "backoff"]
           /\ UNCHANGED <<inHand, dlq, settled>>
  <2>1. \A r \in Subs, d \in Counter : r # s \/ d # "retry" => metrics'[r][d] = metrics[r][d]
    BY <1>5, BumpKeepsTypes DEF Counter
  <2>2. \A r \in Subs \ {s} : metrics'[r] = metrics[r]
    BY <1>5 DEF Bump, Typed, SinkTypeOK
  <2>3. \A c \in {"matched", "delivered", "dlq", "full", "closed"} :
          metrics'[s][c] = metrics[s][c]
    BY <2>1 DEF Counter
  <2>4. SubBalanced(s)'
    BY <1>1, <1>3, <1>5, <2>3 DEF SubBalanced
  <2>. QED  BY <1>3, <1>5, <2>2, <2>4, OneSinkBalances
<1>. QED  BY <1>4, <1>5 DEF Attempt, DeadLetter

\* A task that ends discards what it had accepted.
LEMMA LeaveBalances ==
  ASSUME Typed, MetricsBalance, NEW s \in Subs, NEW how \in Ended, Leave(s, how)
  PROVE  MetricsBalance'
<1>1. SubBalanced(s) /\ NumbersOf(s)
  BY BalanceBySub, AmountsAreNumbers
<1>2. /\ queue'[s] = << >> /\ inHand'[s] = << >>
      /\ discarded'[s] = discarded[s] + Len(queue[s]) + Len(inHand[s])
      /\ \A r \in Subs \ {s} : /\ queue'[r] = queue[r] /\ inHand'[r] = inHand[r]
                               /\ discarded'[r] = discarded[r]
      /\ metrics' = metrics
  BY DEF Leave, Typed, SinkTypeOK, HistoryOK
<1>3. Len(queue'[s]) = 0 /\ Len(inHand'[s]) = 0
  BY <1>2, EmptyHand
<1>4. Balanced(metrics[s]["matched"], metrics[s]["delivered"], metrics[s]["dlq"],
               metrics[s]["full"], metrics[s]["closed"], 0, 0,
               discarded[s] + Len(queue[s]) + Len(inHand[s]))
  BY <1>1, BalanceIsKept DEF SubBalanced, NumbersOf
<1>5. SubBalanced(s)'
  BY <1>2, <1>3, <1>4 DEF SubBalanced
<1>. QED  BY <1>2, <1>5, OneSinkBalances

\* The head of the queue goes to the hand.
LEMMA ReceiveBalances ==
  ASSUME Typed, MetricsBalance, NEW s \in Subs, Receive(s) PROVE MetricsBalance'
<1>1. SubBalanced(s) /\ NumbersOf(s)
  BY BalanceBySub, AmountsAreNumbers
<1>2. queue[s] \in Seq(Event) /\ queue[s] # << >> /\ Len(inHand[s]) = 0
  BY DEF Typed, SinkTypeOK, HistoryOK, Receive, PollsOn
<1>3. Len(queue[s]) > 0 /\ Len(Tail(queue[s])) = Len(queue[s]) - 1
  BY <1>2
<1>4. /\ queue'[s] = Tail(queue[s]) /\ Len(inHand'[s]) = 1
      /\ \A r \in Subs \ {s} : queue'[r] = queue[r] /\ inHand'[r] = inHand[r]
      /\ metrics' = metrics /\ discarded' = discarded
  BY DEF Receive, Typed, SinkTypeOK, HistoryOK
<1>5. Balanced(metrics[s]["matched"], metrics[s]["delivered"], metrics[s]["dlq"],
               metrics[s]["full"], metrics[s]["closed"], Len(queue[s]) - 1, 1, discarded[s])
  BY <1>1, <1>2, <1>3, BalanceIsKept DEF SubBalanced, NumbersOf
<1>6. SubBalanced(s)'
  BY <1>3, <1>4, <1>5 DEF SubBalanced
<1>. QED  BY <1>4, <1>6, OneSinkBalances

\* Nothing is accepted, settled or dropped.
LEMMA QuietBalances ==
  ASSUME Typed, MetricsBalance, UNCHANGED <<metrics, queue, discarded>>,
         \A s \in Subs : Len(inHand'[s]) = Len(inHand[s])
  PROVE  MetricsBalance'
BY DEF MetricsBalance, Backlog

\* Every step of a sink.
LEMMA RunSinkBalances ==
  ASSUME Typed, MetricsBalance, NEW s \in Subs, RunSink(s) \/ AbortSink(s) PROVE MetricsBalance'
<1>1. CASE SinkShutdown(s) \/ AbortSink(s)
  BY <1>1, LeaveBalances DEF SinkShutdown, AbortSink, Ended
<1>2. CASE InputClosed(s)
  BY <1>2, QuietBalances DEF InputClosed
<1>3. CASE Retry(s)
  <2>1. \A r \in Subs : Len(inHand'[r]) = Len(inHand[r])
    BY <1>3 DEF Retry, Typed, SinkTypeOK
  <2>. QED  BY <1>3, <2>1, QuietBalances DEF Retry
<1>. QED  BY <1>1, <1>2, <1>3, ReceiveBalances, AttemptBalances DEF RunSink

\* Every step of the delivery side.
LEMMA NextBalances == Typed /\ MetricsBalance /\ [SinkNext]_sinkVars => MetricsBalance'
<1>. SUFFICES ASSUME Typed, MetricsBalance, [SinkNext]_sinkVars PROVE MetricsBalance'
  OBVIOUS
<1>1. CASE DropSenders \/ Broadcast \/ UNCHANGED sinkVars
  BY <1>1, QuietBalances DEF DropSenders, Broadcast, sinkVars
<1>. QED  BY <1>1, FanOutBalances, RunSinkBalances DEF SinkNext

-----------------------------------------------------------------------------
(* The ring holds the latest dead letters.                                 *)

\* Numbering the elements of a set of positions: a later position does not change
\* the numbers of the earlier ones, and gets the next.
LEMMA Numbering ==
  ASSUME NEW n \in Nat, NEW D \in SUBSET (1 .. n)
  PROVE  /\ IsFiniteSet(D) /\ Cardinality(D) \in Nat
         /\ Cardinality(D \cup {n + 1}) = Cardinality(D) + 1
         /\ {j \in D \cup {n + 1} : j <= n + 1} = D \cup {n + 1}
         /\ \A i \in D : /\ {j \in D \cup {n + 1} : j <= i} = {j \in D : j <= i}
                         /\ Cardinality({j \in D : j <= i}) \in Nat
                         /\ Cardinality({j \in D : j <= i}) <= Cardinality(D)
<1>1. IsFiniteSet(1 .. n)
  BY FS_Interval
<1>2. IsFiniteSet(D) /\ Cardinality(D) \in Nat
  BY <1>1, FS_Subset, FS_CardinalityType
<1>3. Cardinality(D \cup {n + 1}) = Cardinality(D) + 1
  <2>1. n + 1 \notin D
    OBVIOUS
  <2>. QED  BY <1>2, <2>1, FS_AddElement
<1>4. ASSUME NEW i \in D
      PROVE  /\ {j \in D \cup {n + 1} : j <= i} = {j \in D : j <= i}
             /\ Cardinality({j \in D : j <= i}) \in Nat
             /\ Cardinality({j \in D : j <= i}) <= Cardinality(D)
  <2>1. {j \in D : j <= i} \subseteq D
    OBVIOUS
  <2>2. /\ Cardinality({j \in D : j <= i}) \in Nat
        /\ Cardinality({j \in D : j <= i}) <= Cardinality(D)
    BY <1>2, <2>1, FS_Subset, FS_CardinalityType
  <2>. QED  BY <2>2
<1>5. {j \in D \cup {n + 1} : j <= n + 1} = D \cup {n + 1}
  <2>1. \A j \in D : j <= n + 1
    OBVIOUS
  <2>2. n + 1 <= n + 1
    OBVIOUS
  <2>. QED  BY <2>1, <2>2, Zenon
<1>. QED  BY <1>2, <1>3, <1>4, <1>5

\* The books of one subscriber's ring.
SubRing(s) ==
  /\ Cardinality(Dead(s)) = dlq[s].overflow + Len(dlq[s].entries)
  /\ \A i \in Dead(s) :
       Rank(s, i) > dlq[s].overflow =>
         dlq[s].entries[Rank(s, i) - dlq[s].overflow].event = settled[s][i].event

\* A delivered event leaves the numbers of the dead letters alone.
LEMMA DeliveredKeepsRing ==
  ASSUME Typed, NEW s \in Subs, SubRing(s), dlq'[s] = dlq[s],
         NEW e \in Event, settled'[s] = Append(settled[s], [event |-> e, fate |-> "delivered"])
  PROVE  SubRing(s)'
<1>1. settled[s] \in Seq(Outcome)
  BY DEF Typed, HistoryOK
<1>2. Dead(s)' = Dead(s) /\ \A i \in Dead(s) : settled'[s][i] = settled[s][i]
  BY <1>1 DEF Dead
<1>. QED  BY <1>2 DEF SubRing, Rank

\* dlq.rs push: the newest dead letter goes in, at the capacity the oldest goes out.
LEMMA DeadLetterKeepsRing ==
  ASSUME Typed, NEW s \in Subs, SubRing(s), NEW env \in Envelope,
         dlq'[s] = Push(dlq[s], env),
         settled'[s] = Append(settled[s], [event |-> env.event, fate |-> "dead"])
  PROVE  SubRing(s)'
<1>. DEFINE old == settled[s]  n == Len(old)  D == Dead(s)
            entries == dlq[s].entries  overflow == dlq[s].overflow
<1>1. /\ old \in Seq(Outcome) /\ n \in Nat
      /\ entries \in Seq(Envelope) /\ overflow \in Nat
      /\ Len(entries) <= DlqCap
      /\ DlqCap \in Nat \ {0}
  BY SinkAssumption DEF Typed, SinkTypeOK, HistoryOK
<1>2. D \in SUBSET (1 .. n)
  BY <1>1 DEF Dead
<1>3. /\ Dead(s)' = D \cup {n + 1}
      /\ settled'[s][n + 1].event = env.event
      /\ \A i \in D : settled'[s][i] = settled[s][i]
  <2>1. /\ Len(settled'[s]) = n + 1
        /\ settled'[s][n + 1] = [event |-> env.event, fate |-> "dead"]
        /\ \A i \in 1 .. n : settled'[s][i] = settled[s][i]
    BY <1>1
  <2>. QED  BY <1>1, <1>2, <2>1 DEF Dead
<1>4. \A i \in Dead(s)' : i \notin D => i = n + 1 /\ Rank(s, i)' = Cardinality(D) + 1
  <2>. SUFFICES ASSUME NEW i \in Dead(s)', i \notin D
                PROVE  i = n + 1 /\ Rank(s, i)' = Cardinality(D) + 1
    OBVIOUS
  <2>1. i = n + 1
    BY <1>3
  <2>2. Rank(s, i)' = Cardinality({j \in D \cup {n + 1} : j <= i})
    BY <1>3 DEF Rank
  <2>3. /\ {j \in D \cup {n + 1} : j <= n + 1} = D \cup {n + 1}
        /\ Cardinality(D \cup {n + 1}) = Cardinality(D) + 1
    BY <1>1, <1>2, Numbering
  <2>. QED  BY <2>1, <2>2, <2>3
<1>5. \A i \in D : /\ Rank(s, i)' = Rank(s, i) /\ Rank(s, i) \in Nat
                   /\ Rank(s, i) <= Cardinality(D)
  <2>. TAKE i \in D
  <2>1. Rank(s, i)' = Cardinality({j \in D \cup {n + 1} : j <= i})
    BY <1>3 DEF Rank
  <2>2. Rank(s, i) = Cardinality({j \in D : j <= i})
    BY DEF Rank
  <2>3. /\ {j \in D \cup {n + 1} : j <= i} = {j \in D : j <= i}
        /\ Cardinality({j \in D : j <= i}) \in Nat
        /\ Cardinality({j \in D : j <= i}) <= Cardinality(D)
    BY <1>1, <1>2, Numbering
  <2>. QED  BY <2>1, <2>2, <2>3
<1>6. /\ Cardinality(D) = overflow + Len(entries)
      /\ Cardinality(D \cup {n + 1}) = Cardinality(D) + 1
      /\ \A i \in D : Rank(s, i) > overflow =>
                        entries[Rank(s, i) - overflow].event = settled[s][i].event
  BY <1>1, <1>2, <1>3, Numbering DEF SubRing
<1>. HIDE DEF old, n, D, entries, overflow
<1>7. CASE Len(entries) >= DlqCap
  <2>1. /\ dlq'[s].entries = Append(Tail(entries), env)
        /\ dlq'[s].overflow = overflow + 1
    BY <1>7 DEF Push, entries, overflow
  <2>2. /\ Tail(entries) \in Seq(Envelope) /\ Len(Tail(entries)) = Len(entries) - 1
        /\ \A k \in 1 .. Len(entries) - 1 : Tail(entries)[k] = entries[k + 1]
    BY <1>1, <1>7
  <2>3. /\ Len(dlq'[s].entries) = Len(entries)
        /\ dlq'[s].entries[Len(entries)] = env
        /\ \A k \in 1 .. Len(entries) - 1 : dlq'[s].entries[k] = entries[k + 1]
    BY <1>1, <1>7, <2>1, <2>2
  <2>4. Cardinality(Dead(s)') = dlq'[s].overflow + Len(dlq'[s].entries)
    <3>1. Len(entries) \in Nat /\ (overflow + Len(entries)) + 1 = (overflow + 1) + Len(entries)
      BY <1>1
    <3>. QED  BY <1>3, <1>6, <2>1, <2>3, <3>1
  <2>5. ASSUME NEW i \in D, Rank(s, i)' > dlq'[s].overflow
        PROVE  dlq'[s].entries[Rank(s, i)' - dlq'[s].overflow].event = settled'[s][i].event
    <3>1. Rank(s, i) > overflow + 1 /\ Rank(s, i) <= overflow + Len(entries) /\ Rank(s, i) \in Nat
      BY <1>5, <1>6, <2>1, <2>5
    <3>2. Rank(s, i) - (overflow + 1) \in 1 .. Len(entries) - 1
      BY <1>1, <3>1
    <3>3. dlq'[s].entries[Rank(s, i) - (overflow + 1)] = entries[(Rank(s, i) - (overflow + 1)) + 1]
      BY <2>3, <3>2
    <3>4. (Rank(s, i) - (overflow + 1)) + 1 = Rank(s, i) - overflow
      BY <1>1, <3>1
    <3>5. Rank(s, i) > overflow
      BY <1>1, <3>1
    <3>. QED  BY <1>3, <1>5, <1>6, <2>1, <3>3, <3>4, <3>5
  <2>6. \A i \in Dead(s)' : i \notin D =>
          i = n + 1 /\ Rank(s, i)' - dlq'[s].overflow = Len(entries)
    BY <1>1, <1>4, <1>6, <2>1
  <2>. QED  BY <1>3, <2>3, <2>4, <2>5, <2>6 DEF SubRing
<1>8. CASE ~(Len(entries) >= DlqCap)
  <2>1. dlq[s] = [entries |-> entries, overflow |-> overflow]
    BY DEF Typed, SinkTypeOK, entries, overflow
  <2>2. /\ dlq'[s].entries = Append(entries, env)
        /\ dlq'[s].overflow = overflow
    BY <1>8, <2>1 DEF Push, entries, overflow
  <2>3. /\ Len(dlq'[s].entries) = Len(entries) + 1
        /\ dlq'[s].entries[Len(entries) + 1] = env
        /\ \A k \in 1 .. Len(entries) : dlq'[s].entries[k] = entries[k]
    BY <1>1, <2>2
  <2>4. Cardinality(Dead(s)') = dlq'[s].overflow + Len(dlq'[s].entries)
    BY <1>1, <1>3, <1>6, <2>2, <2>3
  <2>5. ASSUME NEW i \in D, Rank(s, i)' > dlq'[s].overflow
        PROVE  dlq'[s].entries[Rank(s, i)' - dlq'[s].overflow].event = settled'[s][i].event
    <3>1. Rank(s, i) > overflow /\ Rank(s, i) <= overflow + Len(entries) /\ Rank(s, i) \in Nat
      BY <1>5, <1>6, <2>2, <2>5
    <3>2. Rank(s, i) - overflow \in 1 .. Len(entries)
      BY <1>1, <3>1
    <3>. QED  BY ZenonT(60), <1>3, <1>5, <1>6, <2>2, <2>3, <3>1, <3>2
  <2>6. \A i \in Dead(s)' : i \notin D =>
          i = n + 1 /\ Rank(s, i)' - dlq'[s].overflow = Len(entries) + 1
    BY <1>1, <1>4, <1>6, <2>2
  <2>. QED  BY <1>3, <2>3, <2>4, <2>5, <2>6 DEF SubRing
<1>. QED  BY <1>7, <1>8

\* A step that neither settles nor pushes.
LEMMA QuietKeepsRing ==
  ASSUME NEW s \in Subs, SubRing(s), dlq'[s] = dlq[s], settled'[s] = settled[s]
  PROVE  SubRing(s)'
BY DEF SubRing, Dead, Rank

\* Only the end of an attempt touches the ring.
LEMMA NextKeepsRing == Typed /\ RingKeepsLatest /\ [SinkNext]_sinkVars => RingKeepsLatest'
<1>. SUFFICES ASSUME Typed, RingKeepsLatest, [SinkNext]_sinkVars, NEW s \in Subs
              PROVE  SubRing(s)'
  BY DEF RingKeepsLatest, SubRing
<1>1. SubRing(s)
  BY DEF RingKeepsLatest, SubRing
<1>2. CASE UNCHANGED <<dlq, settled>>
  BY <1>1, <1>2, QuietKeepsRing
<1>3. ASSUME NEW r \in Subs, NEW response \in Responses, Attempt(r, response)
      PROVE  SubRing(s)'
  <2>1. inHand[r][1] \in Envelope /\ inHand[r][1].event \in Event
    BY <1>3, HandOfATask DEF Attempt, Envelope
  <2>2. CASE r # s
    <3>1. dlq'[s] = dlq[s] /\ settled'[s] = settled[s]
      BY <1>3, <2>2 DEF Attempt, DeadLetter, Settle, Typed, SinkTypeOK, HistoryOK
    <3>. QED  BY <1>1, <3>1, QuietKeepsRing
  <2>3. CASE r = s
    <3>1. CASE Settle(s, "delivered") /\ UNCHANGED dlq
      <4>1. settled'[s] = Append(settled[s], [event |-> inHand[s][1].event, fate |-> "delivered"])
        BY <3>1 DEF Settle, Typed, HistoryOK
      <4>. QED  BY <1>1, <2>1, <2>3, <3>1, <4>1, DeliveredKeepsRing
    <3>2. CASE DeadLetter(s)
      <4>1. /\ settled'[s] = Append(settled[s], [event |-> inHand[s][1].event, fate |-> "dead"])
            /\ dlq'[s] = Push(dlq[s], inHand[s][1])
        BY <3>2 DEF DeadLetter, Settle, Typed, SinkTypeOK, HistoryOK
      <4>. QED  BY <1>1, <2>1, <2>3, <4>1, DeadLetterKeepsRing
    <3>3. CASE UNCHANGED <<inHand, dlq, settled>>
      BY <1>1, <3>3, QuietKeepsRing
    <3>. QED  BY <1>3, <2>3, <3>1, <3>2, <3>3 DEF Attempt
  <2>. QED  BY <2>2, <2>3
<1>. QED  BY <1>2, <1>3 DEF SinkNext, RunSink, FanOut, DropSenders, Broadcast, Receive, InputClosed,
             SinkShutdown, AbortSink, Leave, Retry, sinkVars

\* pipeline.rs fan_out, http.rs deliver_with_retries and dlq.rs push: for any number of
\* subscribers, any capacities and any answers, the counters of a subscriber add up to
\* the events that matched it, and the ring holds the latest of the dead and counts
\* those it gave up.
THEOREM BooksAreKept == SinkSpec => []AccountsBalance
<1>1. SinkInit => Typed /\ MetricsBalance /\ RingKeepsLatest
  <2>. SUFFICES ASSUME SinkInit PROVE Typed /\ MetricsBalance /\ RingKeepsLatest
    OBVIOUS
  <2>1. MetricsBalance
    BY EmptyHand DEF SinkInit, MetricsBalance, Backlog, Counter
  <2>2. \A s \in Subs : Dead(s) = {}
    BY EmptyHand DEF SinkInit, Dead
  <2>3. RingKeepsLatest
    <3>1. \A s \in Subs : Cardinality(Dead(s)) = 0
      BY <2>2, FS_EmptySet
    <3>2. \A s \in Subs : dlq[s].overflow = 0 /\ Len(dlq[s].entries) = 0
      BY EmptyHand DEF SinkInit
    <3>. QED  BY <2>2, <3>1, <3>2 DEF RingKeepsLatest
  <2>. QED  BY <2>1, <2>3, InitIsTyped
<1>2. Typed /\ MetricsBalance /\ RingKeepsLatest => AccountsBalance
  BY DEF Typed, AccountsBalance
<1>. QED  BY <1>1, <1>2, NextKeepsTypes, NextBalances, NextKeepsRing, PTL DEF SinkSpec

-----------------------------------------------------------------------------
(* Retries and fates fit the answers.                                      *)

\* The envelope of the attempt before this one.
PreviousTry(env) == [env EXCEPT !.attempt = @ - 1]

\* An event is in one place only: queued once, in hand or settled.
EventsApart(s) ==
  /\ \A i, j \in DOMAIN queue[s] : queue[s][i] = queue[s][j] => i = j
  /\ \A i \in DOMAIN queue[s] : queue[s][i] \in FannedOut
  /\ \A i \in DOMAIN settled[s] :
       /\ settled[s][i].event \in FannedOut
       /\ \A j \in DOMAIN queue[s] : queue[s][j] # settled[s][i].event
  /\ inHand[s] # << >> =>
       /\ inHand[s][1].event \in FannedOut
       /\ \A j \in DOMAIN queue[s] : queue[s][j] # inHand[s][1].event
       /\ \A i \in DOMAIN settled[s] : settled[s][i].event # inHand[s][1].event

\* The envelope in hand follows the one of the last POST.
RunGoesOn(s) ==
  /\ task[s] = "sending" =>
       /\ inHand[s][1].attempt <= MaxAttempts[s]
       /\ inHand[s][1].attempt > 1 =>
            /\ inbox[s] # << >>
            /\ inbox[s][Len(inbox[s])].envelope = PreviousTry(inHand[s][1])
  /\ task[s] = "backoff" =>
       /\ inbox[s] # << >>
       /\ inbox[s][Len(inbox[s])].envelope = inHand[s][1]
       /\ inHand[s][1].attempt < MaxAttempts[s]

\* RetriesAreRuns and FateFitsResponses of one subscriber.
RunsOf(s) ==
  \A i \in DOMAIN inbox[s] :
    LET now == inbox[s][i].envelope
    IN /\ now.attempt <= MaxAttempts[s]
       /\ now.attempt > 1 =>
            /\ i > 1
            /\ inbox[s][i - 1].envelope = PreviousTry(now)

FatesOf(s) ==
  \A i \in DOMAIN settled[s] :
    \E k \in DOMAIN inbox[s] :
      LastPost(s, k, settled[s][i].event) /\ FateFits(s, k, settled[s][i].fate)

RetryInv(s) == EventsApart(s) /\ RunGoesOn(s) /\ RunsOf(s) /\ FatesOf(s)

\* What the step of another actor leaves alone.
LEMMA OthersKeepRetries ==
  ASSUME NEW s \in Subs, RetryInv(s), FannedOut \subseteq FannedOut',
         UNCHANGED <<queue[s], inHand[s], task[s], inbox[s], settled[s]>>
  PROVE  RetryInv(s)'
BY DEF RetryInv, EventsApart, RunGoesOn, RunsOf, FatesOf, LastPost, FateFits

\* fan_out queues an event that was not seen before.
LEMMA FanOutKeepsRetries ==
  ASSUME Typed, NEW s \in Subs, RetryInv(s), NEW e \in Event \ FannedOut, FanOut(e)
  PROVE  RetryInv(s)'
<1>1. FannedOut' = FannedOut \cup {e}
  <2>1. /\ DOMAIN fanned' = DOMAIN fanned \cup {Len(fanned) + 1}
        /\ fanned'[Len(fanned) + 1] = e
        /\ \A i \in DOMAIN fanned : fanned'[i] = fanned[i]
    BY DEF FanOut, Typed, HistoryOK
  <2>. QED  BY <2>1 DEF FannedOut
<1>2. UNCHANGED <<inHand[s], task[s], inbox[s], settled[s]>>
  BY DEF FanOut
<1>3. CASE queue'[s] = queue[s]
  BY <1>1, <1>2, <1>3, OthersKeepRetries
<1>4. CASE queue'[s] = Append(queue[s], e)
  <2>1. /\ DOMAIN queue'[s] = DOMAIN queue[s] \cup {Len(queue[s]) + 1}
        /\ queue'[s][Len(queue[s]) + 1] = e
        /\ \A i \in DOMAIN queue[s] : queue'[s][i] = queue[s][i]
    BY <1>4 DEF Typed, SinkTypeOK
  <2>2. EventsApart(s)'
    BY <1>1, <1>2, <2>1 DEF RetryInv, EventsApart
  <2>. QED  BY <1>2, <2>2 DEF RetryInv, RunGoesOn, RunsOf, FatesOf, LastPost, FateFits
<1>. QED  BY <1>3, <1>4 DEF FanOut

\* The first attempt of the next event.
LEMMA ReceiveKeepsRetries ==
  ASSUME Typed, NEW s \in Subs, RetryInv(s), Receive(s) PROVE RetryInv(s)'
<1>. DEFINE e == Head(queue[s])
<1>1. queue[s] \in Seq(Event) /\ queue[s] # << >> /\ inHand[s] = << >>
  BY HandOfATask DEF Receive, PollsOn, Typed, SinkTypeOK
<1>2. /\ e = queue[s][1] /\ 1 \in DOMAIN queue[s]
      /\ \A i \in DOMAIN Tail(queue[s]) : i + 1 \in DOMAIN queue[s] /\ i + 1 # 1 /\ i \in Nat
                                          /\ Tail(queue[s])[i] = queue[s][i + 1]
  BY <1>1
<1>3. /\ queue'[s] = Tail(queue[s])
      /\ inHand'[s] = <<[event |-> e, attempt |-> 1]>>
      /\ task'[s] = "sending"
      /\ UNCHANGED <<inbox[s], settled[s], fanned>>
  BY DEF Receive, Typed, SinkTypeOK
<1>. HIDE DEF e
<1>4. EventsApart(s)'
  <2>1. inHand'[s][1].event = e
    BY <1>3
  <2>2. \A i, j \in DOMAIN queue'[s] : queue'[s][i] = queue'[s][j] => i = j
    <3>. SUFFICES ASSUME NEW i \in DOMAIN Tail(queue[s]), NEW j \in DOMAIN Tail(queue[s]),
                         Tail(queue[s])[i] = Tail(queue[s])[j]
                  PROVE  i = j
      BY <1>3
    <3>1. i + 1 = j + 1
      BY <1>2 DEF RetryInv, EventsApart
    <3>. QED  BY <1>2, <3>1
  <2>3. \A i \in DOMAIN queue'[s] : queue'[s][i] \in FannedOut /\ queue'[s][i] # e
    BY <1>2, <1>3 DEF RetryInv, EventsApart
  <2>4. \A i \in DOMAIN settled[s] : /\ settled[s][i].event \in FannedOut
                                     /\ settled[s][i].event # e
                                     /\ \A j \in DOMAIN queue'[s] : queue'[s][j] # settled[s][i].event
    BY <1>2, <1>3 DEF RetryInv, EventsApart
  <2>5. e \in FannedOut
    BY <1>2 DEF RetryInv, EventsApart
  <2>. QED  BY <1>3, <2>1, <2>2, <2>3, <2>4, <2>5 DEF EventsApart, FannedOut
<1>5. RunGoesOn(s)'
  BY <1>3, SinkAssumption DEF RunGoesOn
<1>. QED  BY <1>3, <1>4, <1>5 DEF RetryInv, RunsOf, FatesOf, LastPost, FateFits

\* A task that ends has no run to go on with.
LEMMA EndKeepsRetries ==
  ASSUME NEW s \in Subs, RetryInv(s), task'[s] \in Ended, inHand'[s] = << >>,
         queue'[s] = << >>, UNCHANGED <<inbox[s], settled[s], fanned>>
  PROVE  RetryInv(s)'
<1>1. RunGoesOn(s)'
  BY DEF RunGoesOn, Ended
<1>2. EventsApart(s)'
  BY DEF RetryInv, EventsApart, FannedOut
<1>. QED  BY <1>1, <1>2 DEF RetryInv, RunsOf, FatesOf, LastPost, FateFits

\* with_attempt: the same event, the next attempt.
LEMMA RetryKeepsRetries ==
  ASSUME Typed, NEW s \in Subs, RetryInv(s), Retry(s) PROVE RetryInv(s)'
<1>1. inHand[s][1] \in Envelope /\ inHand[s] = <<inHand[s][1]>>
  BY HandOfATask DEF Retry
<1>. DEFINE again == [event |-> inHand[s][1].event, attempt |-> inHand[s][1].attempt + 1]
<1>2. /\ inHand'[s] = <<again>> /\ task'[s] = "sending"
      /\ UNCHANGED <<queue[s], inbox[s], settled[s], fanned>>
  <2>1. [inHand[s] EXCEPT ![1].attempt = @ + 1] = <<again>>
    BY <1>1 DEF Envelope
  <2>. QED  BY <2>1 DEF Retry, Typed, SinkTypeOK
<1>3. inHand[s][1].attempt \in Nat \ {0} /\ MaxAttempts[s] \in Nat
  BY <1>1, SinkAssumption DEF Envelope
<1>4. PreviousTry(again) = inHand[s][1]
  <2>1. again.attempt - 1 = inHand[s][1].attempt
    BY <1>3
  <2>2. inHand[s][1] = [event |-> inHand[s][1].event, attempt |-> inHand[s][1].attempt]
    BY <1>1 DEF Envelope
  <2>. QED  BY <2>1, <2>2 DEF PreviousTry
<1>5. again.attempt <= MaxAttempts[s] /\ again.event = inHand[s][1].event
  BY <1>3 DEF RetryInv, RunGoesOn, Retry
<1>. HIDE DEF again
<1>6. RunGoesOn(s)'
  <2>1. inbox[s] # << >> /\ inbox[s][Len(inbox[s])].envelope = inHand[s][1]
    BY DEF RetryInv, RunGoesOn, Retry
  <2>. QED  BY <1>2, <1>4, <1>5, <2>1 DEF RunGoesOn
<1>7. EventsApart(s)'
  BY <1>1, <1>2, <1>5 DEF RetryInv, EventsApart, FannedOut
<1>. QED  BY <1>2, <1>6, <1>7 DEF RetryInv, RunsOf, FatesOf, LastPost, FateFits

\* One more POST: what the earlier ones say stays true, and it goes on with the run
\* of the last.
LEMMA PostKeepsRuns ==
  ASSUME Typed, NEW s \in Subs, RetryInv(s), task[s] = "sending", NEW response \in Responses,
         inbox'[s] = Append(inbox[s], [envelope |-> inHand[s][1], response |-> response])
  PROVE  RunsOf(s)'
<1>. DEFINE n == Len(inbox[s])
<1>1. inbox[s] \in Seq(Post) /\ n \in Nat
  BY DEF Typed, HistoryOK
<1>2. /\ DOMAIN inbox'[s] = 1 .. n + 1
      /\ inbox'[s][n + 1].envelope = inHand[s][1]
      /\ \A i \in 1 .. n : inbox'[s][i] = inbox[s][i]
  BY <1>1
<1>3. inbox[s] # << >> => n > 0
  BY <1>1, EmptySeq
<1>4. inHand[s][1].attempt > 1 =>
        /\ n > 0
        /\ inbox[s][n].envelope = PreviousTry(inHand[s][1])
  BY <1>3 DEF RetryInv, RunGoesOn
<1>5. \A i \in 1 .. n :
        /\ inbox[s][i].envelope.attempt <= MaxAttempts[s]
        /\ inbox[s][i].envelope.attempt > 1 =>
             /\ i > 1
             /\ inbox[s][i - 1].envelope = PreviousTry(inbox[s][i].envelope)
  <2>1. DOMAIN inbox[s] = 1 .. n
    BY <1>1
  <2>2. RunsOf(s)
    BY DEF RetryInv
  <2>. HIDE DEF n
  <2>. QED  BY <2>1, <2>2 DEF RunsOf
<1>. HIDE DEF n
<1>6. ASSUME NEW i \in 1 .. n + 1
      PROVE  /\ inbox'[s][i].envelope.attempt <= MaxAttempts[s]
             /\ inbox'[s][i].envelope.attempt > 1 =>
                  /\ i > 1
                  /\ inbox'[s][i - 1].envelope = PreviousTry(inbox'[s][i].envelope)
  <2>1. CASE i \in 1 .. n
    <3>1. i > 1 => i - 1 \in 1 .. n
      BY <1>1, <2>1
    <3>2. inbox'[s][i] = inbox[s][i] /\ (i > 1 => inbox'[s][i - 1] = inbox[s][i - 1])
      BY <1>2, <2>1, <3>1
    <3>3. /\ inbox[s][i].envelope.attempt <= MaxAttempts[s]
          /\ inbox[s][i].envelope.attempt > 1 =>
               /\ i > 1
               /\ inbox[s][i - 1].envelope = PreviousTry(inbox[s][i].envelope)
      BY <1>5, <2>1
    <3>. QED  BY <3>2, <3>3
  <2>2. CASE i = n + 1
    <3>1. n > 0 => n \in 1 .. n /\ i - 1 = n /\ i > 1
      BY <1>1, <2>2
    <3>2. inHand[s][1].attempt <= MaxAttempts[s]
      BY DEF RetryInv, RunGoesOn
    <3>3. inbox'[s][i].envelope = inHand[s][1]
      BY <1>2, <2>2
    <3>4. inHand[s][1].attempt > 1 => i > 1 /\ inbox'[s][i - 1] = inbox[s][n]
      BY <1>2, <1>4, <3>1
    <3>. QED  BY <1>4, <3>2, <3>3, <3>4
  <2>3. i \in 1 .. n \/ i = n + 1
    BY <1>1
  <2>. QED  BY <2>1, <2>2, <2>3
<1>. QED  BY <1>2, <1>6 DEF RunsOf

\* The fates of the settled events are not changed by a POST of another event.
LEMMA PostKeepsFates ==
  ASSUME Typed, NEW s \in Subs, RetryInv(s), task[s] = "sending", NEW response \in Responses,
         inbox'[s] = Append(inbox[s], [envelope |-> inHand[s][1], response |-> response]),
         settled'[s] = settled[s]
  PROVE  FatesOf(s)'
<1>1. inbox[s] \in Seq(Post) /\ inHand[s] # << >>
  BY HandOfATask DEF Typed, HistoryOK
<1>2. /\ DOMAIN inbox'[s] = DOMAIN inbox[s] \cup {Len(inbox[s]) + 1}
      /\ inbox'[s][Len(inbox[s]) + 1].envelope = inHand[s][1]
      /\ \A i \in DOMAIN inbox[s] : inbox'[s][i] = inbox[s][i]
  BY <1>1
<1>3. ASSUME NEW i \in DOMAIN settled[s], NEW k \in DOMAIN inbox[s],
             LastPost(s, k, settled[s][i].event)
      PROVE  LastPost(s, k, settled[s][i].event)' /\ inbox'[s][k] = inbox[s][k]
  <2>1. inHand[s][1].event # settled[s][i].event
    BY <1>1 DEF RetryInv, EventsApart
  <2>2. inbox'[s][k].envelope.event = settled[s][i].event
    BY <1>2, <1>3 DEF LastPost
  <2>3. \A j \in DOMAIN inbox'[s] : inbox'[s][j].envelope.event = settled[s][i].event => j <= k
    BY <1>2, <1>3, <2>1 DEF LastPost
  <2>. QED  BY <1>2, <2>2, <2>3 DEF LastPost
<1>4. FatesOf(s)
  BY DEF RetryInv
<1>5. ASSUME NEW i \in DOMAIN settled[s]
      PROVE  \E k \in DOMAIN inbox'[s] :
               /\ LastPost(s, k, settled[s][i].event)'
               /\ FateFits(s, k, settled[s][i].fate)'
  <2>1. PICK k \in DOMAIN inbox[s] :
               /\ LastPost(s, k, settled[s][i].event)
               /\ FateFits(s, k, settled[s][i].fate)
    BY <1>4 DEF FatesOf
  <2>2. LastPost(s, k, settled[s][i].event)' /\ inbox'[s][k] = inbox[s][k] /\ k \in DOMAIN inbox'[s]
    BY <1>2, <1>3, <2>1
  <2>. QED  BY <2>1, <2>2 DEF FateFits
<1>. QED  BY <1>5 DEF FatesOf

\* The event that gets its fate now was the last one POSTed.
LEMMA SettleKeepsRetries ==
  ASSUME Typed, NEW s \in Subs, RetryInv(s), task[s] = "sending", NEW response \in Responses,
         inbox'[s] = Append(inbox[s], [envelope |-> inHand[s][1], response |-> response]),
         NEW fate \in {"delivered", "dead"},
         settled'[s] = Append(settled[s], [event |-> inHand[s][1].event, fate |-> fate]),
         inHand'[s] = << >>, task'[s] = "waiting", queue'[s] = queue[s], fanned' = fanned,
         \/ fate = "delivered" /\ response = "2xx"
         \/ fate = "dead" /\ response \in {"3xx", "4xx"}
         \/ fate = "dead" /\ response # "2xx" /\ inHand[s][1].attempt = MaxAttempts[s]
  PROVE  RetryInv(s)'
<1>1. /\ inbox[s] \in Seq(Post) /\ inHand[s] # << >> /\ settled[s] \in Seq(Outcome)
  BY HandOfATask DEF Typed, HistoryOK
<1>2. /\ DOMAIN inbox'[s] = DOMAIN inbox[s] \cup {Len(inbox[s]) + 1}
      /\ Len(inbox[s]) + 1 \notin DOMAIN inbox[s]
      /\ inbox'[s][Len(inbox[s]) + 1] = [envelope |-> inHand[s][1], response |-> response]
      /\ \A i \in DOMAIN inbox[s] : inbox'[s][i] = inbox[s][i] /\ i <= Len(inbox[s]) + 1
      /\ Len(inbox[s]) + 1 <= Len(inbox[s]) + 1
  BY <1>1
<1>3. /\ DOMAIN settled'[s] = DOMAIN settled[s] \cup {Len(settled[s]) + 1}
      /\ settled'[s][Len(settled[s]) + 1] = [event |-> inHand[s][1].event, fate |-> fate]
      /\ \A i \in DOMAIN settled[s] : settled'[s][i] = settled[s][i]
  BY <1>1
<1>4. EventsApart(s)'
  BY <1>1, <1>3 DEF RetryInv, EventsApart, FannedOut
<1>5. RunGoesOn(s)'
  BY DEF RunGoesOn
<1>6. RunsOf(s)'
  BY PostKeepsRuns
<1>7. ASSUME NEW i \in DOMAIN settled'[s]
      PROVE  \E k \in DOMAIN inbox'[s] :
               /\ inbox'[s][k].envelope.event = settled'[s][i].event
               /\ \A j \in DOMAIN inbox'[s] :
                    inbox'[s][j].envelope.event = settled'[s][i].event => j <= k
               /\ FateFits(s, k, settled[s][i].fate)'
  <2>1. CASE i \in DOMAIN settled[s]
    <3>1. PICK k \in DOMAIN inbox[s] :
               /\ LastPost(s, k, settled[s][i].event)
               /\ FateFits(s, k, settled[s][i].fate)
      BY <2>1 DEF RetryInv, FatesOf
    <3>2. inHand[s][1].event # settled[s][i].event
      BY <1>1, <2>1 DEF RetryInv, EventsApart
    <3>3. inbox'[s][k] = inbox[s][k] /\ settled'[s][i] = settled[s][i]
      BY <1>2, <1>3, <2>1
    <3>4. \A j \in DOMAIN inbox'[s] :
            inbox'[s][j].envelope.event = settled[s][i].event => j <= k
      BY <1>2, <3>1, <3>2 DEF LastPost
    <3>. QED  BY SMTT(40), <1>2, <3>1, <3>3, <3>4 DEF LastPost, FateFits
  <2>2. CASE i = Len(settled[s]) + 1
    <3>. PICK k : k = Len(inbox[s]) + 1
      OBVIOUS
    <3>1. /\ inbox'[s][k].envelope = inHand[s][1] /\ inbox'[s][k].response = response
          /\ settled'[s][i].event = inHand[s][1].event /\ settled'[s][i].fate = fate
      BY <1>2, <1>3, <2>2
    <3>2. k \in DOMAIN inbox'[s] /\ \A j \in DOMAIN inbox'[s] : j <= k
      BY <1>2
    <3>3. FateFits(s, k, settled[s][i].fate)'
      BY <3>1 DEF FateFits
    <3>. QED  BY <3>1, <3>2, <3>3
  <2>. QED  BY <1>3, <2>1, <2>2
<1>8. FatesOf(s)'
  BY <1>7 DEF FatesOf, LastPost, FateFits
<1>. QED  BY <1>4, <1>5, <1>6, <1>8 DEF RetryInv

\* attempt_one and what is made of the answer.
LEMMA AttemptKeepsRetries ==
  ASSUME Typed, NEW s \in Subs, RetryInv(s), NEW response \in Responses, Attempt(s, response)
  PROVE  RetryInv(s)'
<1>1. /\ task[s] = "sending"
      /\ inbox'[s] = Append(inbox[s], [envelope |-> inHand[s][1], response |-> response])
      /\ queue'[s] = queue[s] /\ fanned' = fanned
  BY DEF Attempt, Typed, HistoryOK
<1>2. /\ inHand[s][1] \in Envelope /\ inHand[s][1].attempt \in Nat /\ MaxAttempts[s] \in Nat
      /\ inHand[s][1].attempt <= MaxAttempts[s]
  BY <1>1, HandOfATask, SinkAssumption DEF Envelope, RetryInv, RunGoesOn
<1>3. response \in Response
  BY SinkAssumption
<1>4. CASE Classify(response) = "delivered" /\ Settle(s, "delivered")
  <2>1. response = "2xx"
    BY <1>3, <1>4 DEF Classify, Response
  <2>2. /\ settled'[s] = Append(settled[s], [event |-> inHand[s][1].event, fate |-> "delivered"])
        /\ inHand'[s] = << >> /\ task'[s] = "waiting"
    BY <1>4 DEF Settle, Typed, SinkTypeOK, HistoryOK
  <2>. QED  BY <1>1, <2>1, <2>2, SettleKeepsRetries
<1>5. CASE /\ \/ Classify(response) = "permanent"
              \/ Classify(response) = "retryable" /\ GivesUp(s)
           /\ DeadLetter(s)
  <2>1. \/ response \in {"3xx", "4xx"}
        \/ response # "2xx" /\ inHand[s][1].attempt = MaxAttempts[s]
    <3>1. CASE Classify(response) = "permanent"
      BY <1>3, <3>1 DEF Classify, Response
    <3>2. CASE Classify(response) = "retryable" /\ GivesUp(s)
      <4>1. response # "2xx"
        BY <3>2 DEF Classify
      <4>2. inHand[s][1].attempt = MaxAttempts[s]
        BY <1>2, <3>2 DEF GivesUp
      <4>. QED  BY <4>1, <4>2
    <3>. QED  BY <1>5, <3>1, <3>2
  <2>2. /\ settled'[s] = Append(settled[s], [event |-> inHand[s][1].event, fate |-> "dead"])
        /\ inHand'[s] = << >> /\ task'[s] = "waiting"
    BY <1>5 DEF DeadLetter, Settle, Typed, SinkTypeOK, HistoryOK
  <2>. QED  BY <1>1, <2>1, <2>2, SettleKeepsRetries
<1>6. CASE /\ Classify(response) = "retryable" /\ ~GivesUp(s)
           /\ task' = [task EXCEPT ![s] = "backoff"]
           /\ UNCHANGED <<inHand, dlq, settled>>
  <2>1. /\ inbox'[s] # << >> /\ inbox'[s][Len(inbox'[s])].envelope = inHand[s][1]
        /\ task'[s] = "backoff"
    <3>1. inbox[s] \in Seq(Post) /\ task'[s] = "backoff"
      BY <1>6 DEF Typed, SinkTypeOK, HistoryOK
    <3>2. Len(inbox'[s]) = Len(inbox[s]) + 1 /\ inbox'[s] # << >>
      BY <1>1, <3>1
    <3>. QED  BY <1>1, <3>1, <3>2
  <2>2. RunGoesOn(s)'
    <3>1. inHand[s][1].attempt < MaxAttempts[s] /\ inHand' = inHand
      BY <1>2, <1>6 DEF GivesUp
    <3>. QED  BY <2>1, <3>1 DEF RunGoesOn
  <2>3. EventsApart(s)'
    BY <1>1, <1>6 DEF RetryInv, EventsApart, FannedOut
  <2>4. settled'[s] = settled[s]
    BY <1>6
  <2>. QED  BY <1>1, <2>2, <2>3, <2>4, PostKeepsRuns, PostKeepsFates DEF RetryInv
<1>. QED  BY <1>4, <1>5, <1>6 DEF Attempt

\* Every step of every actor.
LEMMA NextKeepsRetries ==
  Typed /\ (\A s \in Subs : RetryInv(s)) /\ [SinkNext]_sinkVars => (\A s \in Subs : RetryInv(s))'
<1>. SUFFICES ASSUME Typed, \A s \in Subs : RetryInv(s), [SinkNext]_sinkVars, NEW s \in Subs
              PROVE  RetryInv(s)'
  OBVIOUS
<1>1. CASE senders /\ \E e \in Event \ FannedOut : FanOut(e)
  BY <1>1, FanOutKeepsRetries
<1>2. CASE DropSenders \/ Broadcast \/ UNCHANGED sinkVars
  BY <1>2, OthersKeepRetries DEF DropSenders, Broadcast, sinkVars, FannedOut
<1>3. ASSUME NEW r \in Subs, RunSink(r) \/ AbortSink(r) PROVE RetryInv(s)'
  <2>1. CASE r # s
    <3>1. UNCHANGED <<queue[s], inHand[s], task[s], inbox[s], settled[s], fanned>>
      BY <1>3, <2>1 DEF RunSink, Receive, InputClosed, SinkShutdown, AbortSink, Leave, Attempt,
         DeadLetter, Settle, Retry, Typed, SinkTypeOK, HistoryOK
    <3>. QED  BY <3>1, OthersKeepRetries DEF FannedOut
  <2>2. CASE r = s /\ (SinkShutdown(s) \/ AbortSink(s))
    <3>1. /\ task'[s] \in Ended /\ inHand'[s] = << >> /\ queue'[s] = << >>
          /\ UNCHANGED <<inbox[s], settled[s], fanned>>
      BY <2>2 DEF SinkShutdown, AbortSink, Leave, Ended, Typed, SinkTypeOK
    <3>. QED  BY <3>1, EndKeepsRetries
  <2>3. CASE r = s /\ InputClosed(s)
    <3>1. /\ task'[s] \in Ended /\ inHand'[s] = << >> /\ queue'[s] = << >>
          /\ UNCHANGED <<inbox[s], settled[s], fanned>>
      BY <2>3, HandOfATask DEF InputClosed, PollsOn, Ended, Typed, SinkTypeOK
    <3>. QED  BY <3>1, EndKeepsRetries
  <2>. QED  BY <1>3, <2>1, <2>2, <2>3, ReceiveKeepsRetries, AttemptKeepsRetries, RetryKeepsRetries
            DEF RunSink
<1>. QED  BY <1>1, <1>2, <1>3 DEF SinkNext

\* http.rs deliver_with_retries: for any answers and retry budgets, the POSTs of a
\* subscriber are runs of attempts, and every fate is the one the last answer and the
\* budget call for.
THEOREM FatesAreEarned == SinkSpec => []RetriesFitResponses
<1>1. SinkInit => \A s \in Subs : RetryInv(s)
  BY EmptyHand DEF SinkInit, RetryInv, EventsApart, RunGoesOn, RunsOf, FatesOf
<1>2. (\A s \in Subs : RetryInv(s)) => RetriesFitResponses
  BY DEF RetryInv, RunsOf, FatesOf, RetriesFitResponses, RetriesAreRuns,
     FateFitsResponses, PreviousTry
<1>. QED  BY <1>1, <1>2, SinksAreTyped, NextKeepsRetries, PTL DEF SinkSpec

-----------------------------------------------------------------------------
(* The sinks keep the promise of Delivery.                                 *)

\* What waits for a subscriber: the event in hand, then the queue.
Waits(hand, q) == [i \in DOMAIN hand |-> hand[i].event] \o q
WaitsFor(s) == Waits(inHand[s], queue[s])

\* A sink with an empty hand has its queue to deliver.
LEMMA WaitsWithNone == ASSUME NEW q \in Seq(Event) PROVE Waits(<< >>, q) = q
BY DEF Waits

\* A sink with an envelope in hand delivers its event first.
LEMMA WaitsWithOne ==
  ASSUME NEW q \in Seq(Event), NEW hand \in Seq(Envelope), Len(hand) = 1
  PROVE  /\ Waits(hand, q) \in Seq(Event) /\ Waits(hand, q) # << >>
         /\ Len(Waits(hand, q)) = Len(q) + 1
         /\ Head(Waits(hand, q)) = hand[1].event
         /\ Tail(Waits(hand, q)) = q
<1>. DEFINE h == hand[1].event
<1>1. h \in Event /\ [i \in DOMAIN hand |-> hand[i].event] = <<h>>
  <2>1. hand[1] \in Envelope /\ DOMAIN hand = {1}
    <3>1. DOMAIN hand = 1 .. 1 /\ 1 .. 1 = {1}
      OBVIOUS
    <3>. QED  BY <3>1, ElementOfSeq
  <2>. QED  BY <2>1 DEF Envelope
<1>2. Waits(hand, q) = <<h>> \o q
  BY <1>1 DEF Waits
<1>. HIDE DEF h
<1>3. /\ <<h>> \o q \in Seq(Event) /\ Len(<<h>> \o q) = Len(q) + 1
      /\ Head(<<h>> \o q) = h /\ <<h>> \o q # << >>
  BY <1>1
<1>4. Tail(<<h>> \o q) = q
  BY <1>1, <1>3, SeqEqual
<1>. QED  BY <1>2, <1>3, <1>4 DEF h

\* What is queued behind an envelope in hand comes last.
LEMMA WaitsBehindOne ==
  ASSUME NEW q \in Seq(Event), NEW hand \in Seq(Envelope), Len(hand) = 1, NEW e \in Event
  PROVE  Waits(hand, Append(q, e)) = Append(Waits(hand, q), e)
<1>1. PICK h \in Event : [i \in DOMAIN hand |-> hand[i].event] = <<h>>
  <2>1. hand[1] \in Envelope /\ DOMAIN hand = {1}
    <3>1. DOMAIN hand = 1 .. 1 /\ 1 .. 1 = {1}
      OBVIOUS
    <3>. QED  BY <3>1, ElementOfSeq
  <2>2. hand[1].event \in Event /\ [i \in DOMAIN hand |-> hand[i].event] = <<hand[1].event>>
    BY <2>1 DEF Envelope
  <2>. QED  BY <2>2
<1>2. <<h>> \o Append(q, e) = Append(<<h>> \o q, e)
  BY SeqEqual
<1>. QED  BY <1>1, <1>2 DEF Waits

\* The subscribers are those of Delivery.
LEMMA InitIsPromised == SinkInit => Promise!Init
<1>. SUFFICES ASSUME SinkInit PROVE Promise!Init
  OBVIOUS
<1>1. FannedOut = {} /\ Running = Subs
  BY DEF SinkInit, FannedOut, Running, Ended
<1>2. \A s \in Subs : Waits(inHand[s], queue[s]) = << >>
  <2>1. << >> \in Seq(Event)
    OBVIOUS
  <2>. QED  BY <2>1, WaitsWithNone DEF SinkInit
<1>. QED  BY <1>1, <1>2 DEF Promise!Init, Waits, SinkInit

\* fan_out accepts an event for the subscribers it matches whose queue has room.
LEMMA FanOutIsPromised ==
  ASSUME Typed, NEW e \in Event \ FannedOut, FanOut(e) PROVE Promise!Next
<1>. PICK S : S = {s \in Running : s \in Matches[e] /\ TryRoom(s)}
  OBVIOUS
<1>1. FannedOut' = FannedOut \cup {e}
  <2>1. /\ DOMAIN fanned' = DOMAIN fanned \cup {Len(fanned) + 1}
        /\ fanned'[Len(fanned) + 1] = e
        /\ \A i \in DOMAIN fanned : fanned'[i] = fanned[i]
    BY DEF FanOut, Typed, HistoryOK
  <2>. QED  BY <2>1 DEF FannedOut
<1>2. UNCHANGED <<Running, settled, inHand>>
  BY DEF FanOut, Running
<1>3. \A s \in Subs : queue'[s] = IF s \in S THEN Append(queue[s], e) ELSE queue[s]
  BY DEF FanOut, TrySend, Running
<1>4. ASSUME NEW s \in Subs
      PROVE  /\ WaitsFor(s)' = IF s \in S THEN Append(WaitsFor(s), e) ELSE WaitsFor(s)
             /\ s \in S => Len(WaitsFor(s)) <= QueueCap
  <2>1. queue[s] \in Seq(Event) /\ Append(queue[s], e) \in Seq(Event) /\ Len(queue[s]) \in Nat
    BY DEF Typed, SinkTypeOK
  <2>2. s \in S => Len(queue[s]) < QueueCap /\ QueueCap \in Nat
    BY SinkAssumption DEF TryRoom
  <2>3. CASE inHand[s] = << >>
    <3>1. inHand'[s] = << >> /\ WaitsFor(s) = queue[s]
      BY <1>2, <2>1, <2>3, WaitsWithNone DEF WaitsFor
    <3>2. WaitsFor(s)' = IF s \in S THEN Append(queue[s], e) ELSE queue[s]
      BY <1>3, <2>1, <3>1, WaitsWithNone DEF WaitsFor
    <3>. QED  BY <2>1, <2>2, <3>1, <3>2
  <2>4. CASE inHand[s] # << >>
    <3>1. inHand[s] \in Seq(Envelope) /\ Len(inHand[s]) = 1
      BY <2>4, HandOfATask DEF Typed, SinkTypeOK
    <3>2. Len(WaitsFor(s)) = Len(queue[s]) + 1
      BY <2>1, <3>1, WaitsWithOne DEF WaitsFor
    <3>3. Waits(inHand[s], Append(queue[s], e)) = Append(WaitsFor(s), e)
      BY <2>1, <3>1, WaitsBehindOne DEF WaitsFor
    <3>4. inHand'[s] = inHand[s]
      BY <1>2
    <3>5. WaitsFor(s)' = IF s \in S THEN Append(WaitsFor(s), e) ELSE WaitsFor(s)
      BY <1>3, <3>3, <3>4 DEF WaitsFor
    <3>. QED  BY <2>1, <2>2, <3>2, <3>5
  <2>. QED  BY <2>3, <2>4
<1>5. Promise!Accept(e, S)
  BY <1>1, <1>2, <1>4 DEF Promise!Accept, WaitsFor, Waits, Running
<1>6. S \in SUBSET Running
  OBVIOUS
<1>. QED  BY <1>5, <1>6 DEF Promise!Next

\* The event in hand is settled, and what waits behind it stays.
LEMMA SettleIsPromised ==
  ASSUME Typed, NEW s \in Subs, task[s] = "sending", NEW fate \in {"delivered", "dead"},
         Settle(s, fate), queue' = queue, fanned' = fanned
  PROVE  Promise!Next
<1>1. inHand[s] \in Seq(Envelope) /\ Len(inHand[s]) = 1 /\ queue[s] \in Seq(Event)
  BY DEF Typed, SinkTypeOK
<1>2. /\ WaitsFor(s) # << >> /\ Head(WaitsFor(s)) = inHand[s][1].event
      /\ Tail(WaitsFor(s)) = queue[s]
  BY <1>1, WaitsWithOne DEF WaitsFor
<1>3. /\ WaitsFor(s)' = queue[s]
      /\ \A r \in Subs \ {s} : WaitsFor(r)' = WaitsFor(r)
  BY <1>1, WaitsWithNone DEF Settle, Typed, SinkTypeOK, WaitsFor
<1>4. s \in Running /\ Running' = Running /\ FannedOut' = FannedOut
  BY DEF Settle, Running, Ended, FannedOut, Typed, SinkTypeOK
<1>5. settled' = [settled EXCEPT ![s] = Append(@, [event |-> inHand[s][1].event, fate |-> fate])]
  BY DEF Settle
<1>6. Promise!Settle(s, fate)
  BY <1>2, <1>3, <1>4, <1>5 DEF Promise!Settle, WaitsFor, Waits
<1>. QED  BY <1>6 DEF Promise!Next, Promise!Fate

\* A task that ends, with what waited for it.
LEMMA EndIsPromised ==
  ASSUME Typed, NEW s \in Running, NEW how \in Ended, task' = [task EXCEPT ![s] = how],
         \A r \in Subs \ {s} : inHand'[r] = inHand[r] /\ queue'[r] = queue[r],
         inHand'[s] = << >>, queue'[s] = << >>, UNCHANGED <<settled, fanned>>
  PROVE  Promise!Next
<1>1. s \in Subs /\ << >> \in Seq(Event)
  BY DEF Running
<1>2. Running' = Running \ {s} /\ FannedOut' = FannedOut
  BY DEF Running, FannedOut, Typed, SinkTypeOK
<1>3. WaitsFor(s)' = << >> /\ \A r \in Subs \ {s} : WaitsFor(r)' = WaitsFor(r)
  BY <1>1, WaitsWithNone DEF WaitsFor
<1>4. Promise!End(s)
  BY <1>1, <1>2, <1>3 DEF Promise!End, WaitsFor, Waits
<1>. QED  BY <1>1, <1>4 DEF Promise!Next

\* What does not settle, accept or end is not seen in Delivery.
LEMMA OthersAreQuiet ==
  ASSUME \A s \in Subs : WaitsFor(s)' = WaitsFor(s), Running' = Running,
         UNCHANGED <<fanned, settled>>
  PROVE  UNCHANGED Promise!vars
BY DEF Promise!vars, WaitsFor, Waits, FannedOut

\* The head of the queue waits in hand now.
LEMMA ReceiveIsQuiet == ASSUME Typed, NEW s \in Subs, Receive(s) PROVE UNCHANGED Promise!vars
<1>. PICK hand : hand = <<[event |-> Head(queue[s]), attempt |-> 1]>>
  OBVIOUS
<1>1. queue[s] \in Seq(Event) /\ queue[s] # << >> /\ inHand[s] = << >>
  BY HandOfATask DEF Receive, PollsOn, Typed, SinkTypeOK
<1>2. /\ Head(queue[s]) \in Event /\ Tail(queue[s]) \in Seq(Event)
      /\ queue[s] = <<Head(queue[s])>> \o Tail(queue[s])
  BY <1>1, SeqEqual
<1>3. [i \in DOMAIN hand |-> hand[i].event] = <<Head(queue[s])>>
  OBVIOUS
<1>4. Waits(hand, Tail(queue[s])) = queue[s]
  BY <1>2, <1>3 DEF Waits
<1>5. WaitsFor(s) = queue[s]
  BY <1>1, WaitsWithNone DEF WaitsFor
<1>6. inHand'[s] = hand /\ queue'[s] = Tail(queue[s])
  BY DEF Receive, Typed, SinkTypeOK
<1>7. WaitsFor(s)' = WaitsFor(s)
  BY <1>4, <1>5, <1>6 DEF WaitsFor
<1>8. \A r \in Subs \ {s} : WaitsFor(r)' = WaitsFor(r)
  BY DEF Receive, Typed, SinkTypeOK, WaitsFor
<1>9. Running' = Running
  BY DEF Receive, PollsOn, Running, Ended, Typed, SinkTypeOK
<1>. QED  BY <1>7, <1>8, <1>9, OthersAreQuiet DEF Receive

\* A retry is of the same event.
LEMMA RetryIsQuiet == ASSUME Typed, NEW s \in Subs, Retry(s) PROVE UNCHANGED Promise!vars
<1>1. inHand[s][1] \in Envelope /\ inHand[s] = <<inHand[s][1]>>
  BY HandOfATask DEF Retry
<1>. PICK again : again = [event |-> inHand[s][1].event, attempt |-> inHand[s][1].attempt + 1]
  OBVIOUS
<1>2. inHand'[s] = <<again>> /\ \A r \in Subs \ {s} : inHand'[r] = inHand[r]
  <2>1. [inHand[s] EXCEPT ![1].attempt = @ + 1] = <<again>>
    BY <1>1 DEF Envelope
  <2>. QED  BY <2>1 DEF Retry, Typed, SinkTypeOK
<1>3. \A e1, e2 : e1.event = e2.event => Waits(<<e1>>, queue[s]) = Waits(<<e2>>, queue[s])
  <2>. TAKE e1, e2
  <2>1. [i \in DOMAIN <<e1>> |-> <<e1>>[i].event] = <<e1.event>>
    OBVIOUS
  <2>2. [i \in DOMAIN <<e2>> |-> <<e2>>[i].event] = <<e2.event>>
    OBVIOUS
  <2>. QED  BY <2>1, <2>2 DEF Waits
<1>4. again.event = inHand[s][1].event
  OBVIOUS
<1>5. \A r \in Subs : WaitsFor(r)' = WaitsFor(r)
  BY <1>1, <1>2, <1>3, <1>4 DEF Retry, WaitsFor
<1>6. Running' = Running
  BY DEF Retry, Running, Ended, Typed, SinkTypeOK
<1>. QED  BY <1>5, <1>6, OthersAreQuiet DEF Retry

\* Every step is one of Delivery, or none.
LEMMA NextIsPromised == Typed /\ [SinkNext]_sinkVars => [Promise!Next]_(Promise!vars)
<1>. SUFFICES ASSUME Typed, [SinkNext]_sinkVars PROVE [Promise!Next]_(Promise!vars)
  OBVIOUS
<1>1. CASE senders /\ \E e \in Event \ FannedOut : FanOut(e)
  BY <1>1, FanOutIsPromised
<1>2. CASE DropSenders \/ Broadcast \/ UNCHANGED sinkVars
  <2>1. UNCHANGED <<inHand, queue, task, fanned, settled>>
    BY <1>2 DEF DropSenders, Broadcast, sinkVars
  <2>. QED  BY <2>1, OthersAreQuiet DEF WaitsFor, Running
<1>3. ASSUME NEW s \in Subs, RunSink(s) \/ AbortSink(s) PROVE [Promise!Next]_(Promise!vars)
  <2>1. CASE SinkShutdown(s) \/ AbortSink(s)
    <3>1. \E how \in Ended : Leave(s, how) /\ s \in Running
      BY <2>1 DEF SinkShutdown, AbortSink, Running, Ended
    <3>. QED  BY <3>1, EndIsPromised DEF Leave, Typed, SinkTypeOK
  <2>2. CASE InputClosed(s)
    <3>1. /\ s \in Running /\ task' = [task EXCEPT ![s] = "done"]
          /\ inHand'[s] = << >> /\ queue'[s] = << >>
          /\ UNCHANGED <<inHand, queue, settled, fanned>>
      BY <2>2, HandOfATask DEF InputClosed, PollsOn, Running, Ended
    <3>. QED  BY <3>1, EndIsPromised DEF Ended
  <2>3. ASSUME NEW response \in Responses, Attempt(s, response)
        PROVE  [Promise!Next]_(Promise!vars)
    <3>1. task[s] = "sending" /\ queue' = queue /\ fanned' = fanned
      BY <2>3 DEF Attempt
    <3>2. CASE \E fate \in {"delivered", "dead"} : Settle(s, fate)
      BY <3>1, <3>2, SettleIsPromised
    <3>3. CASE task' = [task EXCEPT ![s] = "backoff"] /\ UNCHANGED <<inHand, settled>>
      <4>1. Running' = Running
        BY <3>1, <3>3 DEF Running, Ended, Typed, SinkTypeOK
      <4>. QED  BY <3>1, <3>3, <4>1, OthersAreQuiet DEF WaitsFor
    <3>. QED  BY <2>3, <3>2, <3>3 DEF Attempt, DeadLetter
  <2>. QED  BY <1>3, <2>1, <2>2, <2>3, ReceiveIsQuiet, RetryIsQuiet DEF RunSink
<1>. QED  BY <1>1, <1>2, <1>3 DEF SinkNext

\* fan_out, run_sink and deliver_with_retries, for any subscribers and capacities: each
\* event is offered once, settled in order and at most once, and dropped by the end only.
THEOREM PromiseIsKept == SinkSpec => KeepsPromise
BY InitIsPromised, SinksAreTyped, NextIsPromised, PTL DEF SinkSpec, KeepsPromise, Promise!Spec


-----------------------------------------------------------------------------
(* The supervisor alone changes its own state.                             *)

\* The steps of the sources, of the parser and of the sinks.
TaskStep == \/ \E src \in Sources : SourceStep(src) \/ ReadFails(src)
            \/ ParserStep
            \/ \E s \in Subs : SinkStep(s)

\* No task touches what the supervisor knows of it (pipeline.rs:162-295).
LEMMA TasksLeaveTheRun == TaskStep => UNCHANGED <<runVars, stop>>
<1>1. ASSUME NEW src \in Sources, SourceStep(src) \/ ReadFails(src)
      PROVE  UNCHANGED <<runVars, stop>>
  BY <1>1 DEF SourceStep, ReadLine, SendLine, SendFails, Eof, SourceStop, SourceEnds, AbortSource,
     ReadFails, SourceGoes
<1>2. CASE ParserStep
  BY <1>2 DEF ParserStep, TakeLine, ProcessOne, ParserHearsStop, ParserSeesEnd, ParserDropsSenders,
     ParserFinishes, AbortParser, ParserGoes
<1>3. ASSUME NEW s \in Subs, SinkStep(s) PROVE UNCHANGED <<runVars, stop>>
  BY <1>3 DEF SinkStep, taskVars
<1>. QED  BY <1>1, <1>2, <1>3 DEF TaskStep

-----------------------------------------------------------------------------
(* What the supervisor knows of the run.                                   *)

Before == {"spawnSinks", "spawnSources", "spawnParser", "supervise"}
After  == {"drainSources", "drainParser", "drainSinks", "stopped"}

\* The result is decided when the loop is left, and only then; tasks are aborted
\* only in a run that has failed; readiness is off from the teardown on.
RunInv ==
  /\ phase \in Before \cup {"stopping"} \cup After
  /\ outcome \in {"none", "ok", "err"}
  /\ phase \in Before <=> outcome = "none"
  /\ cancelled # {} => outcome = "err"
  /\ ready <=> phase \in {"spawnParser", "supervise", "stopping"}

\* The supervisor's own steps and the broadcast.
LEMMA SupervisorKeepsRunInv ==
  ASSUME RunInv, Supervisor \/ Shutdown
  PROVE  RunInv'
<1>1. CASE SpawnSinks \/ SpawnSources \/ SpawnParser \/ BeginTeardown \/ DrainParser \/ DrainSinks
  BY <1>1 DEF SpawnSinks, SpawnSources, SpawnParser, BeginTeardown, DrainParser, DrainSinks, RunInv,
     Before, After
<1>2. CASE HearStop \/ JoinParser
  BY <1>2 DEF HearStop, JoinParser, Joins, Breaks, RunInv, Before, After
<1>3. ASSUME NEW src \in Sources, JoinSource(src) PROVE RunInv'
  BY <1>3 DEF JoinSource, Joins, Breaks, RunInv, Before, After
<1>4. ASSUME NEW s \in Subs, JoinSink(s) PROVE RunInv'
  BY <1>4 DEF JoinSink, Joins, Breaks, RunInv, Before, After
<1>5. CASE DrainSources
  BY <1>5 DEF DrainSources, Worst, RunInv, Before, After
<1>6. CASE DrainSourcesTimeout \/ DrainParserTimeout \/ DrainSinksTimeout
  BY <1>6 DEF DrainSourcesTimeout, DrainParserTimeout, DrainSinksTimeout, TimesOut, RunInv, Before,
     After
<1>7. CASE Shutdown
  BY <1>7 DEF Shutdown, runVars, RunInv, Before, After
<1>. QED  BY <1>1, <1>2, <1>3, <1>4, <1>5, <1>6, <1>7 DEF Supervisor

\* The supervisor's record of the run is consistent in every state.
LEMMA RunInvHolds == Spec => []RunInv
<1>1. Init => RunInv
  BY DEF Init, RunInv, Before, After
<1>2. RunInv /\ [Next]_vars => RunInv'
  <2> SUFFICES ASSUME RunInv, [Next]_vars PROVE RunInv'
    OBVIOUS
  <2>1. CASE TaskStep \/ UNCHANGED vars
    <3>1. UNCHANGED runVars
      BY <2>1, TasksLeaveTheRun DEF vars
    <3>. QED  BY <3>1 DEF runVars, RunInv, Before, After
  <2>2. CASE Supervisor \/ Shutdown
    BY <2>2, SupervisorKeepsRunInv
  <2>. QED  BY <2>1, <2>2 DEF Next, TaskStep
<1>. QED  BY <1>1, <1>2, PTL DEF Spec

-----------------------------------------------------------------------------
(* Refinement.                                                             *)

\* Each step of the supervisor is one step of the task, or none that its parent
\* could see.
LEMMA SupervisorIsATask ==
  ASSUME RunInv, Supervisor
  PROVE  Task!TaskStep \/ UNCHANGED <<stop, Stage, ready, outcome>>
<1>1. CASE SpawnSinks \/ SpawnParser
  BY <1>1 DEF SpawnSinks, SpawnParser, taskVars, Stage
<1>2. CASE SpawnSources
  BY <1>2 DEF SpawnSources, taskVars, Stage, Task!TaskStep, Task!GetReady
<1>3. CASE HearStop \/ JoinParser
  BY <1>3 DEF HearStop, JoinParser, Joins, Breaks, taskVars, Stage, RunInv, Before, After,
     Task!TaskStep, Task!Decide
<1>4. ASSUME NEW src \in Sources, JoinSource(src)
      PROVE  Task!TaskStep \/ UNCHANGED <<stop, Stage, ready, outcome>>
  BY <1>4 DEF JoinSource, Joins, Breaks, Stage, RunInv, Before, After, Task!TaskStep, Task!Decide
<1>5. ASSUME NEW s \in Subs, JoinSink(s)
      PROVE  Task!TaskStep \/ UNCHANGED <<stop, Stage, ready, outcome>>
  BY <1>5 DEF JoinSink, Joins, Breaks, Stage, RunInv, Before, After, Task!TaskStep, Task!Decide
<1>6. CASE BeginTeardown
  BY <1>6 DEF BeginTeardown, taskVars, Stage, RunInv, Before, After, Task!TaskStep, Task!Close
<1>7. CASE DrainSources
  BY <1>7 DEF DrainSources, Worst, taskVars, Stage, Task!TaskStep, Task!Worsen
<1>8. CASE DrainSourcesTimeout \/ DrainParserTimeout \/ DrainSinksTimeout
  BY <1>8 DEF DrainSourcesTimeout, DrainParserTimeout, DrainSinksTimeout, TimesOut, taskVars, Stage,
     Task!TaskStep, Task!Worsen
<1>9. CASE DrainParser
  BY <1>9 DEF DrainParser, taskVars, Stage
<1>10. CASE DrainSinks
  BY <1>10 DEF DrainSinks, taskVars, Stage, Task!TaskStep, Task!End
<1>. QED  BY <1>1, <1>2, <1>3, <1>4, <1>5, <1>6, <1>7, <1>8, <1>9, <1>10 DEF Supervisor

\* pipeline.rs run is the task that lib.rs supervises, whatever its sources, its
\* parser and its sinks do (pipeline.rs:120-122, 168-222 and 235-295).
THEOREM PipelineIsATask == Spec => ImplementsTask
<1>1. Init => Task!TaskInit
  BY DEF Init, Task!TaskInit, Stage
<1>2. RunInv /\ [Next]_vars => [Task!Tell \/ Task!TaskStep]_(Task!taskVars)
  <2> SUFFICES ASSUME RunInv, [Next]_vars
               PROVE  [Task!Tell \/ Task!TaskStep]_(Task!taskVars)
    OBVIOUS
  <2>1. CASE TaskStep \/ UNCHANGED vars
    <3>1. UNCHANGED <<runVars, stop>>
      BY <2>1, TasksLeaveTheRun DEF vars, taskVars
    <3>. QED  BY <3>1 DEF runVars, Stage, Task!taskVars
  <2>2. CASE Supervisor
    BY <2>2, SupervisorIsATask DEF Task!taskVars
  <2>3. CASE Shutdown
    BY <2>3 DEF Shutdown, runVars, Stage, Task!Tell
  <2>. QED  BY <2>1, <2>2, <2>3 DEF Next, TaskStep
<1>. QED  BY <1>1, <1>2, RunInvHolds, PTL DEF Spec, ImplementsTask, Task!TaskSpec

\* After a clean end of the sources nothing cuts the deliveries off, however long
\* they take (pipeline.rs:269-277).
THEOREM DrainIsPatient == Spec => PatientDrain
<1> DEFINE Patient == phase = "drainSinks" /\ exhausted /\ outcome = "ok" =>
                        cancelled' = {} /\ outcome' = "ok"
<1>1. RunInv /\ [Next]_vars => [Patient]_vars
  <2> SUFFICES ASSUME RunInv, [Next]_vars,
                      phase = "drainSinks" /\ exhausted /\ outcome = "ok"
               PROVE  cancelled' = {} /\ outcome' = "ok"
    OBVIOUS
  <2>1. cancelled = {}
    BY DEF RunInv
  <2>2. CASE TaskStep \/ UNCHANGED vars \/ Shutdown
    <3>1. UNCHANGED runVars
      BY <2>2, TasksLeaveTheRun DEF vars, Shutdown
    <3>. QED  BY <2>1, <3>1 DEF runVars
  <2>3. CASE Supervisor
    BY <2>1, <2>3 DEF Supervisor, SpawnSinks, SpawnSources, SpawnParser, HearStop, JoinSource, JoinSink,
       JoinParser, Joins, BeginTeardown, DrainSources, DrainSourcesTimeout, DrainParser,
       DrainParserTimeout, DrainSinks, DrainSinksTimeout, Untimed
  <2>. QED  BY <2>2, <2>3 DEF Next, TaskStep
<1>. QED  BY <1>1, RunInvHolds, PTL DEF Spec, PatientDrain

-----------------------------------------------------------------------------
(* The end of the run.                                                     *)

SourceRecord(src) == "state" \in DOMAIN source[src]

\* A task that has been drained has ended, and a failed source that was joined has
\* made the run fail.
EndInv ==
  /\ DOMAIN source = Sources /\ \A src \in Sources : SourceRecord(src)
  /\ \A src \in Sources \cap joined :
       /\ source[src].state \in SourceEnded
       /\ source[src].state = "failed" => outcome = "err"
  /\ phase \in {"drainParser", "drainSinks", "stopped"} => Sources \subseteq joined
  /\ phase \in {"drainSinks", "stopped"} => parser.state \in ParserEnded
  /\ phase = "stopped" => Running = {}

\* A source that has ended stays what it is, as does every source but the one that
\* moves.
LEMMA SourcesEndOnce ==
  ASSUME DOMAIN source = Sources, \A src \in Sources : SourceRecord(src),
         NEW src \in Sources, SourceStep(src) \/ ReadFails(src)
  PROVE  /\ source[src].state \notin SourceEnded
         /\ DOMAIN source' = Sources /\ \A other \in Sources : SourceRecord(other)'
         /\ \A other \in Sources \ {src} : source'[other] = source[other]
         /\ UNCHANGED <<sinkVars, parser, runVars>>
<1> DEFINE Moves(new) == source' = [source EXCEPT ![src] = new]
<1>1. source[src].state \notin SourceEnded
  BY DEF SourceStep, ReadFails, ReadLine, SendLine, SendFails, Eof, SourceStop, SourceEnds,
     AbortSource, Reads, SourceEnded
<1>2. \E new : Moves(new) /\ "state" \in DOMAIN new
  <2>1. ASSUME NEW s, SourceGoes(src, s)
        PROVE  Moves([source[src] EXCEPT !.state = s])
    BY <2>1 DEF SourceGoes
  <2>2. \A s : "state" \in DOMAIN [source[src] EXCEPT !.state = s]
    BY DEF SourceRecord
  <2>3. CASE ReadLine(src)
    <3> DEFINE new == [state |-> "sending", left |-> Tail(source[src].left),
                       hand |-> <<Head(source[src].left)>>]
    <3>1. Moves(new)
      BY <2>3 DEF ReadLine
    <3>2. "state" \in DOMAIN new
      OBVIOUS
    <3>. QED  BY <3>1, <3>2
  <2>4. CASE SendLine(src)
    <3>1. Moves([source[src] EXCEPT !.state = "reading", !.hand = << >>])
      BY <2>4 DEF SendLine
    <3>2. "state" \in DOMAIN [source[src] EXCEPT !.state = "reading", !.hand = << >>]
      BY DEF SourceRecord
    <3>. QED  BY <3>1, <3>2
  <2>5. CASE SendFails(src) \/ Eof(src) \/ SourceStop(src)
    BY <2>1, <2>2, <2>5 DEF SendFails, Eof, SourceStop
  <2>6. CASE SourceEnds(src)
    BY <2>1, <2>2, <2>6 DEF SourceEnds
  <2>7. CASE AbortSource(src) \/ ReadFails(src)
    BY <2>1, <2>2, <2>7 DEF AbortSource, ReadFails
  <2>. QED  BY <2>3, <2>4, <2>5, <2>6, <2>7 DEF SourceStep
<1>3. UNCHANGED <<sinkVars, parser, runVars>>
  BY DEF SourceStep, ReadFails, ReadLine, SendLine, SendFails, Eof, SourceStop, SourceEnds,
     AbortSource, SourceGoes
<1>4. PICK new : Moves(new) /\ "state" \in DOMAIN new
  BY <1>2
<1>5. ASSUME NEW other \in Sources PROVE SourceRecord(other)'
  BY <1>4 DEF SourceRecord
<1>. QED  BY <1>1, <1>3, <1>4, <1>5

\* A sink that has ended takes no step.
LEMMA SinksEndOnce ==
  ASSUME NEW s \in Subs, SinkStep(s)
  PROVE  s \in Running /\ UNCHANGED <<taskVars, runVars>>
BY DEF SinkStep, RunSink, Receive, InputClosed, PollsOn, SinkShutdown, Attempt, Retry, AbortSink,
   Running, Ended

\* The parser's steps: none after its end, and none that a sink's task could see.
LEMMA ParserEndsOnce ==
  ASSUME ParserStep
  PROVE  parser.state \notin ParserEnded /\ UNCHANGED <<task, source, runVars>>
BY DEF ParserStep, TakeLine, ProcessOne, ParserHearsStop, ParserSeesEnd, ParserDropsSenders,
   ParserFinishes, AbortParser, ParserGoes, Polls, FanOut, DropSenders, ParserEnded, sinkVars

\* Each join of the supervisor, and each drain.
LEMMA SupervisorKeepsEndInv ==
  ASSUME RunInv, EndInv, Supervisor
  PROVE  EndInv'
<1>1. CASE SpawnSinks \/ SpawnSources \/ SpawnParser \/ HearStop \/ JoinParser
  BY <1>1 DEF SpawnSinks, SpawnSources, SpawnParser, HearStop, JoinParser, Joins, Breaks, taskVars,
     sinkVars, RunInv, Before, After, EndInv, SourceRecord, Running
<1>2. CASE BeginTeardown
  BY <1>2 DEF BeginTeardown, taskVars, sinkVars, EndInv, SourceRecord, Running
<1>3. ASSUME NEW src \in Sources, JoinSource(src) PROVE EndInv'
  BY <1>3 DEF JoinSource, Joins, Breaks, sinkVars, RunInv, Before, After, EndInv, SourceRecord,
     Running
<1>4. ASSUME NEW s \in Subs, JoinSink(s) PROVE EndInv'
  BY <1>4, PipelineAssumption DEF JoinSink, Joins, Breaks, sinkVars, RunInv, Before, After, EndInv,
     SourceRecord, Running
<1>5. CASE DrainSources
  BY <1>5 DEF DrainSources, Worst, taskVars, sinkVars, EndInv, SourceRecord, Running
<1>6. CASE DrainSourcesTimeout \/ DrainParserTimeout \/ DrainSinksTimeout
  BY <1>6 DEF DrainSourcesTimeout, DrainParserTimeout, DrainSinksTimeout, TimesOut, taskVars,
     sinkVars, EndInv, SourceRecord, Running
<1>7. CASE DrainParser
  BY <1>7 DEF DrainParser, taskVars, sinkVars, EndInv, SourceRecord, Running
<1>8. CASE DrainSinks
  BY <1>8, PipelineAssumption DEF DrainSinks, taskVars, sinkVars, EndInv, SourceRecord, Running
<1>. QED  BY <1>1, <1>2, <1>3, <1>4, <1>5, <1>6, <1>7, <1>8 DEF Supervisor

\* Joined and drained tasks have ended in every state of the run.
LEMMA EndInvHolds == Spec => []EndInv
<1>1. ASSUME Init PROVE EndInv
  <2>1. ASSUME NEW src \in Sources PROVE SourceRecord(src)
    <3>1. source[src] = [state |-> "reading", left |-> Lines[src], hand |-> << >>]
      BY <1>1 DEF Init
    <3>. QED  BY <3>1 DEF SourceRecord
  <2>. QED  BY <1>1, <2>1 DEF Init, EndInv
<1>2. RunInv /\ EndInv /\ [Next]_vars => EndInv'
  <2> SUFFICES ASSUME RunInv, EndInv, [Next]_vars PROVE EndInv'
    OBVIOUS
  <2>1. ASSUME NEW src \in Sources, SourceStep(src) \/ ReadFails(src) PROVE EndInv'
    <3>1. /\ source[src].state \notin SourceEnded
          /\ DOMAIN source' = Sources /\ \A other \in Sources : SourceRecord(other)'
          /\ \A other \in Sources \ {src} : source'[other] = source[other]
          /\ UNCHANGED <<sinkVars, parser, runVars>>
      BY <2>1, SourcesEndOnce DEF EndInv
    <3>2. src \notin joined
      BY <3>1 DEF EndInv
    <3>. QED  BY <3>1, <3>2 DEF EndInv, runVars, sinkVars, Running
  <2>2. CASE ParserStep
    BY <2>2, ParserEndsOnce DEF EndInv, runVars, SourceRecord, Running
  <2>3. ASSUME NEW s \in Subs, SinkStep(s) PROVE EndInv'
    BY <2>3, SinksEndOnce DEF EndInv, taskVars, runVars, SourceRecord
  <2>4. CASE Supervisor
    BY <2>4, SupervisorKeepsEndInv
  <2>5. CASE Shutdown
    BY <2>5 DEF Shutdown, Broadcast, sinkVars, runVars, EndInv, SourceRecord, Running
  <2>6. CASE UNCHANGED vars
    BY <2>6 DEF vars, sinkVars, taskVars, runVars, EndInv, SourceRecord, Running
  <2>. QED  BY <2>1, <2>2, <2>3, <2>4, <2>5, <2>6 DEF Next
<1>. QED  BY <1>1, <1>2, RunInvHolds, PTL DEF Spec

\* When run returns, every task it spawned has ended and readiness is off, and a failed
\* source has made it an error.
LEMMA RunEndsClean == RunInv /\ EndInv => NothingLeftRunning /\ FailureIsReported
BY DEF RunInv, EndInv, Before, After, NothingLeftRunning, FailureIsReported

-----------------------------------------------------------------------------
(* A run that ends well has drained everything.                            *)

\* Nobody hears a broadcast that was not sent.
HearInv ==
  ~stop => /\ \A r \in Receivers : hears[r] = "no"
           /\ \A s \in Subs : heard[s] = "no"

\* Tasks are aborted only in a run that has failed.
AbortInv ==
  /\ \A src \in Sources : source[src].state = "aborted" => outcome = "err"
  /\ parser.state = "aborted" => outcome = "err"
  /\ \A s \in Subs : task[s] = "aborted" => outcome = "err"

\* Without a shutdown, a source that ends well has sent all its lines, unless the
\* parser was gone before.
SourceInv ==
  \A src \in Sources :
    /\ source[src].state = "reading" => source[src].hand = << >>
    /\ source[src].state = "sending" => Len(source[src].hand) = 1
    /\ source[src].state \in {"closing", "ended"} =>
         \/ source[src].left = << >> /\ source[src].hand = << >>
         \/ stop
         \/ parser.state \in ParserEnded /\ parser.exit # "SourcesClosed"

\* Why the parser leaves its loop is true: the broadcast was sent, or the channel is
\* closed and empty, and it stays so.
ParserInv ==
  /\ parser.state = "idle" => parser.hand = << >> /\ parser.exit = "none"
  /\ parser.state = "busy" => Len(parser.hand) = 1 /\ parser.exit = "none"
  /\ parser.state \in {"leaving", "dropped", "finished"} =>
       parser.hand = << >> /\ parser.exit # "none"
  /\ parser.state # "idle" => ParserUp
  /\ parser.exit = "Shutdown" => stop
  /\ parser.exit = "SourcesClosed" => RawClosed /\ raw = << >>

\* Where the lines of source src may be.
Somewhere(src) ==
  Range(fanned) \cup Range(parser.hand) \cup Range(raw)
    \cup Range(source[src].hand) \cup Range(source[src].left)

\* No event goes missing while there is a parser, and none comes from nowhere.
LinesInv ==
  /\ Range(fanned) \subseteq Line
  /\ parser.state # "aborted" =>
       \A src \in Sources : Range(Lines[src]) \cap Event \subseteq Somewhere(src)

\* A sink that has ended holds nothing, and drops nothing in a run that goes well.
SinkInv ==
  \A s \in Subs :
    /\ task[s] \in Ended => queue[s] = << >> /\ inHand[s] = << >>
    /\ discarded[s] = 0 \/ stop \/ outcome = "err"

\* A run that goes well without a shutdown has seen the end of its sources.
OkInv ==
  outcome = "ok" /\ ~stop => parser.exit = "SourcesClosed" /\ parser.state \in ParserEnded

DrainInv ==
  /\ TypeOK /\ HistoryOK
  /\ HearInv /\ AbortInv
  /\ SourceInv /\ ParserInv
  /\ LinesInv /\ SinkInv /\ OkInv

-----------------------------------------------------------------------------
(* What is in a sequence.                                                  *)

\* Appending adds the one element.
LEMMA RangeOfAppend ==
  ASSUME NEW S, NEW s \in Seq(S), NEW x \in S PROVE Range(Append(s, x)) = Range(s) \cup {x}
<1>1. /\ DOMAIN Append(s, x) = DOMAIN s \cup {Len(s) + 1}
      /\ Append(s, x)[Len(s) + 1] = x
      /\ \A i \in DOMAIN s : Append(s, x)[i] = s[i]
  OBVIOUS
<1>. QED  BY <1>1 DEF Range

\* A hand with one line, and an empty one.
LEMMA RangeOfOne == ASSUME NEW x PROVE Range(<<x>>) = {x} /\ Range(<< >>) = {}
BY DEF Range

\* What is taken from the head is what the rest lacks.
LEMMA RangeOfTail ==
  ASSUME NEW S, NEW s \in Seq(S), s # << >>
  PROVE  Range(s) = {Head(s)} \cup Range(Tail(s))
<1>1. /\ 1 \in DOMAIN s /\ Head(s) = s[1]
      /\ \A i \in DOMAIN Tail(s) : i + 1 \in DOMAIN s /\ Tail(s)[i] = s[i + 1]
  OBVIOUS
<1>2. \A i \in DOMAIN s : i # 1 => i - 1 \in DOMAIN Tail(s) /\ Tail(s)[i - 1] = s[i]
  OBVIOUS
<1>3. Range(s) \subseteq {Head(s)} \cup Range(Tail(s))
  BY <1>1, <1>2 DEF Range
<1>4. {Head(s)} \cup Range(Tail(s)) \subseteq Range(s)
  BY <1>1 DEF Range
<1>. QED  BY <1>3, <1>4

\* Joining two sequences joins what is in them.
LEMMA RangeOfJoin ==
  ASSUME NEW S, NEW s \in Seq(S), NEW t \in Seq(S)
  PROVE  Range(s \o t) = Range(s) \cup Range(t)
<1>1. /\ \A i \in DOMAIN s : i \in DOMAIN (s \o t) /\ (s \o t)[i] = s[i]
      /\ \A i \in DOMAIN t : i + Len(s) \in DOMAIN (s \o t) /\ (s \o t)[i + Len(s)] = t[i]
      /\ \A i \in DOMAIN (s \o t) :
           \/ i \in DOMAIN s /\ (s \o t)[i] = s[i]
           \/ i - Len(s) \in DOMAIN t /\ (s \o t)[i] = t[i - Len(s)]
  OBVIOUS
<1>2. Range(s \o t) \subseteq Range(s) \cup Range(t)
  BY <1>1 DEF Range
<1>3. Range(s) \subseteq Range(s \o t)
  BY <1>1 DEF Range
<1>4. ASSUME NEW x \in Range(t) PROVE x \in Range(s \o t)
  <2>1. PICK i \in DOMAIN t : t[i] = x
    BY DEF Range
  <2>2. i + Len(s) \in DOMAIN (s \o t) /\ (s \o t)[i + Len(s)] = x
    BY <1>1, <2>1
  <2>. QED  BY <2>2 DEF Range
<1>. QED  BY <1>2, <1>3, <1>4

\* A sequence over a set holds elements of the set.
LEMMA RangeInSet == ASSUME NEW S, NEW s \in Seq(S) PROVE Range(s) \subseteq S
BY DEF Range

-----------------------------------------------------------------------------
(* Every step of a source keeps DrainInv.                                  *)

\* An error is the last word, and cancelled tasks mean an error.
LEMMA ErrorsStay == RunInv /\ [Next]_vars => (outcome = "err" => outcome' = "err")
<1>. SUFFICES ASSUME RunInv, [Next]_vars, outcome = "err" PROVE outcome' = "err"
  OBVIOUS
<1>1. CASE TaskStep \/ UNCHANGED vars \/ Shutdown
  BY <1>1, TasksLeaveTheRun DEF vars, Shutdown, runVars
<1>2. CASE Supervisor
  BY <1>2 DEF Supervisor, SpawnSinks, SpawnSources, SpawnParser, HearStop, JoinSource, JoinSink,
     JoinParser, Joins, BeginTeardown, DrainSources, Worst, DrainSourcesTimeout, DrainParser,
     DrainParserTimeout, DrainSinks, DrainSinksTimeout, TimesOut, RunInv, Before, After
<1>. QED  BY <1>1, <1>2 DEF Next, TaskStep

SourceRec ==
  [state : {"reading", "sending", "closing", "failing"} \cup SourceEnded,
   left : Seq(Line), hand : Seq(Line)]

\* A source's task moves alone; what it has is in its new record or in the channel.
LEMMA SourceMoveKeepsDrain ==
  ASSUME DrainInv, NEW src \in Sources, NEW new \in SourceRec,
         source' = [source EXCEPT ![src] = new],
         UNCHANGED <<sinkVars, stop, parser, runVars>>,
         hears' \in [Receivers -> Hearing], \A r \in Receivers : hears[r] = "no" => hears'[r] = "no",
         raw' \in Seq(Line), Len(raw') <= RawCap,
         source[src].state \notin {"reading", "sending"} => new.state \notin {"reading", "sending"},
         source[src].state \notin {"reading", "sending"} => raw' = raw,
         parser.exit = "SourcesClosed" => raw' = << >>,
         Range(raw) \cup Range(source[src].hand) \cup Range(source[src].left)
           \subseteq Range(raw') \cup Range(new.hand) \cup Range(new.left),
         Range(raw) \subseteq Range(raw'),
         new.state = "aborted" => outcome = "err",
         new.state = "reading" => new.hand = << >>,
         new.state = "sending" => Len(new.hand) = 1,
         new.state \in {"closing", "ended"} =>
           \/ new.left = << >> /\ new.hand = << >>
           \/ stop
           \/ parser.state \in ParserEnded /\ parser.exit # "SourcesClosed"
  PROVE  DrainInv'
<1>1. source \in [Sources -> SourceRec]
  BY DEF DrainInv, TypeOK, SourceRec
<1>2. /\ source' \in [Sources -> SourceRec] /\ source'[src] = new
      /\ \A other \in Sources \ {src} : source'[other] = source[other]
  BY <1>1
<1>3. TypeOK' /\ HistoryOK'
  BY <1>2 DEF DrainInv, TypeOK, SinkTypeOK, HistoryOK, sinkVars, runVars, SourceRec
<1>4. HearInv' /\ AbortInv'
  BY <1>2 DEF DrainInv, HearInv, AbortInv, sinkVars, runVars
<1>5. SourceInv'
  BY <1>2 DEF DrainInv, SourceInv
<1>6. ParserInv'
  BY <1>1, <1>2 DEF DrainInv, ParserInv, ParserUp, RawClosed, SourcesUp, SourceEnded, SourceRec, runVars
<1>7. LinesInv'
  BY <1>2 DEF DrainInv, LinesInv, Somewhere, sinkVars
<1>8. SinkInv' /\ OkInv'
  BY DEF DrainInv, SinkInv, OkInv, sinkVars, runVars
<1>. QED  BY <1>3, <1>4, <1>5, <1>6, <1>7, <1>8 DEF DrainInv

\* A step in which only the state of a source changes, for one in which it sends no
\* more.
LEMMA SourceClosesKeepsDrain ==
  ASSUME DrainInv, NEW src \in Sources,
         NEW s \in {"closing", "failing", "ended", "failed", "aborted"}, SourceGoes(src, s),
         hears' \in [Receivers -> Hearing], \A r \in Receivers : hears[r] = "no" => hears'[r] = "no",
         s = "aborted" => outcome = "err",
         s \in {"closing", "ended"} =>
           \/ source[src].left = << >> /\ source[src].hand = << >>
           \/ stop
           \/ parser.state \in ParserEnded /\ parser.exit # "SourcesClosed"
  PROVE  DrainInv'
<1>. PICK new : new = [source[src] EXCEPT !.state = s]
  OBVIOUS
<1>1. source[src] \in SourceRec
  BY DEF DrainInv, TypeOK, SourceRec
<1>2. /\ new \in SourceRec /\ new.state = s
      /\ new.left = source[src].left /\ new.hand = source[src].hand
  BY <1>1 DEF SourceRec, SourceEnded
<1>3. source' = [source EXCEPT ![src] = new] /\ raw' = raw
  BY DEF SourceGoes
<1>4. raw \in Seq(Line) /\ Len(raw) <= RawCap /\ (parser.exit = "SourcesClosed" => raw = << >>)
  BY DEF DrainInv, TypeOK, ParserInv
<1>5. /\ new.state \notin {"reading", "sending"}
      /\ new.state = "aborted" => outcome = "err"
      /\ new.state \in {"closing", "ended"} =>
           \/ new.left = << >> /\ new.hand = << >>
           \/ stop
           \/ parser.state \in ParserEnded /\ parser.exit # "SourcesClosed"
  BY <1>2
<1>6. /\ Range(raw) \cup Range(source[src].hand) \cup Range(source[src].left)
           \subseteq Range(raw') \cup Range(new.hand) \cup Range(new.left)
      /\ Range(raw) \subseteq Range(raw')
  BY <1>2, <1>3
<1>7. UNCHANGED <<sinkVars, stop, parser, runVars>>
  BY DEF SourceGoes
<1>. QED  BY <1>2, <1>3, <1>4, <1>5, <1>6, <1>7, SourceMoveKeepsDrain

\* What a receiver hears without a broadcast.
LEMMA PollsPastKeepsHears ==
  ASSUME DrainInv, NEW r \in Receivers, PollsPast(r)
  PROVE  /\ hears' \in [Receivers -> Hearing]
         /\ \A q \in Receivers : hears[q] = "no" => hears'[q] = "no"
BY DEF PollsPast, AfterPoll, Hearing, DrainInv, TypeOK

\* stdin.rs run_reader: a line is read.
LEMMA ReadLineKeepsDrain ==
  ASSUME DrainInv, NEW src \in Sources, ReadLine(src) PROVE DrainInv'
<1>. PICK new : new = [state |-> "sending", left |-> Tail(source[src].left),
                       hand |-> <<Head(source[src].left)>>]
  OBVIOUS
<1>1. source[src] \in SourceRec /\ source[src].left # << >> /\ source[src].state = "reading"
  BY DEF DrainInv, TypeOK, SourceRec, ReadLine, Reads
<1>2. /\ Head(source[src].left) \in Line /\ Tail(source[src].left) \in Seq(Line)
      /\ Range(source[src].left) = {Head(source[src].left)} \cup Range(Tail(source[src].left))
  BY <1>1, RangeOfTail DEF SourceRec
<1>3. /\ new \in SourceRec /\ new.state = "sending" /\ new.left = Tail(source[src].left)
      /\ new.hand = <<Head(source[src].left)>>
  BY <1>2 DEF SourceRec
<1>4. Range(source[src].hand) = {}
  BY <1>1, RangeOfOne DEF DrainInv, SourceInv
<1>5. Range(new.hand) = {Head(source[src].left)}
  BY <1>3, RangeOfOne
<1>6. source' = [source EXCEPT ![src] = new] /\ raw' = raw
  BY DEF ReadLine
<1>7. raw \in Seq(Line) /\ Len(raw) <= RawCap /\ (parser.exit = "SourcesClosed" => raw = << >>)
  BY DEF DrainInv, TypeOK, ParserInv
<1>8. /\ hears' \in [Receivers -> Hearing]
      /\ \A q \in Receivers : hears[q] = "no" => hears'[q] = "no"
  BY PollsPastKeepsHears DEF ReadLine, Reads, Receivers
<1>. QED  BY ZenonT(60), <1>1, <1>2, <1>3, <1>4, <1>5, <1>6, <1>7, <1>8, SourceMoveKeepsDrain DEF ReadLine

\* The channel takes the line.
LEMMA SendLineKeepsDrain ==
  ASSUME DrainInv, NEW src \in Sources, SendLine(src) PROVE DrainInv'
<1>. PICK new : new = [source[src] EXCEPT !.state = "reading", !.hand = << >>]
  OBVIOUS
<1>1. /\ source[src] \in SourceRec /\ source[src].state = "sending"
      /\ raw \in Seq(Line) /\ Len(raw) < RawCap
  BY DEF DrainInv, TypeOK, SourceRec, SendLine
<1>2. new = [state |-> "reading", left |-> source[src].left, hand |-> << >>]
  BY <1>1 DEF SourceRec
<1>3. << >> \in Seq(Line)
  OBVIOUS
<1>4. /\ new \in SourceRec /\ new.state = "reading" /\ new.left = source[src].left
      /\ new.hand = << >>
  BY <1>1, <1>2, <1>3 DEF SourceRec
<1>5. source[src].hand \in Seq(Line) /\ Len(source[src].hand) = 1
  BY <1>1 DEF SourceRec, DrainInv, SourceInv
<1>6. /\ raw' = raw \o source[src].hand /\ raw' \in Seq(Line) /\ Len(raw') <= RawCap
      /\ source' = [source EXCEPT ![src] = new]
  <2>1. raw' = raw \o source[src].hand /\ source' = [source EXCEPT ![src] = new]
    BY DEF SendLine
  <2>2. /\ raw \o source[src].hand \in Seq(Line)
        /\ Len(raw \o source[src].hand) = Len(raw) + 1
    <3>1. \A r, h \in Seq(Line) : r \o h \in Seq(Line) /\ Len(r \o h) = Len(r) + Len(h)
      OBVIOUS
    <3>. QED  BY <1>1, <1>5, <3>1
  <2>. QED  BY <1>1, <2>1, <2>2, PipelineAssumption
<1>7. Range(raw') = Range(raw) \cup Range(source[src].hand)
  BY <1>1, <1>5, <1>6, RangeOfJoin
<1>8. parser.exit # "SourcesClosed"
  BY <1>1 DEF DrainInv, ParserInv, RawClosed, SourceEnded
<1>9. UNCHANGED <<sinkVars, stop, hears, parser, runVars>> /\ hears \in [Receivers -> Hearing]
  BY DEF SendLine, DrainInv, TypeOK
<1>. QED  BY <1>1, <1>4, <1>6, <1>7, <1>8, <1>9, SourceMoveKeepsDrain

\* The other ways a source's task goes on.
LEMMA SourceKeepsDrain ==
  ASSUME DrainInv, RunInv, NEW src \in Sources, SourceStep(src) \/ ReadFails(src)
  PROVE  DrainInv'
<1>1. hears \in [Receivers -> Hearing] /\ src \in Receivers
  BY DEF DrainInv, TypeOK, Receivers
<1>2. CASE SendFails(src)
  <2>1. parser.state \in ParserEnded /\ parser.exit # "SourcesClosed"
    BY <1>2 DEF SendFails, DrainInv, ParserInv, RawClosed, SourceEnded
  <2>. QED  BY <1>1, <1>2, <2>1, SourceClosesKeepsDrain DEF SendFails
<1>3. CASE Eof(src)
  <2>1. source[src].left = << >> /\ source[src].hand = << >>
    BY <1>3 DEF Eof, Reads, DrainInv, SourceInv
  <2>. QED  BY <1>1, <1>3, <2>1, PollsPastKeepsHears, SourceClosesKeepsDrain DEF Eof, Reads
<1>4. CASE ReadFails(src)
  BY <1>1, <1>4, PollsPastKeepsHears, SourceClosesKeepsDrain DEF ReadFails, Reads
<1>5. CASE SourceStop(src)
  <2>1. stop
    BY <1>1, <1>5 DEF SourceStop, DrainInv, HearInv
  <2>. QED  BY <1>1, <1>5, <2>1, SourceClosesKeepsDrain DEF SourceStop
<1>6. CASE SourceEnds(src)
  <2>1. CASE source[src].state = "closing"
    BY <1>1, <1>6, <2>1, SourceClosesKeepsDrain DEF SourceEnds, DrainInv, SourceInv
  <2>2. CASE source[src].state = "failing"
    BY <1>1, <1>6, <2>2, SourceClosesKeepsDrain DEF SourceEnds
  <2>. QED  BY <1>6, <2>1, <2>2 DEF SourceEnds
<1>7. CASE AbortSource(src)
  <2>1. outcome = "err"
    BY <1>7 DEF AbortSource, RunInv
  <2>. QED  BY <1>1, <1>7, <2>1, SourceClosesKeepsDrain DEF AbortSource
<1>. QED  BY <1>2, <1>3, <1>4, <1>5, <1>6, <1>7, ReadLineKeepsDrain, SendLineKeepsDrain DEF SourceStep

-----------------------------------------------------------------------------
(* Every step of the parser, and of a sink, keeps DrainInv.                 *)

ParserRec ==
  [state : {"idle", "busy", "leaving", "dropped"} \cup ParserEnded,
   hand : Seq(Line), exit : {"none", "Shutdown", "SourcesClosed"}]

\* A line is taken from the channel.
LEMMA TakeLineKeepsDrain == ASSUME DrainInv, TakeLine PROVE DrainInv'
<1>1. parser \in ParserRec /\ parser.state = "idle" /\ ParserUp /\ raw \in Seq(Line) /\ raw # << >>
  BY DEF DrainInv, TypeOK, ParserRec, TakeLine, Polls
<1>2. /\ Head(raw) \in Line /\ Tail(raw) \in Seq(Line) /\ Len(Tail(raw)) <= RawCap
      /\ Range(raw) = {Head(raw)} \cup Range(Tail(raw))
  BY <1>1, RangeOfTail, PipelineAssumption DEF DrainInv, TypeOK
<1>3. parser' = [state |-> "busy", hand |-> <<Head(raw)>>, exit |-> parser.exit]
  BY <1>1 DEF TakeLine, ParserRec
<1>4. parser' \in ParserRec
  BY <1>1, <1>2, <1>3 DEF ParserRec
<1>5. /\ hears' \in [Receivers -> Hearing]
      /\ \A q \in Receivers : hears[q] = "no" => hears'[q] = "no"
  BY PollsPastKeepsHears DEF TakeLine, Polls, Receivers
<1>6. UNCHANGED <<sinkVars, stop, source, runVars>> /\ raw' = Tail(raw)
  BY DEF TakeLine
<1>7. parser.hand = << >> /\ parser.exit = "none" /\ parser.exit # "SourcesClosed"
  BY <1>1 DEF DrainInv, ParserInv
<1>8. TypeOK' /\ HistoryOK'
  BY <1>2, <1>4, <1>5, <1>6 DEF DrainInv, TypeOK, SinkTypeOK, HistoryOK, sinkVars, runVars, ParserRec
<1>9. HearInv' /\ AbortInv' /\ SourceInv' /\ SinkInv' /\ OkInv'
  BY <1>1, <1>3, <1>5, <1>6 DEF DrainInv, HearInv, AbortInv, SourceInv, SinkInv, OkInv, sinkVars,
     runVars, ParserEnded
<1>10. ParserInv'
  BY <1>1, <1>3, <1>6, <1>7 DEF ParserInv, ParserUp, runVars
<1>11. LinesInv'
  <2>1. Range(parser'.hand) = {Head(raw)} /\ Range(parser.hand) = {}
    BY <1>3, <1>7, RangeOfOne
  <2>. QED  BY <1>1, <1>2, <1>6, <2>1 DEF DrainInv, LinesInv, Somewhere, sinkVars, ParserEnded
<1>. QED  BY <1>8, <1>9, <1>10, <1>11 DEF DrainInv

\* The parser leaves its loop, or goes on to its end.
LEMMA ParserLeavesKeepsDrain ==
  ASSUME DrainInv,
         NEW s \in {"leaving", "dropped", "finished", "aborted"},
         NEW e \in {"none", "Shutdown", "SourcesClosed"}, ParserGoes(s, e), ParserUp,
         Typed', UNCHANGED <<task, queue, inHand, discarded, fanned, heard>>,
         hears' \in [Receivers -> Hearing], \A r \in Receivers : hears[r] = "no" => hears'[r] = "no",
         s # "aborted" => parser.hand = << >> /\ e # "none",
         s = "aborted" => outcome = "err",
         e = "Shutdown" => stop,
         e = "SourcesClosed" => RawClosed /\ raw = << >>,
         parser.state \in ParserEnded => e = parser.exit,
         parser.exit = "SourcesClosed" => e = "SourcesClosed",
         outcome = "ok" /\ ~stop => s \in ParserEnded /\ e = "SourcesClosed",
         parser.state \notin ParserEnded
  PROVE  DrainInv'
<1>1. /\ parser' = [state |-> s, hand |-> << >>, exit |-> e]
      /\ UNCHANGED <<stop, source, raw, runVars>>
  BY DEF ParserGoes
<1>2. << >> \in Seq(Line)
  OBVIOUS
<1>3. parser' \in ParserRec
  BY <1>1, <1>2 DEF ParserRec, ParserEnded
<1>4. TypeOK' /\ HistoryOK'
  BY <1>1, <1>3 DEF Typed, DrainInv, TypeOK, runVars, ParserRec
<1>5. HearInv' /\ AbortInv'
  BY <1>1 DEF DrainInv, HearInv, AbortInv, runVars
<1>6. SourceInv'
  BY <1>1 DEF DrainInv, SourceInv
<1>7. ParserInv'
  BY <1>1 DEF ParserInv, ParserUp, RawClosed, SourcesUp, runVars
<1>8. LinesInv'
  <2>1. Range(parser'.hand) = {}
    BY <1>1, RangeOfOne
  <2>2. parser'.state # "aborted" => parser.state # "aborted" /\ Range(parser.hand) = {}
    BY <1>1, RangeOfOne DEF ParserEnded
  <2>. QED  BY <1>1, <2>1, <2>2 DEF DrainInv, LinesInv, Somewhere
<1>9. SinkInv' /\ OkInv'
  BY <1>1 DEF DrainInv, SinkInv, OkInv, runVars
<1>. QED  BY <1>4, <1>5, <1>6, <1>7, <1>8, <1>9 DEF DrainInv

\* process_one: an event goes from the parser's hand to the subscribers.
LEMMA ProcessOneKeepsDrain == ASSUME DrainInv, ProcessOne PROVE DrainInv'
<1>1. /\ parser' = [state |-> "idle", hand |-> << >>, exit |-> "none"]
      /\ UNCHANGED <<stop, source, raw, runVars, hears>>
      /\ parser.state = "busy"
  BY DEF ProcessOne, ParserGoes
<1>2. /\ parser.exit = "none" /\ parser.hand \in Seq(Line) /\ Len(parser.hand) = 1
      /\ parser.hand[1] \in Line /\ Range(parser.hand) = {parser.hand[1]}
  <2>1. parser.exit = "none" /\ parser.hand \in Seq(Line) /\ Len(parser.hand) = 1
    BY <1>1 DEF DrainInv, TypeOK, ParserInv
  <2>2. parser.hand[1] \in Line /\ DOMAIN parser.hand = 1 .. 1 /\ 1 .. 1 = {1}
    BY <2>1, ElementOfSeq
  <2>. QED  BY <2>1, <2>2 DEF Range
<1>3. << >> \in Seq(Line) /\ Range(parser'.hand) = {}
  <2>1. << >> \in Seq(Line)
    OBVIOUS
  <2>2. parser'.hand = << >>
    BY <1>1
  <2>. QED  BY <2>1, <2>2, RangeOfOne
<1>4. parser' \in ParserRec
  BY <1>1, <1>3 DEF ParserRec
<1>5. Typed /\ fanned \in Seq(Event)
  BY DEF DrainInv, TypeOK, Typed, HistoryOK
<1>6. /\ Typed' /\ heard' = heard /\ task' = task /\ discarded' = discarded /\ inHand' = inHand
      /\ \A s \in Subs : task[s] \in Ended => queue'[s] = queue[s]
      /\ Range(fanned') = Range(fanned) \cup (Range(parser.hand) \cap Event)
  <2>1. CASE parser.hand[1] \in Event
    <3>1. FanOut(parser.hand[1])
      BY <2>1 DEF ProcessOne
    <3>2. Typed'
      BY <1>5, <2>1, <3>1, FanOutKeepsTypes
    <3>3. Range(fanned') = Range(fanned) \cup {parser.hand[1]}
      BY <1>5, <2>1, <3>1, RangeOfAppend DEF FanOut
    <3>. QED  BY <1>2, <2>1, <3>1, <3>2, <3>3 DEF FanOut, TrySend
  <2>2. CASE parser.hand[1] \notin Event
    <3>1. UNCHANGED sinkVars
      BY <2>2 DEF ProcessOne
    <3>2. Typed'
      BY <1>5, <3>1, StutterKeepsTypes
    <3>. QED  BY <1>2, <2>2, <3>1, <3>2 DEF sinkVars
  <2>. QED  BY <2>1, <2>2
<1>7. TypeOK' /\ HistoryOK'
  BY <1>1, <1>4, <1>6 DEF Typed, DrainInv, TypeOK, runVars, ParserRec
<1>8. HearInv' /\ AbortInv' /\ SinkInv'
  BY <1>1, <1>6 DEF DrainInv, HearInv, AbortInv, SinkInv, runVars
<1>9. SourceInv' /\ OkInv'
  BY <1>1 DEF DrainInv, SourceInv, OkInv, ParserEnded, runVars
<1>10. ParserInv'
  BY <1>1 DEF ParserInv
<1>11. LinesInv'
  BY <1>1, <1>2, <1>3, <1>6 DEF DrainInv, LinesInv, Somewhere
<1>. QED  BY <1>7, <1>8, <1>9, <1>10, <1>11 DEF DrainInv

\* All steps of the parser.
LEMMA ParserKeepsDrain == ASSUME DrainInv, RunInv, ParserStep PROVE DrainInv'
<1>1. /\ Typed /\ hears \in [Receivers -> Hearing] /\ "parser" \in Receivers
      /\ parser \in ParserRec
  BY DEF DrainInv, TypeOK, Typed, Receivers, ParserRec
<1>2. CASE ParserHearsStop
  <2>1. /\ UNCHANGED <<sinkVars, hears>> /\ ParserUp /\ parser.state = "idle"
        /\ ParserGoes("leaving", "Shutdown")
        /\ parser.hand = << >> /\ parser.exit = "none" /\ stop
    BY <1>1, <1>2 DEF ParserHearsStop, DrainInv, ParserInv, HearInv
  <2>2. Typed' /\ UNCHANGED <<task, queue, inHand, discarded, fanned, heard>>
    BY <1>1, <2>1, StutterKeepsTypes DEF sinkVars
  <2>. QED  BY <1>1, <2>1, <2>2, ParserLeavesKeepsDrain DEF ParserEnded
<1>3. CASE ParserSeesEnd
  <2>1. /\ UNCHANGED sinkVars /\ ParserUp /\ parser.state = "idle" /\ RawClosed /\ raw = << >>
        /\ ParserGoes("leaving", "SourcesClosed")
        /\ parser.hand = << >> /\ parser.exit = "none"
    BY <1>1, <1>3 DEF ParserSeesEnd, Polls, RawDrained, DrainInv, ParserInv
  <2>2. Typed' /\ UNCHANGED <<task, queue, inHand, discarded, fanned, heard>>
    BY <1>1, <2>1, StutterKeepsTypes DEF sinkVars
  <2>3. /\ hears' \in [Receivers -> Hearing]
        /\ \A q \in Receivers : hears[q] = "no" => hears'[q] = "no"
    BY <1>1, <1>3, PollsPastKeepsHears DEF ParserSeesEnd, Polls
  <2>4. ~(outcome = "ok" /\ ~stop)
    BY <2>1 DEF DrainInv, OkInv
  <2>. QED  BY <1>1, <2>1, <2>2, <2>3, <2>4, ParserLeavesKeepsDrain DEF ParserEnded
<1>4. CASE ParserDropsSenders
  <2>1. /\ DropSenders /\ hears' = hears /\ parser.state = "leaving"
        /\ ParserGoes("dropped", parser.exit)
        /\ parser.hand = << >> /\ parser.exit # "none" /\ ParserUp
        /\ parser.exit \in {"none", "Shutdown", "SourcesClosed"}
    BY <1>1, <1>4 DEF ParserDropsSenders, DrainInv, ParserInv, ParserRec
  <2>2. Typed' /\ UNCHANGED <<task, queue, inHand, discarded, fanned, heard>>
    BY <1>1, <2>1, SignalsKeepTypes DEF DropSenders
  <2>. QED  BY <1>1, <2>1, <2>2, ParserLeavesKeepsDrain DEF DrainInv, ParserInv, OkInv, ParserEnded
<1>5. CASE ParserFinishes
  <2>1. /\ UNCHANGED <<sinkVars, hears>> /\ parser.state = "dropped"
        /\ ParserGoes("finished", parser.exit)
        /\ parser.hand = << >> /\ parser.exit # "none" /\ ParserUp
        /\ parser.exit \in {"none", "Shutdown", "SourcesClosed"}
    BY <1>1, <1>5 DEF ParserFinishes, DrainInv, ParserInv, ParserRec
  <2>2. Typed' /\ UNCHANGED <<task, queue, inHand, discarded, fanned, heard>>
    BY <1>1, <2>1, StutterKeepsTypes DEF sinkVars
  <2>. QED  BY <1>1, <2>1, <2>2, ParserLeavesKeepsDrain DEF DrainInv, ParserInv, OkInv, ParserEnded
<1>6. CASE AbortParser
  <2>1. /\ outcome = "err" /\ hears' = hears /\ parser.state \notin ParserEnded
        /\ ParserGoes("aborted", parser.exit)
        /\ parser.exit \in {"none", "Shutdown", "SourcesClosed"}
    BY <1>1, <1>6 DEF AbortParser, RunInv, ParserRec
  <2>2. Typed' /\ UNCHANGED <<task, queue, inHand, discarded, fanned, heard>>
    <3>1. CASE senders
      BY <1>1, <1>6, <3>1, SignalsKeepTypes DEF AbortParser, DropSenders
    <3>2. CASE ~senders
      BY <1>1, <1>6, <3>2, StutterKeepsTypes DEF AbortParser, sinkVars
    <3>. QED  BY <3>1, <3>2
  <2>3. ParserUp
    BY <2>1 DEF RunInv, Before, After, ParserUp
  <2>. QED  BY <1>1, <2>1, <2>2, <2>3, ParserLeavesKeepsDrain DEF DrainInv, ParserInv, ParserEnded
<1>. QED  BY <1>2, <1>3, <1>4, <1>5, <1>6, TakeLineKeepsDrain, ProcessOneKeepsDrain DEF ParserStep

\* What one step of a sink does to its task and to what it holds: it ends only with
\* nothing left, or drops what it has because it was told to or is aborted.
LEMMA SinkMoves ==
  ASSUME Typed, HearInv, NEW s \in Subs, task[s] \notin Ended,
         RunSink(s) \/ (AbortSink(s) /\ outcome = "err")
  PROVE  /\ \A r \in Subs \ {s} : /\ task'[r] = task[r] /\ queue'[r] = queue[r]
                                  /\ inHand'[r] = inHand[r] /\ discarded'[r] = discarded[r]
         /\ task'[s] \in Ended => queue'[s] = << >> /\ inHand'[s] = << >>
         /\ discarded'[s] = discarded[s] \/ stop \/ outcome = "err"
         /\ task'[s] = "aborted" => outcome = "err"
<1>1. /\ task \in [Subs -> {"waiting", "sending", "backoff"} \cup Ended]
      /\ DOMAIN queue = Subs /\ DOMAIN inHand = Subs /\ DOMAIN discarded = Subs
  BY DEF Typed, SinkTypeOK, HistoryOK
<1>2. CASE Receive(s) \/ Retry(s)
  BY <1>1, <1>2 DEF Receive, Retry, Ended
<1>3. CASE InputClosed(s)
  <2>1. task[s] = "waiting" /\ queue[s] = << >>
    BY <1>3 DEF InputClosed, PollsOn
  <2>2. inHand[s] = << >>
    BY <2>1, HandOfATask
  <2>. QED  BY <1>1, <1>3, <2>1, <2>2 DEF InputClosed, Ended
<1>4. CASE SinkShutdown(s)
  <2>1. stop
    BY <1>4 DEF SinkShutdown, HearInv
  <2>. QED  BY <1>1, <1>4, <2>1 DEF SinkShutdown, Leave
<1>5. ASSUME NEW response \in Responses, Attempt(s, response)
      PROVE  /\ UNCHANGED <<queue, discarded>>
             /\ \A r \in Subs \ {s} : task'[r] = task[r] /\ inHand'[r] = inHand[r]
             /\ task'[s] \notin Ended
  BY <1>1, <1>5 DEF Attempt, DeadLetter, Settle, Ended
<1>6. CASE AbortSink(s) /\ outcome = "err"
  BY <1>1, <1>6 DEF AbortSink, Leave
<1>7. CASE \E response \in Responses : Attempt(s, response)
  BY <1>5, <1>7 DEF Ended
<1>. QED  BY <1>2, <1>3, <1>4, <1>6, <1>7 DEF RunSink

\* A step of a sink.
LEMMA SinkKeepsDrain == ASSUME DrainInv, RunInv, NEW s \in Subs, SinkStep(s) PROVE DrainInv'
<1>1. Typed /\ UNCHANGED <<taskVars, runVars>>
  BY DEF DrainInv, TypeOK, Typed, SinkStep
<1>2. RunSink(s) \/ (AbortSink(s) /\ outcome = "err")
  BY DEF SinkStep, RunInv
<1>3. Typed'
  BY <1>1, <1>2, RunSinkKeepsTypes, AbortKeepsTypes
<1>4. TypeOK' /\ HistoryOK'
  BY <1>1, <1>3 DEF Typed, DrainInv, TypeOK, taskVars, runVars
<1>5. fanned' = fanned
  BY <1>2 DEF RunSink, Receive, InputClosed, SinkShutdown, AbortSink, Leave, Attempt, Retry
<1>6. SourceInv' /\ ParserInv' /\ LinesInv' /\ OkInv'
  BY <1>1, <1>5 DEF DrainInv, SourceInv, ParserInv, ParserUp, RawClosed, SourcesUp, LinesInv,
     Somewhere, OkInv, taskVars, runVars
<1>7. HearInv'
  <2>1. ASSUME ~stop PROVE \A r \in Subs : heard'[r] = "no"
    <3>1. heard \in [Subs -> Hearing] /\ \A r \in Subs : heard[r] = "no"
      BY <1>1, <2>1 DEF DrainInv, HearInv, Typed, SinkTypeOK
    <3>. QED  BY <1>2, <3>1 DEF RunSink, Receive, InputClosed, PollsOn, AfterPoll, SinkShutdown,
                 AbortSink, Leave, Attempt, Retry
  <2>. QED  BY <1>1, <2>1 DEF DrainInv, HearInv, taskVars
<1>8. task[s] \notin Ended
  BY SinksEndOnce DEF Running
<1>9. AbortInv' /\ SinkInv'
  <2>1. /\ \A r \in Subs \ {s} : /\ task'[r] = task[r] /\ queue'[r] = queue[r]
                                 /\ inHand'[r] = inHand[r] /\ discarded'[r] = discarded[r]
        /\ task'[s] \in Ended => queue'[s] = << >> /\ inHand'[s] = << >>
        /\ discarded'[s] = discarded[s] \/ stop \/ outcome = "err"
        /\ task'[s] = "aborted" => outcome = "err"
    BY <1>1, <1>2, <1>8, SinkMoves DEF DrainInv
  <2>. QED  BY <1>1, <2>1 DEF DrainInv, AbortInv, SinkInv, taskVars, runVars
<1>. QED  BY <1>4, <1>6, <1>7, <1>9 DEF DrainInv

-----------------------------------------------------------------------------
(* The supervisor, the broadcast, and the theorem.                          *)

\* What no step of the supervisor touches, and where its phase goes.
LEMMA SupervisorGoesOn ==
  ASSUME DrainInv, RunInv, Supervisor
  PROVE  /\ UNCHANGED <<sinkVars, stop, source, raw, parser>>
         /\ hears' \in [Receivers -> Hearing]
         /\ \A r \in Receivers : hears[r] = "no" => hears'[r] = "no"
         /\ SourcesUp => SourcesUp'
         /\ ParserUp => ParserUp'
         /\ outcome = "err" => outcome' = "err"
         /\ outcome' = "ok" =>
              \/ outcome = "ok"
              \/ HearStop \/ JoinParser
<1>1. hears \in [Receivers -> Hearing] /\ "run" \in Receivers
  BY DEF DrainInv, TypeOK, Receivers
<1>2. outcome = "err" => outcome' = "err"
  BY ErrorsStay DEF Next
<1>3. CASE \/ SpawnSinks \/ SpawnSources \/ SpawnParser \/ HearStop \/ BeginTeardown
           \/ DrainSources \/ DrainSourcesTimeout \/ DrainParser \/ DrainParserTimeout
           \/ DrainSinks \/ DrainSinksTimeout
  <2>1. UNCHANGED <<sinkVars, taskVars>>
    BY <1>3 DEF SpawnSinks, SpawnSources, SpawnParser, HearStop, BeginTeardown, DrainSources,
       DrainSourcesTimeout, DrainParser, DrainParserTimeout, DrainSinks, DrainSinksTimeout, TimesOut
  <2>2. (SourcesUp => SourcesUp') /\ (ParserUp => ParserUp')
    BY <1>3 DEF SpawnSinks, SpawnSources, SpawnParser, HearStop, Breaks, BeginTeardown, DrainSources,
       DrainSourcesTimeout, DrainParser, DrainParserTimeout, DrainSinks, DrainSinksTimeout, TimesOut,
       SourcesUp, ParserUp
  <2>3. outcome' = "ok" => outcome = "ok" \/ HearStop
    BY <1>3 DEF SpawnSinks, SpawnSources, SpawnParser, BeginTeardown, DrainSources, Worst,
       DrainSourcesTimeout, DrainParser, DrainParserTimeout, DrainSinks, DrainSinksTimeout, TimesOut
  <2>. QED  BY <1>1, <1>2, <2>1, <2>2, <2>3 DEF taskVars
<1>4. CASE \/ \E src \in Sources : JoinSource(src)
           \/ \E s \in Subs : JoinSink(s)
           \/ JoinParser
  <2>1. UNCHANGED <<sinkVars, stop, source, raw, parser>> /\ phase = "supervise" /\ PollsPast("run")
    BY <1>4 DEF JoinSource, JoinSink, JoinParser, Joins
  <2>2. phase' \in {"supervise", "stopping"}
    BY <1>4, <2>1 DEF JoinSource, JoinSink, JoinParser, Breaks
  <2>3. outcome' = "ok" => outcome = "ok" \/ JoinParser
    BY <1>4 DEF JoinSource, JoinSink, Breaks
  <2>4. (SourcesUp => SourcesUp') /\ (ParserUp => ParserUp')
    BY <2>2 DEF SourcesUp, ParserUp
  <2>. QED  BY <1>1, <1>2, <2>1, <2>3, <2>4, PollsPastKeepsHears
<1>. QED  BY <1>3, <1>4 DEF Supervisor

\* The types of the supervisor's own state.
RunTypes ==
  /\ phase \in {"spawnSinks", "spawnSources", "spawnParser", "supervise", "stopping",
                "drainSources", "drainParser", "drainSinks", "stopped"}
  /\ outcome \in {"none", "ok", "err"}
  /\ exhausted \in BOOLEAN /\ parserJoined \in BOOLEAN /\ ready \in BOOLEAN
  /\ joined \subseteq Sources \cup Subs
  /\ cancelled \subseteq {"sources", "parser", "sinks"}

\* They are kept.
LEMMA SupervisorKeepsTypes == ASSUME RunTypes, Supervisor PROVE RunTypes'
<1>1. CASE \/ SpawnSinks \/ SpawnSources \/ SpawnParser \/ HearStop \/ BeginTeardown
           \/ DrainSources \/ DrainParser \/ DrainSinks
  BY <1>1 DEF SpawnSinks, SpawnSources, SpawnParser, HearStop, Breaks, BeginTeardown, DrainSources,
     Worst, DrainParser, DrainSinks, RunTypes
<1>2. CASE DrainSourcesTimeout \/ DrainParserTimeout \/ DrainSinksTimeout
  BY <1>2 DEF DrainSourcesTimeout, DrainParserTimeout, DrainSinksTimeout, TimesOut, RunTypes
<1>3. ASSUME NEW src \in Sources, JoinSource(src) PROVE RunTypes'
  BY <1>3 DEF JoinSource, Joins, Breaks, RunTypes
<1>4. ASSUME NEW s \in Subs, JoinSink(s) PROVE RunTypes'
  BY <1>4 DEF JoinSink, Joins, Breaks, RunTypes
<1>5. CASE JoinParser
  BY <1>5 DEF JoinParser, Joins, Breaks, RunTypes
<1>. QED  BY <1>1, <1>2, <1>3, <1>4, <1>5 DEF Supervisor

\* A step of the supervisor.
LEMMA SupervisorKeepsDrain == ASSUME DrainInv, RunInv, Supervisor PROVE DrainInv'
<1>1. /\ UNCHANGED <<sinkVars, stop, source, raw, parser>>
      /\ hears' \in [Receivers -> Hearing]
      /\ \A r \in Receivers : hears[r] = "no" => hears'[r] = "no"
      /\ (SourcesUp => SourcesUp') /\ (ParserUp => ParserUp')
      /\ outcome = "err" => outcome' = "err"
      /\ outcome' = "ok" => outcome = "ok" \/ HearStop \/ JoinParser
  BY SupervisorGoesOn
<1>2. RunTypes'
  BY SupervisorKeepsTypes DEF DrainInv, TypeOK, RunTypes
<1>3. TypeOK' /\ HistoryOK'
  BY <1>1, <1>2 DEF RunTypes, DrainInv, TypeOK, SinkTypeOK, HistoryOK, sinkVars
<1>4. HearInv' /\ AbortInv' /\ SourceInv' /\ SinkInv'
  BY <1>1 DEF DrainInv, HearInv, AbortInv, SourceInv, SinkInv, sinkVars
<1>5. ParserInv' /\ LinesInv'
  BY <1>1 DEF DrainInv, ParserInv, RawClosed, LinesInv, Somewhere, sinkVars
<1>6. OkInv'
  <2>1. CASE HearStop
    <3>1. stop
      BY <2>1 DEF HearStop, DrainInv, HearInv, Receivers
    <3>. QED  BY <1>1, <3>1 DEF OkInv
  <2>2. CASE JoinParser
    <3>1. parser.state = "finished"
      BY <2>2 DEF JoinParser
    <3>2. parser.exit # "none" /\ (parser.exit = "Shutdown" => stop)
      BY <3>1 DEF DrainInv, ParserInv
    <3>3. parser.exit \in {"none", "Shutdown", "SourcesClosed"}
      BY DEF DrainInv, TypeOK
    <3>. QED  BY <1>1, <3>1, <3>2, <3>3 DEF OkInv, ParserEnded
  <2>. QED  BY <1>1, <2>1, <2>2 DEF DrainInv, OkInv
<1>. QED  BY <1>3, <1>4, <1>5, <1>6 DEF DrainInv

\* The broadcast is sent.
LEMMA ShutdownKeepsDrain == ASSUME DrainInv, Shutdown PROVE DrainInv'
<1>1. /\ stop' = TRUE /\ UNCHANGED <<source, raw, parser, runVars>>
      /\ UNCHANGED <<senders, task, queue, inHand, dlq, metrics, fanned, inbox, settled, discarded>>
  BY DEF Shutdown, Broadcast, sinkVars
<1>2. Typed'
  BY SignalsKeepTypes, StutterKeepsTypes DEF Shutdown, DrainInv, TypeOK, Typed
<1>3. hears' \in [Receivers -> Hearing]
  BY DEF Shutdown
<1>4. TypeOK' /\ HistoryOK'
  BY <1>1, <1>2, <1>3 DEF Typed, DrainInv, TypeOK, runVars
<1>5. HearInv' /\ AbortInv' /\ SourceInv' /\ SinkInv' /\ OkInv'
  BY <1>1 DEF DrainInv, HearInv, AbortInv, SourceInv, SinkInv, OkInv, runVars
<1>6. ParserInv' /\ LinesInv'
  BY <1>1 DEF DrainInv, ParserInv, ParserUp, RawClosed, SourcesUp, LinesInv, Somewhere, runVars
<1>. QED  BY <1>4, <1>5, <1>6 DEF DrainInv

\* Nothing was read yet.
LEMMA InitDrains == Init => DrainInv
<1>. SUFFICES ASSUME Init PROVE DrainInv
  OBVIOUS
<1>1. Typed
  BY InitIsTyped DEF Init
<1>2. << >> \in Seq(Line) /\ Len(<< >>) = 0 /\ << >> \in Seq(Event)
  OBVIOUS
<1>3. \A src \in Sources : /\ source[src].state = "reading" /\ source[src].left = Lines[src]
                           /\ source[src].hand = << >> /\ source[src] \in SourceRec
  BY <1>2, PipelineAssumption DEF Init, SourceRec
<1>4. source \in [Sources -> SourceRec]
  BY <1>3 DEF Init
<1>5. hears \in [Receivers -> Hearing]
  BY DEF Init, Hearing
<1>6. TypeOK /\ HistoryOK
  <2>1. parser \in ParserRec
    BY <1>2 DEF Init, ParserRec
  <2>2. raw \in Seq(Line) /\ Len(raw) <= RawCap
    BY <1>2, PipelineAssumption DEF Init
  <2>. QED  BY <1>1, <1>4, <1>5, <2>1, <2>2 DEF Init, TypeOK, Typed, SourceRec, ParserRec
<1>7. HearInv /\ AbortInv /\ SourceInv /\ ParserInv /\ SinkInv /\ OkInv
  BY <1>3 DEF Init, SinkInit, HearInv, AbortInv, SourceInv, ParserInv, SinkInv, OkInv, Ended
<1>8. LinesInv
  BY <1>3, RangeOfOne DEF Init, SinkInit, LinesInv, Somewhere
<1>. QED  BY <1>6, <1>7, <1>8 DEF DrainInv

\* DrainInv is an invariant of the pipeline.
LEMMA DrainInvHolds == Spec => []DrainInv
<1>1. RunInv /\ DrainInv /\ [Next]_vars => DrainInv'
  <2> SUFFICES ASSUME RunInv, DrainInv, [Next]_vars PROVE DrainInv'
    OBVIOUS
  <2>1. CASE UNCHANGED vars
    BY SMTT(40), <2>1 DEF vars, sinkVars, taskVars, runVars, DrainInv, TypeOK, SinkTypeOK, HistoryOK, HearInv,
       AbortInv, SourceInv, ParserInv, ParserUp, RawClosed, SourcesUp, LinesInv, Somewhere, SinkInv,
       OkInv
  <2>. QED  BY <2>1, SourceKeepsDrain, ParserKeepsDrain, SinkKeepsDrain, SupervisorKeepsDrain,
               ShutdownKeepsDrain DEF Next
<1>. QED  BY <1>1, InitDrains, RunInvHolds, PTL DEF Spec

\* What the pipeline returns when it stops is true, whatever its sources, lines,
\* subscribers and capacities: nothing it spawned is left, a failed source is told,
\* and an ok without a shutdown means that every line was read, every event fanned
\* out and every accepted envelope settled (pipeline.rs:162-314).
THEOREM EndStaysTrue == Spec => []EndIsTrue
<1>1. RunInv /\ EndInv /\ DrainInv => EndIsTrue
  <2> SUFFICES ASSUME RunInv, EndInv, DrainInv PROVE EndIsTrue
    OBVIOUS
  <2>1. NothingLeftRunning /\ FailureIsReported
    BY RunEndsClean
  <2>2. ASSUME phase = "stopped", outcome = "ok", ~stop
        PROVE  /\ \A src \in Sources : source[src].left = << >>
               /\ FannedOut = Line \cap Event
               /\ \A s \in Subs : Backlog(s) = 0 /\ discarded[s] = 0
    <3>1. parser.exit = "SourcesClosed" /\ parser.state \in ParserEnded
      BY <2>2 DEF DrainInv, OkInv
    <3>2. parser.state = "finished" /\ parser.hand = << >> /\ raw = << >>
      BY <2>2, <3>1 DEF ParserEnded, DrainInv, AbortInv, ParserInv
    <3>3. ASSUME NEW src \in Sources
          PROVE  source[src].left = << >> /\ source[src].hand = << >>
      <4>1. source[src].state \in SourceEnded
        BY <2>1, <2>2 DEF NothingLeftRunning
      <4>2. source[src].state = "ended"
        BY <2>1, <2>2, <4>1 DEF FailureIsReported, SourceEnded, DrainInv, AbortInv
      <4>. QED  BY <2>2, <3>1, <4>2 DEF DrainInv, SourceInv
    <3>4. FannedOut = Range(fanned)
      BY DEF FannedOut, Range
    <3>5. Range(fanned) \subseteq Line \cap Event
      BY RangeInSet DEF DrainInv, LinesInv, HistoryOK
    <3>6. ASSUME NEW x \in Line \cap Event PROVE x \in Range(fanned)
      <4>1. PICK src \in Sources : x \in Range(Lines[src])
        BY DEF Line, Range
      <4>2. x \in Somewhere(src)
        BY <3>2, <4>1 DEF DrainInv, LinesInv
      <4>. QED  BY <3>2, <3>3, <4>2, RangeOfOne DEF Somewhere
    <3>7. ASSUME NEW s \in Subs PROVE Backlog(s) = 0 /\ discarded[s] = 0
      <4>1. task[s] \in Ended
        BY <2>1, <2>2 DEF NothingLeftRunning, Running
      <4>2. queue[s] = << >> /\ inHand[s] = << >> /\ discarded[s] = 0
        BY <2>2, <4>1 DEF DrainInv, SinkInv
      <4>. QED  BY <4>2 DEF Backlog
    <3>. QED  BY <3>3, <3>4, <3>5, <3>6, <3>7
  <2>. QED  BY <2>1, <2>2 DEF EndIsTrue, OkMeansDrained, DrainInv
<1>. QED  BY <1>1, RunInvHolds, EndInvHolds, DrainInvHolds, PTL

-----------------------------------------------------------------------------
(* The order of the events.  A source's events are kept, in their order, by   *)
(* each of the five places they pass on their way; every step moves a line     *)
(* from the head of one place to the end of the one before it.               *)

\* A source has only lines of its own.
OwnInv ==
  \A src \in Sources :
    Range(source[src].hand) \cup Range(source[src].left) \subseteq Range(Lines[src])

FlowInv == OwnInv /\ EventsFlowInOrder

\* Lines and events are what passes through the places.
Item == Line \cup Event

\* A sequence over a set is one over a larger set.
LEMMA SeqWidens ==
  ASSUME NEW S, NEW T, S \subseteq T, NEW s \in Seq(S) PROVE s \in Seq(T)
OBVIOUS

\* Kept of one and of two ends of a sequence.
LEMMA KeptOfHead ==
  ASSUME NEW S, NEW s \in Seq(S), s # << >>, NEW these
  PROVE  Kept(s, these) = Kept(<<Head(s)>>, these) \o Kept(Tail(s), these)
<1>1. <<Head(s)>> \in Seq(S) /\ Tail(s) \in Seq(S) /\ s = <<Head(s)>> \o Tail(s)
  OBVIOUS
<1>2. KeepsBoth(<<Head(s)>>, Tail(s), these)
  BY <1>1, KeptOfJoin
<1>3. Kept(s, these) = Kept(<<Head(s)>> \o Tail(s), these)
  BY <1>1
<1>. QED  BY <1>2, <1>3 DEF KeepsBoth

\* Three sequences one after the other, grouped from the left and from the right.
Regroups(a, b, c) == (a \o b) \o c = a \o (b \o c)

\* It is the same.
LEMMA JoinsRegroup ==
  ASSUME NEW S, NEW a \in Seq(S), NEW b \in Seq(S), NEW c \in Seq(S)
  PROVE  Regroups(a, b, c)
BY ConcatAssociative DEF Regroups

\* What is kept of the five places together.
KeepsAll(a, b, c, d, e, these) ==
  Kept(a \o b \o c \o d \o e, these)
    = Kept(a, these) \o (Kept(b, these) \o (Kept(c, these)
        \o (Kept(d, these) \o Kept(e, these))))

\* It is what is kept of each.
LEMMA KeptOfFlow ==
  ASSUME NEW S, NEW a \in Seq(S), NEW b \in Seq(S), NEW c \in Seq(S), NEW d \in Seq(S),
         NEW e \in Seq(S), NEW these
  PROVE  KeepsAll(a, b, c, d, e, these)
<1>. DEFINE K(s) == Kept(s, these)
<1>1. a \o b \in Seq(S) /\ a \o b \o c \in Seq(S) /\ a \o b \o c \o d \in Seq(S)
  OBVIOUS
<1>2. /\ KeepsBoth(a \o b \o c \o d, e, these)
      /\ KeepsBoth(a \o b \o c, d, these)
      /\ KeepsBoth(a \o b, c, these)
      /\ KeepsBoth(a, b, these)
  BY <1>1, KeptOfJoin
<1>3. K(a) \in Seq(S) /\ K(b) \in Seq(S) /\ K(c) \in Seq(S) /\ K(d) \in Seq(S) /\ K(e) \in Seq(S)
  BY KeptIsSeq
<1>. HIDE DEF K
<1>4. (((K(a) \o K(b)) \o K(c)) \o K(d)) \o K(e) = K(a) \o (K(b) \o (K(c) \o (K(d) \o K(e))))
  <2>1. /\ (K(a) \o K(b)) \o K(c) \in Seq(S) /\ K(a) \o K(b) \in Seq(S)
        /\ K(d) \o K(e) \in Seq(S) /\ K(c) \o (K(d) \o K(e)) \in Seq(S)
    BY <1>3
  <2>2. /\ Regroups((K(a) \o K(b)) \o K(c), K(d), K(e))
        /\ Regroups(K(a) \o K(b), K(c), K(d) \o K(e))
        /\ Regroups(K(a), K(b), K(c) \o (K(d) \o K(e)))
    BY <1>3, <2>1, JoinsRegroup
  <2>. QED  BY <2>2 DEF Regroups
<1>5. K(a \o b \o c \o d \o e) = (((K(a) \o K(b)) \o K(c)) \o K(d)) \o K(e)
  BY <1>2 DEF KeepsBoth, K
<1>6. K(a \o b \o c \o d \o e) = K(a) \o (K(b) \o (K(c) \o (K(d) \o K(e))))
  BY <1>4, <1>5
<1>. QED  BY <1>6 DEF K, KeepsAll

\* The types of the places.
LEMMA PlacesTyped ==
  ASSUME DrainInv, NEW src \in Sources
  PROVE  /\ fanned \in Seq(Item) /\ parser.hand \in Seq(Item) /\ raw \in Seq(Item)
         /\ source[src].hand \in Seq(Item) /\ source[src].left \in Seq(Item)
<1>1. /\ fanned \in Seq(Event) /\ parser.hand \in Seq(Line) /\ raw \in Seq(Line)
      /\ source[src].hand \in Seq(Line) /\ source[src].left \in Seq(Line)
  BY DEF DrainInv, TypeOK, HistoryOK
<1>. QED  BY <1>1, SeqWidens DEF Item

\* What of the flow a source keeps, as the places keep it.
KeptAlong(src) ==
  LET K(s) == Kept(s, EventsOf(src))
  IN  K(fanned) \o (K(parser.hand) \o (K(raw) \o (K(source[src].hand) \o K(source[src].left))))

\* It is what is kept of the flow.
LEMMA FlowKept ==
  ASSUME DrainInv, NEW src \in Sources
  PROVE  Kept(Flow(src), EventsOf(src)) = KeptAlong(src)
<1>1. KeepsAll(fanned, parser.hand, raw, source[src].hand, source[src].left, EventsOf(src))
  BY PlacesTyped, KeptOfFlow
<1>. QED  BY <1>1 DEF KeepsAll, Flow, KeptAlong

\* A step that leaves all places as they are.
LEMMA StillFlows ==
  ASSUME FlowInv, fanned' = fanned, raw' = raw, parser'.hand = parser.hand,
         parser'.state # "aborted" => parser.state # "aborted",
         \A src \in Sources : /\ source'[src].hand = source[src].hand
                              /\ source'[src].left = source[src].left
  PROVE  FlowInv'
BY DEF FlowInv, OwnInv, EventsFlowInOrder, Flow, EventsOf

\* A step keeps the order when what each source's places keep stays the same.
LEMMA FlowsOn ==
  ASSUME DrainInv, DrainInv', FlowInv, OwnInv', parser.state # "aborted",
         \A src \in Sources : KeptAlong(src)' = KeptAlong(src)
  PROVE  FlowInv'
<1>1. ASSUME NEW src \in Sources
      PROVE  Kept(Flow(src)', EventsOf(src)) = Kept(Lines[src], EventsOf(src))
  <2>1. Kept(Flow(src), EventsOf(src)) = KeptAlong(src)
    BY FlowKept
  <2>2. Kept(Flow(src)', EventsOf(src)) = KeptAlong(src)'
    <3>1. (DrainInv => Kept(Flow(src), EventsOf(src)) = KeptAlong(src))'
      BY FlowKept, PTL
    <3>. QED  BY <3>1 DEF EventsOf
  <2>. QED  BY <2>1, <2>2 DEF FlowInv, EventsFlowInOrder
<1>. QED  BY <1>1 DEF FlowInv, EventsFlowInOrder, EventsOf

\* What the places keep are sequences.
LEMMA KeptTyped ==
  ASSUME DrainInv, NEW src \in Sources, NEW these
  PROVE  /\ Kept(fanned, these) \in Seq(Item) /\ Kept(parser.hand, these) \in Seq(Item)
         /\ Kept(raw, these) \in Seq(Item) /\ Kept(source[src].hand, these) \in Seq(Item)
         /\ Kept(source[src].left, these) \in Seq(Item)
BY PlacesTyped, KeptIsSeq

\* Nothing in front, or behind, changes nothing.
LEMMA JoinsNone ==
  ASSUME NEW S, NEW s \in Seq(S)
  PROVE  << >> \o s = s /\ s \o << >> = s
BY ConcatEmptySeq

\* A hand with one line.
LEMMA HandOfOne ==
  ASSUME NEW S, NEW h \in Seq(S), Len(h) = 1
  PROVE  h = <<h[1]>> /\ h[1] \in S /\ Range(h) = {h[1]}
<1>1. h[1] \in S
  <2>1. 1 \in 1 .. Len(h)
    OBVIOUS
  <2>. QED  BY <2>1, ElementOfSeq
<1>2. h = <<h[1]>>
  <2>1. <<h[1]>> \in Seq(S) /\ Len(<<h[1]>>) = 1 /\ <<h[1]>>[1] = h[1]
    BY <1>1
  <2>2. \A i \in 1 .. Len(h) : h[i] = <<h[1]>>[i]
    BY <1>1, <2>1
  <2>. QED  BY <2>1, <2>2, SeqEqual
<1>. QED  BY <1>1, <1>2, RangeOfOne

\* A line goes from the rest of a source into its hand.
LEMMA ReadLineFlows ==
  ASSUME DrainInv, DrainInv', FlowInv, NEW src \in Sources, ReadLine(src) PROVE FlowInv'
<1>1. /\ source[src] \in SourceRec /\ source \in [Sources -> SourceRec]
      /\ source[src].state = "reading" /\ source[src].hand = << >>
      /\ source[src].left # << >> /\ source[src].left \in Seq(Line)
  BY DEF DrainInv, TypeOK, SourceRec, SourceInv, ReadLine, Reads
<1>2. /\ UNCHANGED <<fanned, raw, parser>>
      /\ source'[src].left = Tail(source[src].left)
      /\ source'[src].hand = <<Head(source[src].left)>>
      /\ \A q \in Sources \ {src} : source'[q] = source[q]
  BY <1>1 DEF ReadLine, sinkVars
<1>3. OwnInv'
  <2>1. Range(source[src].left) = {Head(source[src].left)} \cup Range(Tail(source[src].left))
    BY <1>1, RangeOfTail
  <2>2. Range(source'[src].hand) = {Head(source[src].left)}
    BY <1>2, RangeOfOne
  <2>. QED  BY <1>2, <2>1, <2>2 DEF FlowInv, OwnInv
<1>4. ASSUME parser.state # "aborted" PROVE FlowInv'
  <2>1. ASSUME NEW q \in Sources PROVE KeptAlong(q)' = KeptAlong(q)
    <3>1. CASE q = src
      <4>. DEFINE K(s) == Kept(s, EventsOf(src))
      <4>1. K(source[src].left) = K(<<Head(source[src].left)>>) \o K(Tail(source[src].left))
        BY <1>1, KeptOfHead
      <4>2. K(source[src].hand) \o K(source[src].left) = K(source[src].left)
        BY <1>1, KeptOfNone, KeptIsSeq, JoinsNone
      <4>3. K(source'[src].hand) \o K(source'[src].left) = K(source[src].hand) \o K(source[src].left)
        BY <1>2, <4>1, <4>2
      <4>. QED  BY <1>2, <3>1, <4>3 DEF KeptAlong, EventsOf
    <3>2. CASE q # src
      BY <1>2, <3>2 DEF KeptAlong, EventsOf
    <3>. QED  BY <3>1, <3>2
  <2>. QED  BY <1>3, <1>4, <2>1, FlowsOn
<1>. QED  BY <1>2, <1>3, <1>4 DEF FlowInv, EventsFlowInOrder

\* The line in a source's hand is none of another source's events.
LEMMA HandIsItsOwn ==
  ASSUME DrainInv, OwnInv, NEW src \in Sources, source[src].state = "sending",
         NEW q \in Sources, q # src
  PROVE  Kept(source[src].hand, EventsOf(q)) = << >>
<1>1. source[src].hand \in Seq(Line) /\ Len(source[src].hand) = 1
  BY DEF DrainInv, TypeOK, SourceInv
<1>. PICK x : x = source[src].hand[1]
  OBVIOUS
<1>2. source[src].hand = <<x>> /\ Range(source[src].hand) = {x}
  BY <1>1, HandOfOne
<1>3. x \in Range(Lines[src])
  BY <1>2 DEF OwnInv
<1>4. x \notin EventsOf(q)
  BY <1>3, PipelineAssumption DEF EventsOf
<1>. QED  BY <1>2, <1>4, KeptOfOne

\* The line in hand goes to the end of the channel.
LEMMA SendLineFlows ==
  ASSUME DrainInv, DrainInv', FlowInv, NEW src \in Sources, SendLine(src) PROVE FlowInv'
<1>1. /\ source[src] \in SourceRec /\ source \in [Sources -> SourceRec]
      /\ source[src].state = "sending" /\ parser.state # "aborted"
      /\ source[src].hand \in Seq(Line) /\ source[src].left \in Seq(Line) /\ raw \in Seq(Line)
  BY DEF DrainInv, TypeOK, SourceRec, SendLine, ParserEnded
<1>2. /\ UNCHANGED <<fanned, parser>> /\ raw' = raw \o source[src].hand
      /\ source'[src].left = source[src].left
      /\ source'[src].hand = << >>
      /\ \A q \in Sources \ {src} : source'[q] = source[q]
  BY <1>1 DEF SendLine, sinkVars, SourceRec
<1>3. OwnInv'
  BY <1>2, RangeOfOne DEF FlowInv, OwnInv
<1>4. ASSUME NEW q \in Sources PROVE KeptAlong(q)' = KeptAlong(q)
  <2>. DEFINE K(s) == Kept(s, EventsOf(q))
  <2>1. K(raw') = K(raw) \o K(source[src].hand)
    <3>1. KeepsBoth(raw, source[src].hand, EventsOf(q))
      BY <1>1, KeptOfJoin
    <3>. QED  BY <1>2, <3>1 DEF KeepsBoth
  <2>2. /\ K(raw) \in Seq(Line) /\ K(source[src].hand) \in Seq(Line)
        /\ K(source[src].left) \in Seq(Line)
    BY <1>1, KeptIsSeq
  <2>3. CASE q = src
    <3>1. Regroups(K(raw), K(source[src].hand), K(source[src].left))
      BY <2>2, JoinsRegroup
    <3>2. K(source'[src].hand) \o K(source'[src].left) = K(source[src].left)
      BY <1>2, <2>2, KeptOfNone, JoinsNone
    <3>3. K(raw') \o (K(source'[src].hand) \o K(source'[src].left))
            = K(raw) \o (K(source[src].hand) \o K(source[src].left))
      BY <2>1, <3>1, <3>2 DEF Regroups
    <3>. QED  BY <1>2, <2>3, <3>3 DEF KeptAlong, EventsOf
  <2>4. CASE q # src
    <3>1. K(source[src].hand) = << >>
      BY <1>1, <2>4, HandIsItsOwn DEF FlowInv
    <3>2. K(raw') = K(raw)
      BY <2>1, <2>2, <3>1, JoinsNone
    <3>. QED  BY <1>2, <2>4, <3>2 DEF KeptAlong, EventsOf
  <2>. QED  BY <2>3, <2>4
<1>. QED  BY <1>1, <1>3, <1>4, FlowsOn

\* A line goes from the head of the channel into the parser's hand.
LEMMA TakeLineFlows ==
  ASSUME DrainInv, DrainInv', FlowInv, TakeLine PROVE FlowInv'
<1>1. /\ parser \in ParserRec /\ parser.state = "idle" /\ parser.hand = << >>
      /\ raw \in Seq(Line) /\ raw # << >> /\ <<Head(raw)>> \in Seq(Line) /\ Tail(raw) \in Seq(Line)
  BY DEF DrainInv, TypeOK, ParserRec, ParserInv, TakeLine, Polls
<1>2. /\ UNCHANGED <<fanned, source>> /\ raw' = Tail(raw) /\ parser'.hand = <<Head(raw)>>
  BY <1>1 DEF TakeLine, ParserRec, sinkVars
<1>3. OwnInv'
  BY <1>2 DEF FlowInv, OwnInv
<1>4. ASSUME NEW q \in Sources PROVE KeptAlong(q)' = KeptAlong(q)
  <2>. DEFINE K(s) == Kept(s, EventsOf(q))
              Rest == K(source[q].hand) \o K(source[q].left)
  <2>1. K(raw) = K(<<Head(raw)>>) \o K(Tail(raw))
    BY <1>1, KeptOfHead
  <2>2. /\ K(<<Head(raw)>>) \in Seq(Line) /\ K(Tail(raw)) \in Seq(Line) /\ K(raw) \in Seq(Line)
        /\ K(source[q].hand) \in Seq(Line) /\ K(source[q].left) \in Seq(Line)
    <3>1. source[q].hand \in Seq(Line) /\ source[q].left \in Seq(Line)
      BY DEF DrainInv, TypeOK
    <3>. QED  BY <1>1, <3>1, KeptIsSeq
  <2>3. Rest \in Seq(Line)
    BY <2>2
  <2>4. K(raw) \o Rest \in Seq(Line)
    <3>. HIDE DEF Rest
    <3>. QED  BY <2>2, <2>3
  <2>5. Regroups(K(<<Head(raw)>>), K(Tail(raw)), Rest)
    <3>. HIDE DEF Rest, K
    <3>. QED  BY <2>2, <2>3, JoinsRegroup
  <2>6. K(parser.hand) \o (K(raw) \o Rest) = K(raw) \o Rest
    <3>1. K(parser.hand) = << >>
      BY <1>1, KeptOfNone
    <3>. HIDE DEF Rest, K
    <3>. QED  BY <2>4, <3>1, JoinsNone
  <2>7. K(parser'.hand) \o (K(raw') \o Rest) = K(parser.hand) \o (K(raw) \o Rest)
    <3>. HIDE DEF Rest
    <3>. QED  BY <1>2, <2>1, <2>5, <2>6 DEF Regroups
  <2>. QED  BY <1>2, <2>7 DEF KeptAlong, EventsOf
<1>. QED  BY <1>1, <1>3, <1>4, FlowsOn

\* The event in the parser's hand is fanned out.
LEMMA ProcessOneFlows ==
  ASSUME DrainInv, DrainInv', FlowInv, ProcessOne PROVE FlowInv'
<1>1. /\ parser \in ParserRec /\ parser.state = "busy" /\ parser.hand \in Seq(Line)
      /\ Len(parser.hand) = 1 /\ fanned \in Seq(Event)
  BY DEF DrainInv, TypeOK, HistoryOK, ParserRec, ParserInv, ProcessOne
<1>. PICK x : x = parser.hand[1]
  OBVIOUS
<1>2. parser.hand = <<x>> /\ x \in Line
  BY <1>1, HandOfOne
<1>3. /\ UNCHANGED <<raw, source>> /\ parser'.hand = << >>
      /\ IF x \in Event THEN fanned' = Append(fanned, x) ELSE fanned' = fanned
  BY DEF ProcessOne, ParserGoes, FanOut, sinkVars
<1>4. OwnInv'
  BY <1>3 DEF FlowInv, OwnInv
<1>5. ASSUME NEW q \in Sources PROVE KeptAlong(q)' = KeptAlong(q)
  <2>. DEFINE K(s) == Kept(s, EventsOf(q))
              Rest == K(raw) \o (K(source[q].hand) \o K(source[q].left))
  <2>1. Rest \in Seq(Line)
    <3>1. source[q].hand \in Seq(Line) /\ source[q].left \in Seq(Line) /\ raw \in Seq(Line)
      BY DEF DrainInv, TypeOK
    <3>2. K(raw) \in Seq(Line) /\ K(source[q].hand) \in Seq(Line) /\ K(source[q].left) \in Seq(Line)
      BY <3>1, KeptIsSeq
    <3>3. K(source[q].hand) \o K(source[q].left) \in Seq(Line)
      BY <3>2
    <3>. HIDE DEF K
    <3>. QED  BY <3>2, <3>3
  <2>2. K(fanned) \in Seq(Item) /\ Rest \in Seq(Item) /\ K(<<x>>) \in Seq(Item)
    <3>1. Rest \in Seq(Item)
      BY <2>1, SeqWidens DEF Item
    <3>2. <<x>> \in Seq(Item)
      BY <1>2 DEF Item
    <3>. QED  BY <3>1, <3>2, KeptTyped, KeptIsSeq
  <2>3. K(fanned') = K(fanned) \o K(<<x>>)
    <3>1. CASE x \in Event
      <4>1. fanned' = fanned \o <<x>>
        BY <1>1, <1>3, <3>1, AppendIsConcat
      <4>2. <<x>> \in Seq(Event)
        BY <3>1
      <4>3. KeepsBoth(fanned, <<x>>, EventsOf(q))
        BY <1>1, <4>2, KeptOfJoin
      <4>. QED  BY <4>1, <4>3 DEF KeepsBoth
    <3>2. CASE x \notin Event
      <4>1. x \notin EventsOf(q)
        BY <3>2 DEF EventsOf
      <4>2. K(<<x>>) = << >>
        BY <4>1, KeptOfOne
      <4>. QED  BY <1>3, <2>2, <3>2, <4>2, JoinsNone
    <3>. QED  BY <3>1, <3>2
  <2>4. Regroups(K(fanned), K(<<x>>), Rest)
    <3>. HIDE DEF K, Rest
    <3>. QED  BY <2>2, JoinsRegroup
  <2>5. K(parser'.hand) \o Rest = Rest
    <3>1. K(parser'.hand) = << >>
      BY <1>3, KeptOfNone
    <3>. HIDE DEF K, Rest
    <3>. QED  BY <2>1, <3>1, JoinsNone
  <2>6. K(fanned') \o (K(parser'.hand) \o Rest) = K(fanned) \o (K(parser.hand) \o Rest)
    <3>. HIDE DEF Rest
    <3>. QED  BY <1>2, <2>3, <2>4, <2>5 DEF Regroups
  <2>. QED  BY <1>3, <2>6 DEF KeptAlong, EventsOf
<1>. QED  BY <1>1, <1>4, <1>5, FlowsOn

\* Every step of a source.
LEMMA SourceFlows ==
  ASSUME DrainInv, DrainInv', FlowInv, NEW src \in Sources, SourceStep(src) \/ ReadFails(src)
  PROVE  FlowInv'
<1>1. ASSUME NEW state, SourceGoes(src, state) PROVE FlowInv'
  <2>1. source \in [Sources -> SourceRec]
    BY DEF DrainInv, TypeOK, SourceRec
  <2>2. /\ UNCHANGED <<sinkVars, raw, parser>>
        /\ source' = [source EXCEPT ![src].state = state]
    BY <1>1 DEF SourceGoes
  <2>3. \A q \in Sources : /\ source'[q].hand = source[q].hand
                           /\ source'[q].left = source[q].left
    BY <2>1, <2>2 DEF SourceRec
  <2>. QED  BY <2>2, <2>3, StillFlows DEF sinkVars
<1>. QED  BY <1>1, ReadLineFlows, SendLineFlows
          DEF SourceStep, SendFails, Eof, ReadFails, SourceStop, SourceEnds, AbortSource

\* Every step of the parser.
LEMMA ParserFlows ==
  ASSUME DrainInv, DrainInv', FlowInv, ParserStep PROVE FlowInv'
<1>1. ASSUME NEW state, NEW exit, ParserGoes(state, exit), parser.hand = << >>,
             parser.state # "aborted", fanned' = fanned
      PROVE  FlowInv'
  BY <1>1, StillFlows DEF ParserGoes
<1>2. CASE ParserHearsStop \/ ParserSeesEnd \/ ParserDropsSenders \/ ParserFinishes
  <2>1. parser.hand = << >> /\ parser.state # "aborted"
    BY <1>2 DEF DrainInv, ParserInv, ParserHearsStop, ParserSeesEnd, Polls, ParserDropsSenders,
       ParserFinishes
  <2>2. fanned' = fanned
    BY <1>2 DEF ParserHearsStop, ParserSeesEnd, ParserDropsSenders, DropSenders, ParserFinishes,
       sinkVars
  <2>. QED  BY <1>1, <1>2, <2>1, <2>2
            DEF ParserHearsStop, ParserSeesEnd, ParserDropsSenders, ParserFinishes
<1>3. CASE AbortParser
  <2>1. parser'.state = "aborted" /\ source' = source
    BY <1>3 DEF AbortParser, ParserGoes
  <2>. QED  BY <2>1 DEF FlowInv, OwnInv, EventsFlowInOrder
<1>. QED  BY <1>2, <1>3, TakeLineFlows, ProcessOneFlows DEF ParserStep

\* No other step moves a line.
LEMMA OthersFlow ==
  ASSUME RunInv, DrainInv, FlowInv,
         \/ Supervisor \/ Shutdown \/ UNCHANGED vars
         \/ \E s \in Subs : SinkStep(s)
  PROVE  FlowInv'
<1>1. UNCHANGED <<fanned, raw, parser, source>>
  <2>1. CASE Supervisor
    BY <2>1, SupervisorGoesOn DEF sinkVars
  <2>2. CASE Shutdown
    BY <2>2 DEF Shutdown, Broadcast, sinkVars
  <2>3. CASE UNCHANGED vars
    BY <2>3 DEF vars, sinkVars, taskVars
  <2>4. ASSUME NEW s \in Subs, SinkStep(s) PROVE UNCHANGED <<fanned, raw, parser, source>>
    BY <2>4 DEF SinkStep, RunSink, Receive, InputClosed, SinkShutdown, AbortSink, Leave, Attempt,
       Retry, taskVars
  <2>. QED  BY <2>1, <2>2, <2>3, <2>4
<1>. QED  BY <1>1, StillFlows

\* At first everything is still to be read.
LEMMA InitFlows == Init => FlowInv
<1>. SUFFICES ASSUME Init PROVE FlowInv
  OBVIOUS
<1>1. /\ fanned = << >> /\ raw = << >> /\ parser.hand = << >>
      /\ \A src \in Sources : source[src].hand = << >> /\ source[src].left = Lines[src]
  BY DEF Init, SinkInit
<1>2. ASSUME NEW src \in Sources PROVE Flow(src) = Lines[src]
  <2>1. Lines[src] \in Seq(Line)
    BY PipelineAssumption
  <2>2. << >> \o << >> = << >> /\ << >> \o Lines[src] = Lines[src]
    <3>1. << >> \in Seq(Line)
      OBVIOUS
    <3>. QED  BY <2>1, <3>1, JoinsNone
  <2>. QED  BY <1>1, <2>2 DEF Flow
<1>. QED  BY <1>1, <1>2, RangeOfOne DEF FlowInv, OwnInv, EventsFlowInOrder

\* The audit events of every source flow in their order from the source to the fan-out,
\* and none goes missing on the way or is fanned out twice, whatever the sources, their
\* lines and the capacities, until an aborted parser takes what it had with it
\* (pipeline.rs:129-155, stdin.rs:52-98).
THEOREM EventsStayInOrder == Spec => []EventsFlowInOrder
<1>1. RunInv /\ DrainInv /\ DrainInv' /\ FlowInv /\ [Next]_vars => FlowInv'
  BY SourceFlows, ParserFlows, OthersFlow DEF Next
<1>2. FlowInv => EventsFlowInOrder
  BY DEF FlowInv
<1>. QED  BY <1>1, <1>2, InitFlows, RunInvHolds, DrainInvHolds, PTL DEF Spec
=============================================================================
