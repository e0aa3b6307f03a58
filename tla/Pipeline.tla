------------------------------- MODULE Pipeline -------------------------------
(***************************************************************************)
(* The relay's task graph, pipeline.rs `run`: source tasks feed one bounded  *)
(* channel, the parser task takes lines from it and fans events out to the   *)
(* sinks of module Sink, and a supervisor joins them all.                   *)
(*                                                                         *)
(* Every task is a process of its own: the runtime has several threads, so   *)
(* between any two steps of one task the others may run, in the middle of a   *)
(* poll too.  A `biased` select looks at the shutdown first: a task that was  *)
(* past that branch when the broadcast came may take one more of the others   *)
(* ("missed", module Sink).  The supervisor's join branches come in no order  *)
(* here, as a task may end while a poll is already past its branch.         *)
(* Parsing and enrichment are one step of the parser that takes as long as it *)
(* likes; a line stands for what parse_line makes of it: an event, or none.   *)
(***************************************************************************)
EXTENDS Sink, Picks

CONSTANTS
  Sources,  \* configured sources
  Lines,    \* what there is to read from each source
  Finite,   \* sources with an end (stdin); the others are tailed for ever
  Failing,  \* sources whose reads may fail
  RawCap    \* SOURCE_CHANNEL_CAP

Line == UNION {{Lines[src][i] : i \in DOMAIN Lines[src]} : src \in Sources}

ASSUME PipelineAssumption ==
  /\ \A src \in Sources : Lines[src] \in Seq(Line)
  /\ Finite \subseteq Sources /\ Failing \subseteq Sources
  /\ Sources \cap Subs = {}
  \* An event stands for its envelope, and so for the one line it was made of.
  /\ \A one, other \in Sources :
       one # other => Range(Lines[one]) \cap Range(Lines[other]) \cap Event = {}
  /\ RawCap \in Nat \ {0}

VARIABLES
  stop,         \* the shutdown broadcast was sent
  hears,        \* what the receivers of the sources, "parser" and "run" have got
  source,       \* state, lines left and line in hand of each source task
  raw,          \* the channel between the sources and the parser
  parser,       \* the parser task
  phase,        \* where `run` is
  outcome,      \* its result so far
  exhausted,    \* sources_exhausted
  parserJoined, \* parser_finished
  joined,       \* sources and sinks the supervisor has joined
  ready,        \* the pwrelay_ready gauge
  cancelled     \* task groups abort was called for

taskVars == <<stop, hears, source, raw, parser>>
runVars  == <<phase, outcome, exhausted, parserJoined, joined, ready, cancelled>>
vars     == <<sinkVars, taskVars, runVars>>

Receivers == Sources \cup {"parser", "run"}
SourceEnded == {"ended", "failed", "aborted"}
ParserEnded == {"finished", "aborted"}

TypeOK ==
  /\ SinkTypeOK
  /\ stop \in BOOLEAN
  /\ hears \in [Receivers -> Hearing]
  /\ source \in [Sources ->
       [state : {"reading", "sending", "closing", "failing"} \cup SourceEnded,
        left : Seq(Line), hand : Seq(Line)]]
  /\ raw \in Seq(Line) /\ Len(raw) <= RawCap
  /\ parser \in [state : {"idle", "busy", "leaving", "dropped"} \cup ParserEnded,
                 hand : Seq(Line), exit : {"none", "Shutdown", "SourcesClosed"}]
  /\ phase \in {"spawnSinks", "spawnSources", "spawnParser", "supervise", "stopping",
                "drainSources", "drainParser", "drainSinks", "stopped"}
  /\ outcome \in {"none", "ok", "err"}
  /\ exhausted \in BOOLEAN /\ parserJoined \in BOOLEAN /\ ready \in BOOLEAN
  /\ joined \subseteq Sources \cup Subs
  /\ cancelled \subseteq {"sources", "parser", "sinks"}

Init ==
  /\ SinkInit
  /\ stop = FALSE /\ hears = [r \in Receivers |-> "no"]
  /\ source = [src \in Sources |-> [state |-> "reading", left |-> Lines[src],
                                    hand |-> << >>]]
  /\ raw = << >>
  /\ parser = [state |-> "idle", hand |-> << >>, exit |-> "none"]
  /\ phase = "spawnSinks" /\ outcome = "none"
  /\ exhausted = FALSE /\ parserJoined = FALSE /\ joined = {} /\ ready = FALSE
  /\ cancelled = {}

SinksUp   == phase # "spawnSinks"
SourcesUp == phase \notin {"spawnSinks", "spawnSources"}
ParserUp  == phase \notin {"spawnSinks", "spawnSources", "spawnParser"}

Up(r) == IF r = "run" THEN TRUE ELSE IF r = "parser" THEN ParserUp ELSE SourcesUp

\* The receivers that wait in their select, and may be in the middle of a poll.
Polling(r) ==
  CASE r = "run"    -> phase = "supervise"
    [] r = "parser" -> parser.state = "idle"
    [] OTHER        -> source[r].state = "reading"

\* What the send leaves with receiver r: one made later by resubscribe() holds
\* only what is sent after it was made.
HearsAfterSend(r) ==
  IF ~Up(r) THEN {"no"} ELSE IF Polling(r) THEN {"missed", "yes"} ELSE {"yes"}

\* lib.rs sends the broadcast: a signal came or the admin server stopped.
Shutdown ==
  /\ ~stop
  /\ stop' = TRUE
  /\ IF SinksUp THEN Broadcast ELSE UNCHANGED sinkVars
  /\ \E h \in [Receivers -> Hearing] :
       /\ \A r \in Receivers : h[r] \in HearsAfterSend(r)
       /\ hears' = h
  /\ UNCHANGED <<source, raw, parser, runVars>>

\* A poll of receiver r's select in which the shutdown branch was not ready.
PollsPast(r) ==
  /\ hears[r] # "yes"
  /\ hears' = [hears EXCEPT ![r] = AfterPoll(@)]

SpawnSinks ==
  /\ phase = "spawnSinks"
  /\ phase' = "spawnSources"
  /\ UNCHANGED <<sinkVars, taskVars, outcome, exhausted, parserJoined, joined, ready,
                 cancelled>>

SpawnSources ==
  /\ phase = "spawnSources"
  /\ phase' = "spawnParser"
  /\ ready' = TRUE
  /\ UNCHANGED <<sinkVars, taskVars, outcome, exhausted, parserJoined, joined, cancelled>>

SpawnParser ==
  /\ phase = "spawnParser"
  /\ phase' = "supervise"
  /\ UNCHANGED <<sinkVars, taskVars, outcome, exhausted, parserJoined, joined, ready,
                 cancelled>>

-----------------------------------------------------------------------------
(* Source tasks: stdin.rs run_reader; log_tail.rs has the same control and   *)
(* no end of file.                                                         *)

Reads(src) == SourcesUp /\ source[src].state = "reading" /\ PollsPast(src)

SourceGoes(src, state) ==
  /\ source' = [source EXCEPT ![src].state = state]
  /\ UNCHANGED <<sinkVars, stop, raw, parser, runVars>>

ReadLine(src) ==
  /\ Reads(src)
  /\ source[src].left # << >>
  /\ source' = [source EXCEPT ![src] = [state |-> "sending", left |-> Tail(@.left),
                                        hand |-> <<Head(@.left)>>]]
  /\ UNCHANGED <<sinkVars, stop, raw, parser, runVars>>

\* mutant: a line that finds the channel full is dropped
SendLineOrDrop(src) ==
  /\ source[src].state = "sending"
  /\ parser.state \notin ParserEnded
  /\ raw' = IF Len(raw) < RawCap THEN raw \o source[src].hand ELSE raw
  /\ source' = [source EXCEPT ![src].state = "reading", ![src].hand = << >>]
  /\ UNCHANGED <<sinkVars, stop, hears, parser, runVars>>

\* tx.send waits for room: it is no branch of the select.
SendLine(src) ==
  /\ source[src].state = "sending"
  /\ parser.state \notin ParserEnded
  /\ Len(raw) < RawCap
  /\ raw' = raw \o source[src].hand
  /\ source' = [source EXCEPT ![src].state = "reading", ![src].hand = << >>]
  /\ UNCHANGED <<sinkVars, stop, hears, parser, runVars>>

SendFails(src) ==
  /\ source[src].state = "sending"
  /\ parser.state \in ParserEnded
  /\ SourceGoes(src, "closing")
  /\ UNCHANGED hears

Eof(src) ==
  /\ Reads(src)
  /\ source[src].left = << >>
  /\ src \in Finite
  /\ SourceGoes(src, "closing")

ReadFails(src) ==
  /\ Reads(src)
  /\ src \in Failing
  /\ SourceGoes(src, "failing")

SourceStop(src) ==
  /\ source[src].state = "reading"
  /\ hears[src] # "no"
  /\ SourceGoes(src, "closing")
  /\ UNCHANGED hears

\* The task returns after its sender was dropped.
SourceEnds(src) ==
  /\ source[src].state \in {"closing", "failing"}
  /\ SourceGoes(src, IF source[src].state = "closing" THEN "ended" ELSE "failed")
  /\ UNCHANGED hears

\* abort() reaches the task: it is dropped where it waits, and its sender too.
AbortSource(src) ==
  /\ "sources" \in cancelled
  /\ source[src].state \notin SourceEnded
  /\ SourceGoes(src, "aborted")
  /\ UNCHANGED hears

SourceStep(src) ==
  \/ ReadLine(src) \/ SendLine(src) \/ SendFails(src) \/ Eof(src)
  \/ SourceStop(src) \/ SourceEnds(src) \/ AbortSource(src)

RawClosed ==
  SourcesUp /\ \A src \in Sources :
                 source[src].state \in {"closing", "failing"} \cup SourceEnded

-----------------------------------------------------------------------------
(* The parser task.                                                        *)

Polls == ParserUp /\ parser.state = "idle" /\ PollsPast("parser")

ParserGoes(state, exit) ==
  /\ parser' = [state |-> state, hand |-> << >>, exit |-> exit]
  /\ UNCHANGED <<stop, source, raw, runVars>>

TakeLine ==
  /\ Polls
  /\ raw # << >>
  /\ raw' = Tail(raw)
  /\ parser' = [parser EXCEPT !.state = "busy", !.hand = <<Head(raw)>>]
  /\ UNCHANGED <<sinkVars, stop, source, runVars>>

\* mutant: the fan-out waits for room
ProcessOneWaits ==
  /\ parser.state = "busy"
  /\ IF parser.hand[1] \in Event
     THEN /\ \A s \in Matches[parser.hand[1]] : TryRoom(s)
          /\ FanOut(parser.hand[1])
     ELSE UNCHANGED sinkVars
  /\ ParserGoes("idle", "none")
  /\ UNCHANGED hears

\* process_one: a line that is no audit event is counted and dropped.
ProcessOne ==
  /\ parser.state = "busy"
  /\ IF parser.hand[1] \in Event THEN FanOut(parser.hand[1]) ELSE UNCHANGED sinkVars
  /\ ParserGoes("idle", "none")
  /\ UNCHANGED hears

ParserHearsStop ==
  /\ ParserUp
  /\ parser.state = "idle"
  /\ hears["parser"] # "no"
  /\ ParserGoes("leaving", "Shutdown")
  /\ UNCHANGED <<sinkVars, hears>>

\* mutant: the loop is left as soon as the sources are gone
RawDrainedTooEarly == RawClosed

RawDrained == RawClosed /\ raw = << >>

ParserSeesEnd ==
  /\ Polls
  /\ RawDrained
  /\ ParserGoes("leaving", "SourcesClosed")
  /\ UNCHANGED sinkVars

\* drop(subs) ...
ParserDropsSenders ==
  /\ parser.state = "leaving"
  /\ DropSenders
  /\ ParserGoes("dropped", parser.exit)
  /\ UNCHANGED hears

\* ... and only later the task is finished, and its receiver gone.
ParserFinishes ==
  /\ parser.state = "dropped"
  /\ ParserGoes("finished", parser.exit)
  /\ UNCHANGED <<sinkVars, hears>>

\* The senders are dropped with the task.
AbortParser ==
  /\ "parser" \in cancelled
  /\ parser.state \notin ParserEnded
  /\ IF senders THEN DropSenders ELSE UNCHANGED sinkVars
  /\ ParserGoes("aborted", parser.exit)
  /\ UNCHANGED hears

ParserStep ==
  \/ TakeLine \/ ProcessOne \/ ParserHearsStop \/ ParserSeesEnd
  \/ ParserDropsSenders \/ ParserFinishes \/ AbortParser

-----------------------------------------------------------------------------
(* The supervisor: the select loop, then the teardown.                      *)

Breaks(result) == phase' = "stopping" /\ outcome' = result

HearStop ==
  /\ phase = "supervise"
  /\ hears["run"] # "no"
  /\ Breaks("ok")
  /\ UNCHANGED <<sinkVars, taskVars, exhausted, parserJoined, joined, ready, cancelled>>

Joins == phase = "supervise" /\ PollsPast("run")

\* mutant: a failed source is only logged
JoinSourceLogged(src) ==
  /\ Joins
  /\ source[src].state \in SourceEnded /\ src \notin joined
  /\ joined' = joined \cup {src}
  /\ UNCHANGED <<sinkVars, stop, source, raw, parser, phase, outcome, exhausted,
                 parserJoined, ready, cancelled>>

JoinSource(src) ==
  /\ Joins
  /\ source[src].state \in SourceEnded /\ src \notin joined
  /\ joined' = joined \cup {src}
  /\ IF source[src].state = "failed" THEN Breaks("err") ELSE UNCHANGED <<phase, outcome>>
  /\ UNCHANGED <<sinkVars, stop, source, raw, parser, exhausted, parserJoined, ready,
                 cancelled>>

\* A sink that ended while the parser has not finished is an error.
JoinSink(s) ==
  /\ Joins
  /\ task[s] \in Ended /\ s \notin joined
  /\ joined' = joined \cup {s}
  /\ IF parser.state = "finished" THEN UNCHANGED <<phase, outcome>> ELSE Breaks("err")
  /\ UNCHANGED <<sinkVars, stop, source, raw, parser, exhausted, parserJoined, ready,
                 cancelled>>

JoinParser ==
  /\ Joins
  /\ parser.state = "finished"
  /\ parserJoined' = TRUE
  /\ exhausted' = (parser.exit = "SourcesClosed")
  /\ Breaks("ok")
  /\ UNCHANGED <<sinkVars, stop, source, raw, parser, joined, ready, cancelled>>

\* mutant: the gauge is left on while the tasks are drained
BeginTeardownReady ==
  /\ phase = "stopping"
  /\ phase' = "drainSources"
  /\ cancelled' = IF outcome = "err" THEN {"sources", "parser", "sinks"} ELSE {}
  /\ UNCHANGED <<sinkVars, taskVars, outcome, exhausted, parserJoined, joined, ready>>

\* After the loop: not ready any more, and after an error every task is aborted.
BeginTeardown ==
  /\ phase = "stopping"
  /\ phase' = "drainSources"
  /\ ready' = FALSE
  /\ cancelled' = IF outcome = "err" THEN {"sources", "parser", "sinks"} ELSE {}
  /\ UNCHANGED <<sinkVars, taskVars, outcome, exhausted, parserJoined, joined>>

\* mutant: what the drained sources returned is not looked at
WorstIgnored(failed) == outcome

\* A failure found while draining replaces an ok.
Worst(failed) == IF failed THEN "err" ELSE outcome

\* TASK_SHUTDOWN_TIMEOUT passes while a group of tasks is drained.
TimesOut(group) ==
  /\ cancelled' = cancelled \cup {group}
  /\ outcome' = "err"
  /\ UNCHANGED <<sinkVars, taskVars, phase, exhausted, parserJoined, joined, ready>>

DrainSources ==
  /\ phase = "drainSources"
  /\ \A src \in Sources : source[src].state \in SourceEnded
  /\ outcome' = Worst(\E src \in Sources \ joined : source[src].state = "failed")
  /\ joined' = joined \cup Sources
  /\ phase' = "drainParser"
  /\ UNCHANGED <<sinkVars, taskVars, exhausted, parserJoined, ready, cancelled>>

DrainSourcesTimeout ==
  /\ phase = "drainSources"
  /\ "sources" \notin cancelled
  /\ \E src \in Sources : source[src].state \notin SourceEnded
  /\ TimesOut("sources")

DrainParser ==
  /\ phase = "drainParser"
  /\ parser.state \in ParserEnded
  /\ phase' = "drainSinks"
  /\ parserJoined' = TRUE
  /\ UNCHANGED <<sinkVars, taskVars, outcome, exhausted, joined, ready, cancelled>>

DrainParserTimeout ==
  /\ phase = "drainParser"
  /\ "parser" \notin cancelled
  /\ parser.state \notin ParserEnded
  /\ TimesOut("parser")

DrainSinks ==
  /\ phase = "drainSinks"
  /\ Running = {}
  /\ joined' = joined \cup Subs
  /\ phase' = "stopped"
  /\ UNCHANGED <<sinkVars, taskVars, outcome, exhausted, parserJoined, ready, cancelled>>

\* mutant: the drain after the end of the sources is timed as well
UntimedNever == FALSE

\* The sinks finish their deliveries untimed only after the sources ended well.
Untimed == exhausted /\ outcome = "ok"

\* mutant: the aborted sinks are not awaited
DrainSinksTimeoutReturns ==
  /\ phase = "drainSinks"
  /\ "sinks" \notin cancelled
  /\ Running # {}
  /\ ~Untimed
  /\ cancelled' = cancelled \cup {"sinks"} /\ outcome' = "err"
  /\ phase' = "stopped"
  /\ UNCHANGED <<sinkVars, taskVars, exhausted, parserJoined, joined, ready>>

DrainSinksTimeout ==
  /\ phase = "drainSinks"
  /\ "sinks" \notin cancelled
  /\ Running # {}
  /\ ~Untimed
  /\ TimesOut("sinks")

Supervisor ==
  \/ SpawnSinks \/ SpawnSources \/ SpawnParser
  \/ HearStop
  \/ \E src \in Sources : JoinSource(src)
  \/ \E s \in Subs : JoinSink(s)
  \/ JoinParser
  \/ BeginTeardown
  \/ DrainSources \/ DrainSourcesTimeout
  \/ DrainParser \/ DrainParserTimeout
  \/ DrainSinks \/ DrainSinksTimeout

SinkStep(s) ==
  /\ RunSink(s) \/ ("sinks" \in cancelled /\ AbortSink(s))
  /\ UNCHANGED <<taskVars, runVars>>

Next ==
  \/ Shutdown
  \/ \E src \in Sources : SourceStep(src) \/ ReadFails(src)
  \/ ParserStep
  \/ \E s \in Subs : SinkStep(s)
  \/ Supervisor

Spec == Init /\ [][Next]_vars

\* The runtime runs every task that can go on; an enrichment ends in its
\* timeout, and TASK_SHUTDOWN_TIMEOUT passes.  Nothing obliges a signal to come, a
\* read to fail or a sink to go on.
Fairness ==
  /\ WF_vars(Supervisor)
  /\ WF_vars(ParserStep)
  /\ \A src \in Sources : WF_vars(SourceStep(src))

\* A POST ends in a response or its timeout, and a backoff passes.
SinksGoOn == \A s \in Subs : WF_vars(SinkStep(s))

-----------------------------------------------------------------------------
(* Safety.                                                                 *)

\* run returns only when every task it spawned has ended and readiness is off:
\* no detached source, parser or sink is left behind (pipeline.rs:222-295).
NothingLeftRunning ==
  phase = "stopped" =>
    /\ \A src \in Sources : source[src].state \in SourceEnded
    /\ parser.state \in ParserEnded
    /\ Running = {}
    /\ ~ready

\* A source that failed makes the run fail, whatever else ended at the same
\* time (pipeline.rs:162-188 and 297-314).
FailureIsReported ==
  phase = "stopped" /\ (\E src \in Sources : source[src].state = "failed") =>
    outcome = "err"

\* An ok without a shutdown means a complete drain: every line was read, every
\* event fanned out, every accepted envelope settled (pipeline.rs:269-277).
OkMeansDrained ==
  phase = "stopped" /\ outcome = "ok" /\ ~stop =>
    /\ \A src \in Sources : source[src].left = << >>
    /\ FannedOut = Line \cap Event
    /\ \A s \in Subs : Backlog(s) = 0 /\ discarded[s] = 0

\* What run returns is true: nothing it spawned is left, a failure is told, and
\* an ok without a shutdown is a complete drain (pipeline.rs:162-314).
EndIsTrue ==
  /\ TypeOK
  /\ NothingLeftRunning
  /\ FailureIsReported
  /\ OkMeansDrained

EventsOf(src) == Range(Lines[src]) \cap Event

\* What has been fanned out, what is on its way, and what is still to be read.
Flow(src) == fanned \o parser.hand \o raw \o source[src].hand \o source[src].left

\* The audit events of a source flow in order and none goes missing on the way:
\* those fanned out, in the parser's hand, in the channel, in the source's hand
\* and still to be read are all there were.  What has not been fanned out when
\* the parser is aborted is lost (pipeline.rs:129-155, stdin.rs:52-98).
EventsFlowInOrder ==
  parser.state # "aborted" =>
    \A src \in Sources :
      Kept(Flow(src), EventsOf(src)) = Kept(Lines[src], EventsOf(src))

\* When the sources were read to their end, the sinks are given all the time
\* their deliveries take: from then on nothing cuts them off or turns the run
\* into a failure (pipeline.rs:269-277).
PatientDrain ==
  [][phase = "drainSinks" /\ exhausted /\ outcome = "ok" =>
       cancelled' = {} /\ outcome' = "ok"]_vars

Stage ==
  CASE phase \in {"spawnSinks", "spawnSources"}           -> "building"
    [] phase \in {"spawnParser", "supervise", "stopping"} -> "running"
    [] phase = "stopped"                                  -> "ended"
    [] OTHER                                              -> "closing"

Task == INSTANCE PipelineTask
          WITH told <- stop, stage <- Stage, ready <- ready, result <- outcome

\* The pipeline is the task lib.rs supervises: it is ready from the spawned sources
\* to the first step of its teardown and never again, its result is decided before
\* the teardown, where it can only become an error, and it returns once
\* (pipeline.rs:120-122, 168-222 and 235-295).
ImplementsTask == Task!TaskSpec

\* "Normal source completion (stdin EOF) is not an error" (pipeline.rs:164-165):
\* with no signal and every source at its end, the select loop does not break
\* with an error.
EofIsNotAnError ==
  phase = "stopping" /\ ~stop /\ (\A src \in Sources : source[src].state = "ended")
    => outcome = "ok"

-----------------------------------------------------------------------------
(* Liveness.                                                               *)

\* The pipeline ends when it is told to, when a source fails and when all of
\* them have ended, if only every POST has an end; a failure used to leave it
\* waiting for the sources that are tailed for ever (pipeline.rs:162-165).
Stops ==
  SinksGoOn =>
    ((\/ stop
      \/ \E src \in Sources : source[src].state = "failed"
      \/ \A src \in Sources : source[src].state \in SourceEnded)
     ~> phase = "stopped")

\* A sink that never gets on holds nobody up: what a source sent is fanned out
\* all the same, unless the pipeline is ending (pipeline.rs:16-21).
FanOutNeverWaits ==
  \A e \in Event :
    (\E i \in DOMAIN raw : raw[i] = e)
      ~> (e \in FannedOut \/ stop \/ phase \notin {"spawnParser", "supervise"})
=============================================================================
