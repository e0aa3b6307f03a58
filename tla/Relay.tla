-------------------------------- MODULE Relay --------------------------------
(***************************************************************************)
(* The relay process, lib.rs `run` and main.rs: it loads and validates its    *)
(* configuration, starts the admin server and the pipeline, waits for a       *)
(* signal or for one of the two to end, tells the other to stop, joins both   *)
(* and turns what they returned into an exit status.  The pipeline is what    *)
(* PipelineTask promises of it.                                             *)
(***************************************************************************)
EXTENDS RelayConfig, Admin, PipelineTask

CONSTANTS
  Configs,   \* configuration files: what validate reads, loads, validateOnly, addrParses
  Requests   \* requests to the admin server: a path and an optional authorization

\* A reference to a secret: an environment variable or a file, and what it holds.
SecretRef == [found : BOOLEAN, text : Seq(STRING)]

\* Counts are unsigned, and what a file or a header holds is a text.
ASSUME ConfigsAssumption ==
  \A c \in Configs :
    /\ c.sources \in Nat /\ c.relay.subscriberQueue \in Nat
    /\ c.relay.tokenEnv \in Seq(SecretRef) /\ c.relay.tokenFile \in Seq(SecretRef)
    /\ \A i \in DOMAIN c.subscribers : c.subscribers[i].maxAttempts \in Nat

ASSUME RequestsAssumption ==
  \A req \in Requests : req.authorization # << >> =>
    req.authorization[1] \in [scheme : STRING, presented : Seq(STRING)]

VARIABLES
  cfg,      \* the configuration file of this run
  resolved, \* what validate returned, once the two tasks have been spawned
  proc,     \* where `run` is
  stop,     \* what the select returned
  signal,   \* SIGINT and SIGTERM: "default", "handled" (or "broken") and "arrived"
  admin,    \* the admin server's task
  conn,     \* a client has a connection to it, which outlives the accept loop
  answer,   \* the last answer: the request and its status
  exit      \* the process's status

vars == <<taskVars, cfg, resolved, proc, stop, signal, admin, conn, answer, exit>>

NoAnswer   == << >>
AdminEnded == {"stopped", "failed"}
Spawned    == proc \in {"supervising", "joining"}

Init ==
  /\ TaskInit
  /\ cfg \in Configs
  /\ resolved = << >> /\ proc = "starting" /\ stop = "none" /\ signal = "default"
  /\ admin = "none" /\ conn = FALSE /\ answer = NoAnswer /\ exit = "none"

Exit(status) == proc' = "exited" /\ exit' = status

\* From the command line to the two spawned tasks.
Start ==
  /\ proc = "starting"
  /\ LET valid == Resolve(cfg)
     IN  IF valid # << >> /\ ~cfg.validateOnly /\ cfg.addrParses
         THEN /\ proc' = "supervising" /\ resolved' = valid /\ admin' = "binding"
              /\ UNCHANGED exit
         ELSE /\ Exit(IF valid # << >> /\ cfg.validateOnly THEN "success" ELSE "failure")
              /\ UNCHANGED <<resolved, admin>>
  /\ UNCHANGED <<taskVars, cfg, stop, signal, conn, answer>>

-----------------------------------------------------------------------------
(* Signals.                                                                *)

\* mutant: a signal that comes before its handler waits for it
SignalWaits ==
  /\ proc # "exited" /\ signal = "default"
  /\ signal' = "arrived"
  /\ UNCHANGED <<taskVars, cfg, resolved, stop, admin, conn, answer, proc, exit>>

\* A signal: without its handler it kills the process, and after the select it is
\* not looked at any more.
SignalArrives ==
  /\ proc # "exited"
  /\ \/ signal \in {"default", "broken"} /\ Exit("killed") /\ UNCHANGED signal
     \/ signal = "handled" /\ proc = "supervising" /\ signal' = "arrived"
        /\ UNCHANGED <<proc, exit>>
  /\ UNCHANGED <<taskVars, cfg, resolved, stop, admin, conn, answer>>

\* The first poll of wait_for_signal, if the select gets to it.
InstallHandlers ==
  /\ proc = "supervising" /\ signal = "default"
  /\ signal' \in {"handled", "broken"}
  /\ UNCHANGED <<taskVars, cfg, resolved, proc, stop, admin, conn, answer, exit>>

-----------------------------------------------------------------------------
(* The admin server.                                                       *)

AdminGoes(state) ==
  /\ admin' = state
  /\ UNCHANGED <<taskVars, cfg, resolved, proc, stop, signal, conn, answer, exit>>

AdminBinds == Spawned /\ admin = "binding" /\ (AdminGoes("serving") \/ AdminGoes("failed"))

\* serve_listener: the shutdown first.
AdminHearsStop == Spawned /\ admin = "serving" /\ told /\ AdminGoes("stopped")

Connect ==
  /\ Spawned /\ admin = "serving" /\ ~conn
  /\ conn' = TRUE
  /\ UNCHANGED <<taskVars, cfg, resolved, proc, stop, signal, admin, answer, exit>>

AnswerRequest ==
  /\ Spawned /\ conn
  /\ \E req \in Requests :
       answer' = <<[req |-> req, status |-> route(req, resolved[1].adminToken, ready)]>>
  /\ UNCHANGED <<taskVars, cfg, resolved, proc, stop, signal, admin, conn, exit>>

-----------------------------------------------------------------------------
(* The pipeline's task, and the supervision of both.                        *)

Pipeline == /\ Spawned /\ TaskStep
            /\ UNCHANGED <<cfg, resolved, proc, stop, signal, admin, conn, exit>>
            /\ answer' = NoAnswer

Waiting == proc = "supervising"

\* The select returned; the broadcast is sent and the counterpart is joined.
Stops(why) ==
  /\ stop' = why /\ proc' = "joining"
  /\ Tell
  /\ answer' = NoAnswer
  /\ UNCHANGED <<cfg, resolved, signal, admin, conn, exit>>

StopBySignal   == Waiting /\ signal \in {"arrived", "broken"} /\ Stops("signal")
StopByAdmin    == Waiting /\ admin \in AdminEnded /\ Stops("admin")

\* mutant: the admin server is not told
StopByPipelineSilently ==
  /\ Waiting /\ stage = "ended"
  /\ stop' = "pipeline" /\ proc' = "joining"
  /\ answer' = NoAnswer
  /\ UNCHANGED <<taskVars, cfg, resolved, signal, admin, conn, exit>>

StopByPipeline == Waiting /\ stage = "ended" /\ Stops("pipeline")

\* mutant: the process that lost its admin server does not wait for the pipeline
JoinedOnlyTheAdmin == admin \in AdminEnded /\ (stop = "admin" \/ stage = "ended")

\* Both tasks have been joined, one of them in the select.
Joined == admin \in AdminEnded /\ stage = "ended"

\* mutant: the pipeline's end decides alone
OutcomeOfPipeline == result = "ok"

\* The errors that are passed on: of the signal handlers, the admin server and the
\* pipeline; an admin server that stopped by itself is an error in any case.
AllWell == signal # "broken" /\ admin = "stopped" /\ result = "ok" /\ stop # "admin"

Finish ==
  /\ proc = "joining" /\ Joined
  /\ Exit(IF AllWell THEN "success" ELSE "failure")
  /\ answer' = NoAnswer
  /\ UNCHANGED <<taskVars, cfg, resolved, stop, signal, admin, conn>>

Supervisor == Start \/ InstallHandlers \/ StopBySignal \/ StopByAdmin \/ StopByPipeline
              \/ Finish

Next == Supervisor \/ SignalArrives \/ AdminBinds \/ AdminHearsStop \/ Connect
        \/ AnswerRequest \/ Pipeline

Spec == Init /\ [][Next]_vars

\* The runtime goes on with every task; the pipeline's ends when it is told to
\* (Stops of Pipeline), and nothing obliges a signal or a request to come.
FairSpec ==
  /\ Spec
  /\ WF_vars(Supervisor) /\ WF_vars(AdminBinds) /\ WF_vars(AdminHearsStop)
  /\ WF_vars(Pipeline /\ StopsWhenTold)
-----------------------------------------------------------------------------
(* Properties.                                                             *)

\* The shape of the state: nothing runs before the configuration was accepted, and
\* a signal is seen only by an installed handler.
TypeOK ==
  /\ cfg \in Configs
  /\ proc \in {"starting", "supervising", "joining", "exited"}
  /\ stop \in {"none", "signal", "admin", "pipeline"}
  /\ exit \in {"none", "success", "failure", "killed"} /\ (exit # "none" <=> proc = "exited")
  /\ admin = "none" <=> resolved = << >>
  /\ resolved = << >> => stage = "building" /\ ~conn
  /\ signal \in {"default", "handled", "broken", "arrived"}
  /\ signal # "default" => resolved # << >>
  /\ answer # NoAnswer => conn

\* validate's contract with the rest of the relay, over every file: a pipeline is
\* started only with what Sink and Pipeline assume of their constants, and with a
\* secret for every subscriber (pipeline.rs:83-87 would fail without one).
StartedOnlyValid ==
  resolved # << >> =>
    LET subs == resolved[1].raw.subscribers
    IN  /\ cfg.loads /\ cfg.addrParses /\ ~cfg.validateOnly
        /\ resolved[1].raw.sources > 0 /\ resolved[1].raw.relay.subscriberQueue > 0
        /\ \A i \in DOMAIN subs :
             /\ subs[i].maxAttempts > 0 /\ subs[i].baseDelay <= subs[i].maxDelay
             /\ \E secret \in ToSet(resolved[1].secrets[i]) : secret # << >>
             /\ \A j \in DOMAIN subs : i # j => subs[i].id # subs[j].id

\* The admin token over its whole way from the file to an answer: with a token the
\* operator's data are given only to who presents it, letter by letter, and to nobody
\* when it is not all ASCII; probes are answered to everybody, and an operator who
\* configured none gets no 401.
DataGuarded ==
  answer # NoAnswer =>
    LET req     == answer[1].req
        refs    == cfg.relay.tokenEnv \o cfg.relay.tokenFile
        Trimmed == IF cfg.relay.tokenFile = << >> THEN refs[1].text ELSE TrimBoth(refs[1].text)
        shown   == /\ req.authorization # << >>
                   /\ req.authorization[1] = [scheme |-> "Bearer ", presented |-> Trimmed]
    IN  answer[1].status = 401 <=> /\ req.path \notin {"/healthz", "/readyz"}
                                   /\ refs # << >> /\ ~(shown /\ Ascii(Trimmed))

\* main.rs's exit status: success exactly when a configuration that was only to be
\* checked is valid, or both tasks ended well after a signal or at the end of the
\* sources.
ExitTellsTheTruth ==
  /\ exit = "success" =>
       \/ cfg.validateOnly /\ Resolve(cfg) # << >> /\ resolved = << >>
       \/ result = "ok" /\ admin = "stopped" /\ signal # "broken"
  /\ exit = "failure" /\ resolved # << >> =>
       result = "err" \/ admin = "failed" \/ signal = "broken"

\* "a signal or an unexpected task failure stops the counterpart" (lib.rs:41-44):
\* when run returns, the admin server and the pipeline have both ended and the
\* relay is not reported as ready.
NobodyLeftBehind ==
  exit \in {"success", "failure"} /\ resolved # << >> =>
    admin \in AdminEnded /\ stage = "ended" /\ ~ready

\* The same as a promise: after a signal, after the end of the pipeline and after
\* the end of the admin server the process exits.
StopsWithEither ==
  (signal \in {"arrived", "broken"} \/ stage = "ended" \/ admin \in AdminEnded) ~> proc = "exited"

\* The process's exit is true: its status tells how both tasks ended, and neither
\* of them is still running (lib.rs run, main.rs).
ExitIsTrue ==
  /\ TypeOK
  /\ ExitTellsTheTruth
  /\ NobodyLeftBehind
=============================================================================
