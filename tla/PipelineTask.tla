---------------------------- MODULE PipelineTask ----------------------------
(***************************************************************************)
(* What pipeline.rs `run` promises to the process around it, lib.rs `run`:   *)
(* the life of one task, whatever its sources, parser and sinks do inside.   *)
(* Pipeline implements it; Relay is built on it.                            *)
(***************************************************************************)
VARIABLES
  told,    \* the shutdown broadcast was sent
  stage,   \* where the task is
  ready,   \* the pwrelay_ready gauge, which /readyz reports
  result   \* what the task is going to return

taskVars == <<told, stage, ready, result>>

TaskInit == told = FALSE /\ stage = "building" /\ ready = FALSE /\ result = "none"

Tell == ~told /\ told' = TRUE /\ UNCHANGED <<stage, ready, result>>

\* A source or an enricher that cannot be built: the task returns without having been
\* ready.
BuildFails ==
  /\ stage = "building"
  /\ stage' = "ended" /\ result' = "err"
  /\ UNCHANGED <<told, ready>>

GetReady ==
  /\ stage = "building"
  /\ stage' = "running" /\ ready' = TRUE
  /\ UNCHANGED <<told, result>>

\* The shutdown was heard, the sources are exhausted or something failed.
Decide ==
  /\ stage = "running" /\ result = "none"
  /\ result' \in {"ok", "err"}
  /\ UNCHANGED <<told, stage, ready>>

Close ==
  /\ stage = "running" /\ result # "none"
  /\ stage' = "closing" /\ ready' = FALSE
  /\ UNCHANGED <<told, result>>

\* A failure or a timeout of the drain.
Worsen ==
  /\ stage = "closing"
  /\ result' = "err"
  /\ UNCHANGED <<told, stage, ready>>

End ==
  /\ stage = "closing"
  /\ stage' = "ended"
  /\ UNCHANGED <<told, ready, result>>

TaskStep == BuildFails \/ GetReady \/ Decide \/ Close \/ Worsen \/ End

TaskSpec == TaskInit /\ [][Tell \/ TaskStep]_taskVars

\* A task that was told to stop goes on until it has ended.
StopsWhenTold == GetReady \/ (told /\ Decide) \/ Close \/ End
=============================================================================
