-------------------------------- MODULE MCSink --------------------------------
(* A small instance of Sink for TLC.                                       *)
EXTENDS Sink

\* One subscriber takes everything and retries once, the other never retries
\* and takes one event.
MCSubs        == {"siem", "pager"}
MCEvent       == 1 .. 3
MCMatches     == [e \in MCEvent |-> IF e = 2 THEN MCSubs ELSE {"siem"}]
MCMaxAttempts == [s \in MCSubs |-> IF s = "siem" THEN 2 ELSE 1]
MCResponses   == {"2xx", "429", "4xx"}
=============================================================================
