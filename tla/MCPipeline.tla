------------------------------ MODULE MCPipeline ------------------------------
(* Small instances of Pipeline for TLC.                                     *)
EXTENDS Pipeline

TwoEvents == {"e1", "e2"}

\* One source with an end, two events and a line that is none; two subscribers,
\* one of which is retried.
OneSource      == {"stdin"}
ThreeLines     == [src \in OneSource |-> <<"other", "e1", "e2">>]
TwoSubs        == {"siem", "pager"}
SomeMatch      == [e \in TwoEvents |-> IF e = "e1" THEN {"siem"} ELSE TwoSubs]
OneRetry       == [s \in TwoSubs |-> IF s = "siem" THEN 2 ELSE 1]
RetriedOrTaken == {"2xx", "429"}
AlwaysRetried  == {"429"}

\* Two sources: one with an end, which may fail before it, and one that is
\* tailed for ever; their lines mix in the channel.
TwoSources  == {"stdin", "log"}
ThreeEvents == {"e1", "e2", "e3"}
TwoLines    == [src \in TwoSources |-> IF src = "stdin" THEN <<"e1", "e2">> ELSE <<"e3">>]
OneSub      == {"siem"}
StdinMatch  == [e \in ThreeEvents |-> IF e = "e3" THEN {} ELSE OneSub]
NoRetry     == [s \in OneSub |-> 1]
AlwaysTaken == {"2xx"}

\* A bound of the instance: of all receivers only the supervisor's may miss the
\* broadcast in the middle of a poll.
MostlyPromptNext ==
  /\ Next
  /\ stop' # stop =>
       /\ \A r \in Receivers \ {"run"} : hears'[r] # "missed"
       /\ \A s \in Subs : heard'[s] # "missed"

MostlyPromptSpec == Init /\ [][MostlyPromptNext]_vars /\ Fairness
=============================================================================
