------------------------------- MODULE Policy -------------------------------
(***************************************************************************)
(* The decision rule of the WAF: policy.rs `decide`, over the verdicts that *)
(* detectors/mod.rs `Engine::inspect` collects.                            *)
(*                                                                         *)
(* A verdict is kept as its group, rule name and severity; the human        *)
(* readable detail is left out.  An optional value (Rust's Option) is a     *)
(* sequence of length at most one.                                         *)
(***************************************************************************)
EXTENDS Naturals, Sequences, Picks

\* Detector groups, in the order entry.rs constructs the detectors.
GroupOrder == <<"injection", "signatures", "structural", "reputation">>
Group      == {"injection", "signatures", "structural", "reputation"}
Mode       == {"enforce", "monitor"}
GroupMode  == {"enforce", "monitor", "off"}

Severity == {"low", "medium", "high", "critical"}
Rank == [s \in Severity |-> CASE s = "low"      -> 1
                              [] s = "medium"   -> 2
                              [] s = "high"     -> 3
                              [] s = "critical" -> 4]

\* Engine::inspect: run the detectors of the enabled groups in order and
\* concatenate what they report.
Collect(findings, enabled) ==
  LET Of(i) == IF GroupOrder[i] \in enabled THEN findings[GroupOrder[i]]
                                            ELSE << >>
  IN  Of(1) \o Of(2) \o Of(3) \o Of(4)

Enforces(v, global, modes) == global = "enforce" /\ modes[v.group] = "enforce"

\* The loop of `decide` that parts the verdicts.
EnforcedPool(verdicts, global, modes) ==
  Picked(verdicts, {i \in DOMAIN verdicts : Enforces(verdicts[i], global, modes)})

Observed(verdicts, global, modes) ==
  Picked(verdicts, {i \in DOMAIN verdicts : /\ modes[verdicts[i].group] # "off"
                                            /\ ~Enforces(verdicts[i], global, modes)})

\* mutant: the last of equally severe verdicts wins
WorstIndexLast(pool) ==
  CHOOSE i \in DOMAIN pool :
    /\ \A j \in DOMAIN pool : Rank[pool[j].severity] <= Rank[pool[i].severity]
    /\ \A j \in (i + 1) .. Len(pool) : Rank[pool[j].severity] < Rank[pool[i].severity]

\* The scan of `decide`: the first position of the highest severity.
WorstIndex(pool) ==
  CHOOSE i \in DOMAIN pool :
    /\ \A j \in DOMAIN pool : Rank[pool[j].severity] <= Rank[pool[i].severity]
    /\ \A j \in 1 .. (i - 1) : Rank[pool[j].severity] < Rank[pool[i].severity]

\* mutant: the last element is dropped instead of moved
SwapRemoveDrop(pool, i) == [j \in 1 .. (Len(pool) - 1) |-> pool[j]]

\* Vec::swap_remove: the last element takes the place of the removed one.
SwapRemove(pool, i) ==
  [j \in 1 .. (Len(pool) - 1) |-> IF j = i THEN pool[Len(pool)] ELSE pool[j]]

Decide(verdicts, global, modes) ==
  LET pool     == EnforcedPool(verdicts, global, modes)
      observed == Observed(verdicts, global, modes)
      worst    == WorstIndex(pool)
  IN  IF \A i \in DOMAIN verdicts : ~Enforces(verdicts[i], global, modes)
      THEN [action |-> "allow", blockedBy |-> << >>, wouldBlock |-> observed]
      ELSE [action     |-> "block",
            blockedBy  |-> <<pool[worst]>>,
            wouldBlock |-> observed \o SwapRemove(pool, worst)]
=============================================================================
