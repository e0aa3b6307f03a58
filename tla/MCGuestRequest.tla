--------------------------- MODULE MCGuestRequest ---------------------------
(* Small instances of GuestRequest for TLC.                                *)
EXTENDS GuestRequest

\* Bodies of every length up to 4; the bytes are their own positions, so a
\* lost, repeated or swapped byte is visible.
MCByte   == 1 .. 4
MCBodies == {[i \in 1 .. n |-> i] : n \in 0 .. 4}

V(g, r, s) == [group |-> g, rule |-> r, severity |-> s]

MCFindings ==
  [Group -> {<< >>}] \cup
  {[g \in Group |-> CASE g = "injection"  -> inj
                      [] g = "signatures" -> sig
                      [] g = "structural" -> str
                      [] g = "reputation" -> rep] :
     inj \in {<< >>, <<V("injection", "sqli", "critical"), V("injection", "xss", "high")>>},
     sig \in {<< >>, <<V("signatures", "traversal", "high"),
                       V("signatures", "rce", "critical")>>},
     str \in {<< >>, <<V("structural", "method", "medium")>>},
     rep \in {<< >>, <<V("reputation", "ip_denied", "high"),
                       V("reputation", "rate_limited", "medium")>>}}

Base == [wellFormed |-> TRUE, mode |-> "enforce", failMode |-> "failOpen",
         maxInspectBytes |-> 2, overCap |-> "pass", perSecond |-> 1,
         groups |-> << >>]

\* Group tables: what the operator left out falls back to the defaults.
MCGroups ==
  {[g \in {} |-> [enabled |-> TRUE, mode |-> "monitor"]],
   [g \in Group |-> [enabled |-> TRUE, mode |-> "enforce"]],
   [g \in {"signatures", "reputation"} |->
      IF g = "reputation" THEN [enabled |-> TRUE, mode |-> "enforce"]
                          ELSE [enabled |-> FALSE, mode |-> "enforce"]],
   [g \in {"injection"} |-> [enabled |-> TRUE, mode |-> "off"]]}

\* Every combination of mode, failMode and overCap with the group tables, plus
\* the three reasons for which parse rejects, and a cap above MaxAlloc.
MCWireConfigs ==
  {[Base EXCEPT !.mode = m, !.failMode = f, !.overCap = o, !.groups = g] :
     m \in Mode, f \in {"failOpen", "failClosed"}, o \in {"pass", "block"},
     g \in MCGroups}
  \cup {[Base EXCEPT !.maxInspectBytes = c, !.overCap = o, !.failMode = "failClosed",
                     !.wellFormed = w, !.perSecond = p] :
          c \in {0, 1, 4}, o \in {"pass", "block"}, w \in BOOLEAN, p \in {0, 1}}

MCReadLimits == 1 .. 3
=============================================================================
