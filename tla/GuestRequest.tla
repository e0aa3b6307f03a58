---------------------------- MODULE GuestRequest ----------------------------
(***************************************************************************)
(* One pooled http-wasm guest serving one request after another: entry.rs   *)
(* `handle_request` / `inspect` with the lazily built plugin state, the     *)
(* body loop of BodyDrain, the detectors, the decision of Policy, the audit *)
(* line and the answer to the host.                                        *)
(*                                                                         *)
(* A guest is single threaded and shares nothing with the other guests of   *)
(* the pool, so one guest is enough here; state that lives across requests  *)
(* (the rate limiter) has a module of its own.  What the detectors report   *)
(* for a request is an input.  The panic arm of `handle_request` is         *)
(* unreachable in the shipped guest (panic = abort) and is left out.        *)
(***************************************************************************)
EXTENDS BodyDrain, PluginConfig, FiniteSets, Functions

CONSTANTS
  WireConfigs,   \* the Middleware configurations operators write
  Findings       \* what the four detectors may report, per group

Verdict == [group : Group, rule : STRING, severity : Severity]

ASSUME GuestAssumption ==
  /\ WireConfigs \subseteq WireConfig
  /\ Findings \subseteq [Group -> Seq(Verdict)]
  /\ \A f \in Findings, g \in Group :
        \A i \in 1 .. Len(f[g]) : f[g][i].group = g
  /\ \A w \in WireConfigs : EffectiveConfig(w).cap \in ReadLimits

VARIABLES
  wire,         \* the text the host returns from get_config
  hostBuffers,  \* whether the host grants FEATURE_BUFFER_REQUEST
  plugin,       \* STATE: << >> until the first request, then <<config>>
  phase,        \* how far the current request is
  findings,     \* what the detectors reported for it
  audit,        \* audit lines logged for it
  response,     \* << >> or <<status>>: what write_response sent
  next          \* the value handle_request returned: "continue" or "stop"

guestVars == <<wire, hostBuffers, plugin, phase, findings, audit, response, next>>
vars == <<drainVars, guestVars>>

NoFindings == [g \in Group |-> << >>]

AuditLine == [action     : {"allow", "block"},
              blockedBy  : Seq(Verdict),
              wouldBlock : Seq(Verdict),
              truncated  : BOOLEAN,
              fallback   : BOOLEAN]

RequestTypeOK ==
  /\ DrainTypeOK
  /\ wire \in WireConfig
  /\ hostBuffers \in BOOLEAN
  /\ plugin \in Seq(Config) /\ Len(plugin) <= 1
  /\ phase \in {"idle", "reading", "inspecting", "answered"}
  /\ findings \in [Group -> Seq(Verdict)]
  /\ response \in {<< >>, <<403>>}
  /\ next \in {"none", "continue", "stop"}

TypeOK == RequestTypeOK /\ audit \in Seq(AuditLine)

Init ==
  /\ DrainInit
  /\ wire \in WireConfigs
  /\ hostBuffers \in BOOLEAN
  /\ plugin = << >>
  /\ phase = "idle"
  /\ findings = NoFindings
  /\ audit = << >> /\ response = << >> /\ next = "none"

cfg == plugin[1]

Forward == phase' = "answered" /\ next' = "continue" /\ UNCHANGED response
Stop403 == phase' = "answered" /\ next' = "stop" /\ response' = <<403>>

\* get_or_init: the configuration is read and parsed once per guest.
Loaded == IF plugin = << >> THEN EffectiveConfig(wire) ELSE cfg

\* A request arrives and the host can buffer: the body loop starts.
HandleRequest(b) ==
  /\ phase = "idle"
  /\ hostBuffers
  /\ plugin' = <<Loaded>>
  /\ BeginDrain(b, Loaded.cap, Loaded.overCap = "pass")
  /\ phase' = "reading"
  /\ UNCHANGED <<wire, hostBuffers, findings, audit, response, next>>

\* BufferingUnsupported: nothing has been touched, so failMode decides.
HandleUnbufferable(b) ==
  /\ phase = "idle"
  /\ ~hostBuffers
  /\ plugin' = <<Loaded>>
  /\ body' = b
  /\ IF Loaded.failMode = "failOpen" THEN Forward ELSE Stop403
  /\ UNCHANGED <<limit, keepGoing, drain, pos, written, out, emptyReads, exceeded,
                 wire, hostBuffers, findings, audit>>

ReadBody ==
  /\ phase = "reading"
  /\ DrainStep
  /\ UNCHANGED guestVars

\* StreamStalled or HostContractViolation: forwarding is no longer safe.
RejectBrokenBody ==
  /\ phase = "reading"
  /\ drain \in {"stalled", "violation"}
  /\ Stop403
  /\ UNCHANGED <<drainVars, wire, hostBuffers, plugin, findings, audit>>

RejectOverCap ==
  /\ phase = "reading"
  /\ drain = "ok"
  /\ exceeded /\ cfg.overCap = "block"
  /\ Stop403
  /\ UNCHANGED <<drainVars, wire, hostBuffers, plugin, findings, audit>>

AcceptBody ==
  /\ phase = "reading"
  /\ drain = "ok"
  /\ ~(exceeded /\ cfg.overCap = "block")
  /\ phase' = "inspecting"
  /\ UNCHANGED <<drainVars, wire, hostBuffers, plugin, findings, audit, response, next>>

NoteworthyVerdicts(d) == d.blockedBy # << >> \/ d.wouldBlock # << >>   \* mutant
Noteworthy(d) == d.blockedBy # << >> \/ d.wouldBlock # << >> \/ cfg.fallback

\* The detectors report f; decide, log, answer.
Inspect(f) ==
  LET verdicts == Collect(f, EnabledGroups(cfg))
      d        == Decide(verdicts, cfg.mode, cfg.modes)
  IN  /\ phase = "inspecting"
      /\ findings' = f
      /\ audit' = IF Noteworthy(d)
                  THEN Append(audit, [action     |-> d.action,
                                      blockedBy  |-> d.blockedBy,
                                      wouldBlock |-> d.wouldBlock,
                                      truncated  |-> exceeded,
                                      fallback   |-> cfg.fallback])
                  ELSE audit
      /\ IF d.action = "block" THEN Stop403 ELSE Forward
      /\ UNCHANGED <<drainVars, wire, hostBuffers, plugin>>

\* The guest goes back to the pool; the per-request locals are gone.
NextRequest ==
  /\ phase = "answered"
  /\ phase' = "idle"
  /\ body' = << >> /\ limit' = 0 /\ keepGoing' = FALSE
  /\ drain' = "idle"
  /\ pos' = 0 /\ written' = << >> /\ out' = << >>
  /\ emptyReads' = 0 /\ exceeded' = FALSE
  /\ findings' = NoFindings
  /\ audit' = << >> /\ response' = << >> /\ next' = "none"
  /\ UNCHANGED <<wire, hostBuffers, plugin>>

Next ==
  \/ \E b \in Bodies : HandleRequest(b) \/ HandleUnbufferable(b)
  \/ ReadBody
  \/ RejectBrokenBody
  \/ RejectOverCap
  \/ AcceptBody
  \/ \E f \in Findings : Inspect(f)
  \/ NextRequest

\* The guest runs to completion once called (a host call that returns is one
\* step); nothing obliges a client to send a request.
Guest ==
  \/ ReadBody \/ RejectBrokenBody \/ RejectOverCap \/ AcceptBody
  \/ \E f \in Findings : Inspect(f)

Spec     == Init /\ [][Next]_vars
FairSpec == Spec /\ WF_vars(Guest)

-----------------------------------------------------------------------------
(* The inductive invariant: the loop's own, and how the phases of a request *)
(* follow it.                                                              *)

PhaseInv ==
  /\ phase = "idle" => drain = "idle" /\ next = "none"
  /\ phase = "reading" => drain # "idle" /\ next = "none"
  /\ phase = "inspecting" =>
       /\ drain = "ok" /\ ~(exceeded /\ cfg.overCap = "block")
       /\ next = "none"
  /\ phase # "idle" => Len(plugin) = 1
  /\ drain # "idle" => /\ Len(plugin) = 1
                       /\ keepGoing <=> cfg.overCap = "pass"

ConfigInv ==
  Len(plugin) = 1 /\ cfg.fallback =>
    /\ cfg.failMode = "failOpen" /\ cfg.mode = "monitor" /\ cfg.overCap = "pass"

ForwardInv ==
  next = "continue" => /\ phase = "answered"
                       /\ \/ drain = "idle"
                          \/ drain = "ok" /\ pos = Len(body)

IInv == DrainInv /\ PhaseInv /\ ConfigInv /\ ForwardInv

-----------------------------------------------------------------------------
(* Properties.                                                             *)

Answered == phase = "answered"
Inspected == Answered /\ drain = "ok" /\ ~(exceeded /\ cfg.overCap = "block")
Reported == Collect(findings, EnabledGroups(cfg))

\* A request the guest lets through reaches the backend with the body the
\* client sent, whatever the chunking, the inspection cap and the number of
\* empty reads (host.rs drain_body, forwarding_is_safe).
ForwardedIntact == next = "continue" => Downstream = body

\* Detectors see exactly the first `limit` bytes of the body, and the request
\* is marked truncated exactly when it is longer (host.rs drain_body,
\* entry.rs body_inspected / with_truncated_body).
InspectsExactPrefix ==
  phase = "inspecting" =>
    /\ out = SubSeq(body, 1, Least(Len(body), limit))
    /\ exceeded <=> Len(body) > limit

\* With overCap = block the loop never pulls more than one buffer beyond the
\* limit before it gives up (host.rs, "returns immediately").
BoundedOverread ==
  phase # "idle" /\ drain # "idle" /\ ~keepGoing => pos <= limit + Scratch

\* Whatever an enforcing group found stops the request: no ordering of the
\* other verdicts and no other group's mode lets it through (policy.rs decide).
EnforcedFindingsStop ==
  Inspected /\ cfg.mode = "enforce" =>
    \A g \in Group : cfg.modes[g] = "enforce" /\ findings[g] # << >> => next = "stop"

\* A rejected configuration never turns the guest into a blocker: under the
\* fallback the only 403 is for a body that could not be put back together
\* (entry.rs state, config.rs parse).
FallbackFailsOpen ==
  Answered /\ cfg.fallback /\ next = "stop" => drain \in {"stalled", "violation"}

\* Of the verdicts of the enabled groups none is dropped and none is reported
\* twice: the audit line carries each exactly once, as the blocking rule or
\* among the others (policy.rs decide, swap_remove; THREAT_MODEL.md 4.4).
NoDetectionLost ==
  Inspected /\ Reported # << >> =>
    /\ Len(audit) = 1
    /\ LET told == audit[1].blockedBy \o audit[1].wouldBlock
       IN  /\ Len(told) = Len(Reported)
           /\ \A i \in DOMAIN Reported :
                 Cardinality({j \in DOMAIN told : told[j] = Reported[i]}) =
                 Cardinality({j \in DOMAIN Reported : Reported[j] = Reported[i]})

GroupIndex(g) == CHOOSE i \in DOMAIN GroupOrder : GroupOrder[i] = g

\* The rule a block is attributed to is the most severe enforced one; between
\* equals, the one of the first group in detector order (THREAT_MODEL.md 4.4,
\* entry.rs engine, detectors/mod.rs inspect, policy.rs decide).
NamesTheWorst ==
  \A line \in Range(audit) : line.blockedBy # << >> =>
    LET b == line.blockedBy[1]
    IN  \A v \in Range(Reported) : Enforces(v, cfg.mode, cfg.modes) =>
          \/ Rank[v.severity] < Rank[b.severity]
          \/ /\ Rank[v.severity] = Rank[b.severity]
             /\ GroupIndex(b.group) <= GroupIndex(v.group)

\* The audit line is true: there is at most one, its action is what happened
\* to the request, and its truncation mark tells whether bytes of the body went
\* uninspected; a guest on the fallback announces it on every inspected request
\* (audit.rs AuditEntry, entry.rs inspect).
AuditIsTrue ==
  Answered =>
    /\ Len(audit) <= 1
    /\ \A line \in Range(audit) :
         /\ line.action = "block" <=> next = "stop"
         /\ line.truncated <=> Len(body) > Len(out)
    /\ Inspected /\ cfg.fallback => Len(audit) = 1 /\ audit[1].fallback

\* Every request that a guest takes is answered: a host that keeps returning
\* empty reads cannot hang it (host.rs MAX_EMPTY_READS).
EveryRequestAnswered == phase # "idle" ~> Answered

\* What a guest says of its decision is so, on every path through the handler:
\* no verdict is lost, the block is attributed to the worst rule, and the audit
\* line tells what happened (policy.rs decide, audit.rs, entry.rs inspect).
DecisionIsTrue ==
  /\ TypeOK
  /\ NoDetectionLost
  /\ NamesTheWorst
  /\ AuditIsTrue
=============================================================================
