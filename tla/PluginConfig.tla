---------------------------- MODULE PluginConfig ----------------------------
(***************************************************************************)
(* What the guest makes of the Middleware configuration: config.rs `parse` *)
(* (range checks, clamping, group defaults) and the fallback of entry.rs   *)
(* `state`.                                                                *)
(*                                                                         *)
(* A wire configuration is abstracted to the fields the request path reads. *)
(* `wellFormed` stands for everything that is only a matter of syntax: the  *)
(* serde schema (unknown fields, lenient numbers) and the label limits.     *)
(* `groups` is a partial function: a group the operator left out is not in  *)
(* its domain.                                                             *)
(***************************************************************************)
EXTENDS Policy

CONSTANT MaxAlloc       \* host.rs MAX_ALLOC, the guest allocation ceiling

ASSUME MaxAllocAssumption == MaxAlloc \in Nat \ {0}

GroupConfig == [enabled : BOOLEAN, mode : GroupMode]

WireConfig ==
  [wellFormed      : BOOLEAN,
   mode            : Mode,
   failMode        : {"failOpen", "failClosed"},
   maxInspectBytes : Nat,
   overCap         : {"pass", "block"},
   perSecond       : Nat,
   groups          : UNION {[S -> GroupConfig] : S \in SUBSET Group}]

\* core::Config as the request path uses it, with the effective group modes.
Config ==
  [mode     : Mode,
   failMode : {"failOpen", "failClosed"},
   cap      : Nat,
   overCap  : {"pass", "block"},
   modes    : [Group -> GroupMode],
   fallback : BOOLEAN]

DefaultGroup ==
  [g \in Group |->
    CASE g \in {"injection", "signatures"} -> [enabled |-> TRUE,  mode |-> "enforce"]
      [] g = "structural"                  -> [enabled |-> TRUE,  mode |-> "monitor"]
      [] g = "reputation"                  -> [enabled |-> FALSE, mode |-> "monitor"]]

EffectiveGroupMode(gc) == IF gc.enabled THEN gc.mode ELSE "off"

SmallerOf(a, b) == IF a <= b THEN a ELSE b

Rejected(wire) == \/ ~wire.wellFormed
                  \/ wire.perSecond = 0
                  \/ wire.maxInspectBytes = 0

Adopted(wire) ==
  [mode     |-> wire.mode,
   failMode |-> wire.failMode,
   cap      |-> SmallerOf(wire.maxInspectBytes, MaxAlloc),
   overCap  |-> wire.overCap,
   modes    |-> [g \in Group |->
                   EffectiveGroupMode(IF g \in DOMAIN wire.groups
                                      THEN wire.groups[g] ELSE DefaultGroup[g])],
   fallback |-> FALSE]

CONSTANT FallbackCap    \* the 1 MiB literal of the fallback configuration

ASSUME FallbackCapAssumption == FallbackCap \in Nat \ {0}

\* mutant: a bad configuration fails closed
FallbackClosed ==
  [mode |-> "monitor", failMode |-> "failClosed", cap |-> FallbackCap, overCap |-> "pass",
   modes |-> [g \in Group |-> "monitor"], fallback |-> TRUE]

\* Every group in monitor, whatever failMode the rejected text asked for.
FallbackConfig ==
  [mode     |-> "monitor",
   failMode |-> "failOpen",
   cap      |-> FallbackCap,
   overCap  |-> "pass",
   modes    |-> [g \in Group |-> "monitor"],
   fallback |-> TRUE]

EffectiveConfig(wire) == IF Rejected(wire) THEN FallbackConfig ELSE Adopted(wire)

\* mutant: the detectors are built from the defaults, not from the configuration
EnabledByDefault(config) == {g \in Group : config.modes[g] # "off" /\ DefaultGroup[g].enabled}

\* entry.rs: only the groups that are not off get a detector.
EnabledGroups(config) == {g \in Group : config.modes[g] # "off"}
=============================================================================
