------------------------- MODULE GuestRequest_proofs -------------------------
(***************************************************************************)
(* Proofs about GuestRequest, for every set of bodies, configurations and  *)
(* findings, every buffer size and every cap.                              *)
(***************************************************************************)
EXTENDS GuestRequest, Picks_proofs

-----------------------------------------------------------------------------
(* The configuration a guest runs with.                                    *)

\* Whatever text the operator wrote, the guest runs with a well-typed
\* configuration (config.rs parse, entry.rs state).
LEMMA EffectiveConfigType ==
  ASSUME NEW w \in WireConfig
  PROVE  EffectiveConfig(w) \in Config
<1>1. \A g \in Group : DefaultGroup[g] \in GroupConfig
  BY DEF DefaultGroup, Group, GroupConfig, GroupMode
<1>2. \A gc \in GroupConfig : EffectiveGroupMode(gc) \in GroupMode
  BY DEF EffectiveGroupMode, GroupConfig, GroupMode
<1>3. \A g \in DOMAIN w.groups : w.groups[g] \in GroupConfig
  BY DEF WireConfig
<1>4. SmallerOf(w.maxInspectBytes, MaxAlloc) \in Nat
  BY MaxAllocAssumption DEF SmallerOf, WireConfig
<1>5. Adopted(w) \in Config
  BY <1>1, <1>2, <1>3, <1>4 DEF Adopted, Config, WireConfig
<1>6. FallbackConfig \in Config
  BY FallbackCapAssumption DEF FallbackConfig, Config, Mode, GroupMode
<1>. QED  BY <1>5, <1>6 DEF EffectiveConfig

\* The fallback neither enforces nor fails closed; an adopted configuration
\* is not marked as the fallback.
LEMMA FallbackIsHarmless ==
  ASSUME NEW w \in WireConfig, EffectiveConfig(w).fallback
  PROVE  /\ EffectiveConfig(w).failMode = "failOpen"
         /\ EffectiveConfig(w).mode = "monitor"
         /\ EffectiveConfig(w).overCap = "pass"
BY DEF EffectiveConfig, Adopted, FallbackConfig

-----------------------------------------------------------------------------
(* Sequences: prefixes that grow by a chunk.                               *)

\* An optional value that is present is a sequence of one element.
LEMMA OptionValue ==
  ASSUME NEW S, NEW p \in Seq(S), Len(p) <= 1, p # << >>
  PROVE  Len(p) = 1 /\ p[1] \in S /\ p = <<p[1]>>
<1> DEFINE n == Len(p)
<1>1. n \in Nat \ {0} /\ n <= 1
  BY EmptySeq
<1>2. n = 1
  <2>. HIDE DEF n
  <2>. QED  BY <1>1
<1>3. p[1] \in S
  BY <1>2, ElementOfSeq
<1>4. <<p[1]>> \in Seq(S) /\ Len(<<p[1]>>) = 1 /\ <<p[1]>>[1] = p[1]
  BY <1>3
<1>. QED  BY <1>2, <1>3, <1>4, SeqEqual

\* A piece of a body is a sequence of bytes of the expected length.
LEMMA PrefixType ==
  ASSUME NEW b \in Seq(Byte), NEW p \in 0 .. Len(b), NEW q \in p .. Len(b)
  PROVE  /\ SubSeq(b, p + 1, q) \in Seq(Byte)
         /\ Len(SubSeq(b, p + 1, q)) = q - p
BY SubSeqProperties

\* The prefix of a chunk is a piece of the body.
LEMMA PrefixOfChunk ==
  ASSUME NEW b \in Seq(Byte), NEW p \in 0 .. Len(b), NEW n \in Nat,
         p + n <= Len(b), NEW t \in 0 .. n
  PROVE  SubSeq(SubSeq(b, p + 1, p + n), 1, t) = SubSeq(b, p + 1, p + t)
<1> DEFINE chunk == SubSeq(b, p + 1, p + n)
<1>1. chunk \in Seq(Byte)
  BY PrefixType
<1>2. CASE t = 0
  <2>1. SubSeq(chunk, 1, t) = << >> /\ SubSeq(b, p + 1, p + t) = << >>
    BY <1>2, SubSeqEmpty
  <2>. QED  BY <2>1
<1>3. CASE t > 0
  <2>1. /\ p + 1 \in 1 .. Len(b) /\ p + n \in 1 .. Len(b)
        /\ 1 \in 1 .. (p + n) - (p + 1) + 1
        /\ t \in 1 .. (p + n) - (p + 1) + 1
    BY <1>3
  <2>2. SubSeq(SubSeq(b, p + 1, p + n), 1, t) = SubSeq(b, (p + 1) + 1 - 1, (p + 1) + t - 1)
    BY <2>1, SubSeqOfSubSeq
  <2>. QED  BY <2>2
<1>. QED  BY <1>2, <1>3

-----------------------------------------------------------------------------
(* The body loop.                                                          *)

\* BeginDrain establishes the loop invariant.
LEMMA BeginDrainInv ==
  ASSUME NEW b \in Bodies, NEW max \in Nat, NEW keep \in BOOLEAN,
         BeginDrain(b, max, keep)
  PROVE  DrainTypeOK' /\ DrainInv'
<1>1. DrainTypeOK'
  <2>1. b \in Seq(Byte) /\ Len(b) \in Nat
    BY DrainAssumption, LenProperties
  <2>2. << >> \in Seq(Byte)
    OBVIOUS
  <2>3. body' \in Seq(Byte) /\ pos' \in 0 .. Len(body') /\ limit' \in Nat
    BY <2>1 DEF BeginDrain
  <2>4. written' \in Seq(Byte) /\ out' \in Seq(Byte)
    BY <2>2 DEF BeginDrain
  <2>5. emptyReads' \in 0 .. MaxEmptyReads /\ emptyReads' < MaxEmptyReads
    BY DrainAssumption DEF BeginDrain
  <2>6. keepGoing' \in BOOLEAN /\ exceeded' \in BOOLEAN /\ drain' = "reading"
    BY DEF BeginDrain
  <2>. QED  BY <2>3, <2>4, <2>5, <2>6 DEF DrainTypeOK
<1>2. SubSeq(b, 1, 0) = << >>
  BY SubSeqEmpty
<1>3. Least(0, max) = 0
  BY DEF Least
<1>4. DrainInv'
  BY <1>2, <1>3, DrainAssumption DEF BeginDrain, DrainInv, WrittenIsConsumed, RetainedPrefix,
     EarlyReturn, NotStarted
<1>. QED  BY <1>1, <1>4

\* A read that returned data keeps it.
LEMMA ReadChunkInv ==
  ASSUME DrainTypeOK, DrainInv,
         NEW n \in 1 .. Scratch, NEW eof \in BOOLEAN, ReadChunk(n, eof)
  PROVE  DrainTypeOK' /\ DrainInv'
<1> DEFINE chunk == SubSeq(body, pos + 1, pos + n)
           take  == Least(Room, n)
<1>1. /\ body \in Seq(Byte) /\ pos \in 0 .. Len(body) /\ pos + n \in pos .. Len(body)
      /\ limit \in Nat /\ n \in Nat /\ n >= 1
  BY DrainAssumption DEF DrainTypeOK, ReadChunk
<1>2. chunk \in Seq(Byte) /\ Len(chunk) = n
  BY <1>1, PrefixType
<1>3. out = SubSeq(body, 1, Least(pos, limit)) /\ Len(out) = Least(pos, limit)
  <2>1. Least(pos, limit) \in 0 .. Len(body)
    BY <1>1 DEF Least
  <2>2. Len(SubSeq(body, 0 + 1, Least(pos, limit))) = Least(pos, limit) - 0
    BY <1>1, <2>1, PrefixType
  <2>. QED  BY <2>1, <2>2 DEF DrainInv, RetainedPrefix
<1>4. /\ take \in 0 .. n
      /\ Least(pos, limit) + take = Least(pos + n, limit)
      /\ take > 0 => Least(pos, limit) = pos
      /\ Overflow(n) <=> pos + n > limit
  BY <1>1, <1>3 DEF Least, Room, Overflow
<1>5. written' = SubSeq(body, 1, pos + n)
  <2>1. written' = SubSeq(body, 1, pos) \o chunk
    BY DEF ReadChunk, Preserve, DrainInv, WrittenIsConsumed
  <2>2. SubSeq(body, 1, pos) \o SubSeq(body, pos + 1, pos + n) = SubSeq(body, 1, pos + n)
    BY <1>1, ConcatAdjacentSubSeq
  <2>. QED  BY <2>1, <2>2
<1>6. out' = SubSeq(body, 1, Least(pos + n, limit))
  <2>1. out' = out \o SubSeq(body, pos + 1, pos + take)
    <3>1. SubSeq(chunk, 1, take) = SubSeq(body, pos + 1, pos + take)
      BY <1>1, <1>4, PrefixOfChunk
    <3>. QED  BY <3>1 DEF ReadChunk
  <2>2. CASE take = 0
    <3>1. SubSeq(body, pos + 1, pos + take) = << >>
      BY <1>1, <2>2, SubSeqEmpty
    <3>2. out \in Seq(Byte)
      BY DEF DrainTypeOK
    <3>3. out' = out
      BY <2>1, <3>1, <3>2, ConcatEmptySeq
    <3>. QED  BY <1>1, <1>3, <1>4, <2>2, <3>3 DEF Least
  <2>3. CASE take > 0
    <3>1. out = SubSeq(body, 1, pos)
      BY <1>3, <1>4, <2>3
    <3>2. pos + take \in pos .. Len(body)
      BY <1>1, <1>4
    <3>3. SubSeq(body, 1, pos) \o SubSeq(body, pos + 1, pos + take) = SubSeq(body, 1, pos + take)
      <4>1. 1 \in 1 .. Len(body) + 1 /\ pos \in 1 - 1 .. Len(body)
        BY <1>1
      <4>. HIDE DEF take
      <4>. QED  BY <1>1, <3>2, <4>1, ConcatAdjacentSubSeq
    <3>. QED  BY <1>1, <1>4, <2>1, <2>3, <3>1, <3>3
  <2>. QED  BY <1>4, <2>2, <2>3
<1>7. exceeded' <=> pos + n > limit
  <2>1. Overflow(n) <=> pos + n > limit
    BY <1>1, <1>3 DEF Least, Room, Overflow
  <2>2. exceeded' <=> exceeded \/ Overflow(n)
    BY Zenon DEF ReadChunk
  <2>3. exceeded <=> pos > limit
    BY Zenon DEF DrainInv, RetainedPrefix
  <2>. QED  BY <1>1, <2>1, <2>2, <2>3
<1>8. DrainTypeOK'
  <2>1. written' \in Seq(Byte) /\ out' \in Seq(Byte)
    <3>1. Least(pos + n, limit) \in 0 .. Len(body)
      BY <1>1 DEF Least
    <3>2. /\ SubSeq(body, 0 + 1, pos + n) \in Seq(Byte)
          /\ SubSeq(body, 0 + 1, Least(pos + n, limit)) \in Seq(Byte)
      BY <1>1, <3>1, PrefixType
    <3>. QED  BY <1>5, <1>6, <3>2
  <2>2. exceeded' \in BOOLEAN
    BY DEF ReadChunk
  <2>3. /\ body' = body /\ limit' = limit /\ keepGoing' = keepGoing
        /\ drain' \in {"ok", "reading"}
        /\ pos' = pos + n /\ emptyReads' = 0
    BY DEF ReadChunk
  <2>4. emptyReads' \in 0 .. MaxEmptyReads /\ emptyReads' < MaxEmptyReads
    BY <2>3, DrainAssumption
  <2>5. /\ body' \in Seq(Byte) /\ limit' \in Nat /\ keepGoing' \in BOOLEAN
        /\ pos' \in 0 .. Len(body') /\ drain' \in {"idle", "reading"} \cup Returned
    BY <1>1, <2>3 DEF DrainTypeOK, Returned
  <2>. QED  BY <2>1, <2>2, <2>4, <2>5 DEF DrainTypeOK
<1>9. WrittenIsConsumed' /\ RetainedPrefix' /\ NotStarted'
  BY <1>5, <1>6, <1>7 DEF ReadChunk, WrittenIsConsumed, RetainedPrefix, NotStarted
<1>10. EarlyReturn'
  <2>1. Overflow(n) <=> pos + n > limit
    BY <1>1, <1>3 DEF Least, Room, Overflow
  <2>2. ~keepGoing => pos + n <= limit + Scratch
    BY <1>1, DrainAssumption DEF ReadChunk, DrainInv, EarlyReturn, RetainedPrefix
  <2>. QED
    BY <1>1, <1>7, <2>1, <2>2 DEF ReadChunk, Returns, EarlyReturn
<1>. QED  BY <1>8, <1>9, <1>10 DEF DrainInv

\* Every step of the loop keeps the invariant and leaves the request alone.
LEMMA DrainStepInv ==
  ASSUME DrainTypeOK, DrainInv, DrainStep
  PROVE  DrainTypeOK' /\ DrainInv' /\ drain' # "idle" /\ UNCHANGED <<body, limit, keepGoing>>
<1>1. CASE \E n \in 1 .. Scratch, eof \in BOOLEAN : ReadChunk(n, eof)
  <2>1. PICK n \in 1 .. Scratch, eof \in BOOLEAN : ReadChunk(n, eof)
    BY <1>1
  <2>2. drain' # "idle" /\ UNCHANGED <<body, limit, keepGoing>>
    BY <2>1 DEF ReadChunk
  <2>. QED  BY <2>1, <2>2, ReadChunkInv
<1>2. CASE ReadEnd
  BY <1>2 DEF ReadEnd, DrainTypeOK, DrainInv, WrittenIsConsumed, RetainedPrefix,
     EarlyReturn, NotStarted, Returned
<1>3. CASE ReadNothing
  BY <1>3, DrainAssumption DEF ReadNothing, Stalls, DrainTypeOK, DrainInv, WrittenIsConsumed, RetainedPrefix,
     EarlyReturn, NotStarted, Returned
<1>4. CASE ReadTooMuch
  BY <1>4 DEF ReadTooMuch, DrainTypeOK, DrainInv, WrittenIsConsumed, RetainedPrefix,
     EarlyReturn, NotStarted, Returned
<1>. QED  BY <1>1, <1>2, <1>3, <1>4 DEF DrainStep

-----------------------------------------------------------------------------
(* Types along a request.                                                  *)

\* The initial values are well typed, before any request.
LEMMA InitTypes == Init => RequestTypeOK
<1> SUFFICES ASSUME Init PROVE RequestTypeOK
  OBVIOUS
<1>1. DrainTypeOK
  <2>1. /\ body \in Seq(Byte) /\ written \in Seq(Byte) /\ out \in Seq(Byte)
        /\ Len(body) = 0
    BY DEF Init, DrainInit
  <2>2. pos \in 0 .. Len(body) /\ limit \in Nat /\ emptyReads \in 0 .. MaxEmptyReads
    BY <2>1, DrainAssumption DEF Init, DrainInit
  <2>3. keepGoing \in BOOLEAN /\ exceeded \in BOOLEAN /\ drain = "idle"
    BY DEF Init, DrainInit
  <2>. QED  BY <2>1, <2>2, <2>3 DEF DrainTypeOK
<1>2. wire \in WireConfig /\ hostBuffers \in BOOLEAN
  BY GuestAssumption DEF Init
<1>3. plugin \in Seq(Config) /\ Len(plugin) <= 1
  BY DEF Init
<1>4. findings \in [Group -> Seq(Verdict)]
  BY DEF Init, NoFindings
<1>. QED  BY <1>1, <1>2, <1>3, <1>4 DEF Init, RequestTypeOK

\* The configuration in force is well typed from the first request on.
LEMMA LoadedType ==
  ASSUME RequestTypeOK
  PROVE  /\ Loaded \in Config
         /\ <<Loaded>> \in Seq(Config) /\ Len(<<Loaded>>) = 1 /\ <<Loaded>>[1] = Loaded
         /\ Len(plugin) = 1 => cfg = Loaded /\ plugin = <<Loaded>>
<1>1. CASE plugin = << >>
  BY <1>1, EffectiveConfigType DEF Loaded, RequestTypeOK
<1>2. CASE plugin # << >>
  <2>1. Len(plugin) = 1 /\ plugin[1] \in Config /\ plugin = <<plugin[1]>>
    BY <1>2, OptionValue DEF RequestTypeOK
  <2>. QED  BY <1>2, <2>1 DEF Loaded, cfg
<1>. QED  BY <1>1, <1>2

\* The fallback, once loaded, stays harmless.
LEMMA LoadedFallback ==
  ASSUME RequestTypeOK, IInv, Loaded.fallback
  PROVE  Loaded.failMode = "failOpen" /\ Loaded.mode = "monitor" /\ Loaded.overCap = "pass"
<1>1. CASE plugin = << >>
  BY <1>1, FallbackIsHarmless DEF Loaded, RequestTypeOK
<1>2. CASE plugin # << >>
  <2>1. Len(plugin) = 1 /\ cfg.fallback
    BY <1>2, OptionValue DEF Loaded, RequestTypeOK
  <2>. QED  BY <1>2, <2>1 DEF Loaded, IInv, ConfigInv
<1>. QED  BY <1>1, <1>2

-----------------------------------------------------------------------------
(* One lemma per action: types and the inductive invariant are preserved.  *)

\* A request arrives and the body loop starts.
LEMMA HandleRequestInv ==
  ASSUME RequestTypeOK, IInv, NEW b \in Bodies, HandleRequest(b)
  PROVE  RequestTypeOK' /\ IInv'
<1>1. /\ Loaded \in Config /\ plugin' = <<Loaded>>
      /\ plugin' \in Seq(Config) /\ Len(plugin') = 1 /\ plugin'[1] = Loaded
  BY LoadedType DEF HandleRequest
<1>2. Loaded.cap \in Nat /\ (Loaded.overCap = "pass") \in BOOLEAN
  BY <1>1 DEF Config
<1>3. DrainTypeOK' /\ DrainInv'
  BY <1>2, BeginDrainInv DEF HandleRequest
<1>4. RequestTypeOK'
  <2>1. Len(plugin') <= 1
    BY <1>1
  <2>2. /\ wire' = wire /\ hostBuffers' = hostBuffers /\ findings' = findings
        /\ response' = response /\ next' = next /\ phase' = "reading"
    BY DEF HandleRequest
  <2>. QED  BY <1>1, <1>3, <2>1, <2>2 DEF RequestTypeOK
<1>5. PhaseInv'
  <2>1. /\ phase = "idle" /\ phase' = "reading" /\ drain' = "reading" /\ next' = next
        /\ keepGoing' = (Loaded.overCap = "pass")
    BY DEF HandleRequest, BeginDrain
  <2>2. next = "none"
    BY <2>1 DEF IInv, PhaseInv
  <2>. QED  BY <1>1, <2>1, <2>2 DEF PhaseInv, cfg
<1>6. ConfigInv'
  <2>1. Loaded.fallback => /\ Loaded.failMode = "failOpen" /\ Loaded.mode = "monitor"
                           /\ Loaded.overCap = "pass"
    BY LoadedFallback
  <2>. QED  BY <1>1, <2>1 DEF ConfigInv, cfg
<1>7. ForwardInv'
  BY DEF HandleRequest, IInv, PhaseInv, ForwardInv
<1>. QED  BY <1>3, <1>4, <1>5, <1>6, <1>7 DEF IInv

\* A request whose body the host cannot buffer.
LEMMA HandleUnbufferableInv ==
  ASSUME RequestTypeOK, IInv, NEW b \in Bodies, HandleUnbufferable(b)
  PROVE  RequestTypeOK' /\ IInv'
<1>1. /\ Loaded \in Config /\ plugin' = <<Loaded>>
      /\ plugin' \in Seq(Config) /\ Len(plugin') = 1 /\ plugin'[1] = Loaded
  BY LoadedType DEF HandleUnbufferable
<1>2. /\ phase = "idle" /\ phase' = "answered" /\ body' = b
      /\ next' \in {"continue", "stop"} /\ response' \in {response, <<403>>}
      /\ UNCHANGED <<limit, keepGoing, drain, pos, written, out, emptyReads, exceeded,
                     wire, hostBuffers, findings>>
  BY DEF HandleUnbufferable, Forward, Stop403
<1>3. drain = "idle" /\ pos = 0 /\ ~exceeded /\ limit \in Nat
  BY <1>2 DEF IInv, PhaseInv, DrainInv, NotStarted, RetainedPrefix, RequestTypeOK, DrainTypeOK
<1>4. b \in Seq(Byte) /\ Len(b) \in Nat
  BY DrainAssumption, LenProperties
<1>5. DrainTypeOK'
  BY <1>2, <1>3, <1>4 DEF DrainTypeOK, RequestTypeOK
<1>6. RequestTypeOK'
  BY <1>1, <1>2, <1>5 DEF RequestTypeOK
<1>7. DrainInv'
  <2>1. written = << >> /\ out = << >>
    <3>1. SubSeq(body, 1, pos) = << >> /\ SubSeq(body, 1, Least(pos, limit)) = << >>
      BY <1>3, SubSeqEmpty DEF Least
    <3>. QED  BY <3>1 DEF IInv, DrainInv, WrittenIsConsumed, RetainedPrefix
  <2>2. SubSeq(b, 1, pos) = << >> /\ SubSeq(b, 1, Least(pos, limit)) = << >>
    BY <1>3, SubSeqEmpty DEF Least
  <2>. QED
    BY <1>2, <1>3, <2>1, <2>2
    DEF IInv, DrainInv, WrittenIsConsumed, RetainedPrefix, EarlyReturn, NotStarted
<1>8. PhaseInv' /\ ForwardInv'
  BY <1>1, <1>2, <1>3 DEF PhaseInv, ForwardInv
<1>9. ConfigInv'
  <2>1. Loaded.fallback => /\ Loaded.failMode = "failOpen" /\ Loaded.mode = "monitor"
                           /\ Loaded.overCap = "pass"
    BY LoadedFallback
  <2>. QED  BY <1>1, <2>1 DEF ConfigInv, cfg
<1>. QED  BY <1>6, <1>7, <1>8, <1>9 DEF IInv

\* One read of the body, whatever the host returns.
LEMMA ReadBodyInv ==
  ASSUME RequestTypeOK, IInv, ReadBody
  PROVE  RequestTypeOK' /\ IInv'
<1>1. phase = "reading" /\ UNCHANGED guestVars
  BY DEF ReadBody
<1>2. DrainTypeOK' /\ DrainInv' /\ drain' # "idle" /\ UNCHANGED <<body, limit, keepGoing>>
  BY DrainStepInv DEF ReadBody, RequestTypeOK, IInv
<1>3. RequestTypeOK'
  BY <1>1, <1>2 DEF RequestTypeOK, guestVars
<1>4. PhaseInv' /\ ConfigInv' /\ ForwardInv'
  BY <1>1, <1>2 DEF IInv, PhaseInv, ConfigInv, ForwardInv, guestVars, cfg
<1>. QED  BY <1>2, <1>3, <1>4 DEF IInv

\* The four steps that leave the loop's variables alone.
LEMMA SettledInv ==
  ASSUME RequestTypeOK, IInv,
         RejectBrokenBody \/ RejectOverCap \/ AcceptBody \/ \E f \in Findings : Inspect(f)
  PROVE  RequestTypeOK' /\ IInv'
<1>1. UNCHANGED <<drainVars, wire, hostBuffers, plugin>>
  BY DEF RejectBrokenBody, RejectOverCap, AcceptBody, Inspect
<1>2. DrainTypeOK' /\ DrainInv' /\ ConfigInv'
  BY <1>1 DEF drainVars, RequestTypeOK, DrainTypeOK, IInv, DrainInv, WrittenIsConsumed,
     RetainedPrefix, EarlyReturn, NotStarted, ConfigInv, cfg
<1>3. findings' \in [Group -> Seq(Verdict)]
  BY GuestAssumption DEF RejectBrokenBody, RejectOverCap, AcceptBody, Inspect, RequestTypeOK
<1>4. /\ phase' \in {"inspecting", "answered"}
      /\ response' \in {response, <<403>>}
      /\ next' \in {next, "continue", "stop"}
  BY DEF RejectBrokenBody, RejectOverCap, AcceptBody, Inspect, Forward, Stop403
<1>5. RequestTypeOK'
  BY <1>1, <1>2, <1>3, <1>4 DEF RequestTypeOK
<1>6. PhaseInv'
  <2>1. phase' = "inspecting" => /\ drain = "ok" /\ ~(exceeded /\ cfg.overCap = "block")
                                /\ next' = next /\ phase = "reading"
    BY DEF RejectBrokenBody, RejectOverCap, AcceptBody, Inspect, Forward, Stop403
  <2>2. phase \in {"reading", "inspecting"}
    BY DEF RejectBrokenBody, RejectOverCap, AcceptBody, Inspect
  <2>. QED  BY <1>1, <1>4, <2>1, <2>2 DEF IInv, PhaseInv, drainVars, cfg
<1>7. ForwardInv'
  <2>1. CASE next' = "continue" /\ next # "continue"
    <3>1. phase = "inspecting" /\ phase' = "answered"
      BY <2>1 DEF RejectBrokenBody, RejectOverCap, AcceptBody, Inspect, Forward, Stop403
    <3>2. drain = "ok" /\ ~(exceeded /\ cfg.overCap = "block") /\ (keepGoing <=> cfg.overCap = "pass")
      BY <3>1 DEF IInv, PhaseInv
    <3>3. cfg.overCap \in {"pass", "block"}
      <4>1. Len(plugin) = 1
        BY <3>1 DEF IInv, PhaseInv
      <4>. QED  BY <4>1, LoadedType DEF Config
    <3>4. pos = Len(body)
      BY <3>2, <3>3 DEF IInv, DrainInv, EarlyReturn
    <3>. QED  BY <1>1, <3>1, <3>2, <3>4 DEF ForwardInv, drainVars
  <2>2. CASE next = "continue"
    BY <2>2 DEF IInv, PhaseInv, RejectBrokenBody, RejectOverCap, AcceptBody, Inspect
  <2>. QED  BY <2>1, <2>2 DEF ForwardInv
<1>. QED  BY <1>2, <1>5, <1>6, <1>7 DEF IInv

\* The guest is called for another request.
LEMMA NextRequestInv ==
  ASSUME RequestTypeOK, IInv, NextRequest
  PROVE  RequestTypeOK' /\ IInv'
<1>1. /\ body' = << >> /\ written' = << >> /\ out' = << >> /\ pos' = 0 /\ limit' = 0
      /\ drain' = "idle" /\ emptyReads' = 0 /\ exceeded' = FALSE /\ keepGoing' = FALSE
      /\ phase' = "idle" /\ next' = "none" /\ response' = << >> /\ findings' = NoFindings
      /\ UNCHANGED <<wire, hostBuffers, plugin>>
  BY DEF NextRequest
<1>2. DrainTypeOK'
  <2>1. /\ body' \in Seq(Byte) /\ written' \in Seq(Byte) /\ out' \in Seq(Byte)
        /\ Len(body') = 0
    BY <1>1
  <2>2. pos' \in 0 .. Len(body') /\ limit' \in Nat /\ emptyReads' \in 0 .. MaxEmptyReads
    BY <1>1, <2>1, DrainAssumption
  <2>3. keepGoing' \in BOOLEAN /\ exceeded' \in BOOLEAN /\ drain' = "idle"
    BY <1>1
  <2>. QED  BY <2>1, <2>2, <2>3 DEF DrainTypeOK
<1>3. findings' \in [Group -> Seq(Verdict)]
  <2>1. NoFindings \in [Group -> Seq(Verdict)]
    BY DEF NoFindings
  <2>. QED  BY <1>1, <2>1
<1>4. RequestTypeOK'
  BY <1>1, <1>2, <1>3 DEF RequestTypeOK
<1>5. DrainInv'
  <2>1. SubSeq(<< >>, 1, 0) = << >> /\ Least(0, 0) = 0
    BY SubSeqEmpty DEF Least
  <2>. QED
    BY <1>1, <2>1, DrainAssumption
    DEF DrainInv, WrittenIsConsumed, RetainedPrefix, EarlyReturn, NotStarted
<1>6. PhaseInv' /\ ConfigInv' /\ ForwardInv'
  BY <1>1 DEF IInv, PhaseInv, ConfigInv, ForwardInv, cfg
<1>. QED  BY <1>4, <1>5, <1>6 DEF IInv

-----------------------------------------------------------------------------
(* The theorems.                                                           *)

\* The guest before its first request.
LEMMA InitInv == Init => RequestTypeOK /\ IInv
<1> SUFFICES ASSUME Init PROVE RequestTypeOK /\ IInv
  OBVIOUS
<1>1. DrainInv
  <2>1. SubSeq(<< >>, 1, 0) = << >> /\ Least(0, 0) = 0
    BY SubSeqEmpty DEF Least
  <2>. QED
    BY <2>1, DrainAssumption
    DEF Init, DrainInit, DrainInv, WrittenIsConsumed, RetainedPrefix, EarlyReturn, NotStarted
<1>2. PhaseInv /\ ConfigInv /\ ForwardInv
  <2>1. Len(plugin) = 0
    BY DEF Init
  <2>. QED  BY <2>1 DEF Init, DrainInit, PhaseInv, ConfigInv, ForwardInv
<1>. QED  BY <1>1, <1>2, InitTypes DEF IInv

\* Every step, or a stutter, keeps both.
LEMMA NextInv == RequestTypeOK /\ IInv /\ [Next]_vars => RequestTypeOK' /\ IInv'
<1> SUFFICES ASSUME RequestTypeOK, IInv, [Next]_vars PROVE RequestTypeOK' /\ IInv'
  OBVIOUS
<1>1. CASE \E b \in Bodies : HandleRequest(b) \/ HandleUnbufferable(b)
  BY <1>1, HandleRequestInv, HandleUnbufferableInv
<1>2. CASE ReadBody
  BY <1>2, ReadBodyInv
<1>3. CASE RejectBrokenBody \/ RejectOverCap \/ AcceptBody \/ \E f \in Findings : Inspect(f)
  BY <1>3, SettledInv
<1>4. CASE NextRequest
  BY <1>4, NextRequestInv
<1>5. CASE UNCHANGED vars
  BY <1>5 DEF vars, drainVars, guestVars, RequestTypeOK, DrainTypeOK, IInv, DrainInv,
     WrittenIsConsumed, RetainedPrefix, EarlyReturn, NotStarted, PhaseInv, ConfigInv,
     ForwardInv, cfg
<1>. QED  BY <1>1, <1>2, <1>3, <1>4, <1>5 DEF Next

\* Type correctness of the guest (the contents of the audit lines apart).
THEOREM TypeCorrect == Spec => []RequestTypeOK
<1>1. RequestTypeOK /\ IInv /\ [Next]_vars => (RequestTypeOK /\ IInv)'
  BY NextInv
<1>. QED  BY InitInv, <1>1, PTL DEF Spec

\* The loop's position, the phase of the request and the loaded configuration
\* agree, and only a whole body is forwarded after a drain.
THEOREM InductiveInvariant == Spec => [](RequestTypeOK /\ IInv)
<1>1. RequestTypeOK /\ IInv /\ [Next]_vars => (RequestTypeOK /\ IInv)'
  BY NextInv
<1>. QED  BY InitInv, <1>1, PTL DEF Spec

\* host.rs / entry.rs: whatever the sizes, a forwarded request carries exactly
\* the body the client sent.
THEOREM ForwardingPreservesBody == Spec => []ForwardedIntact
<1>1. RequestTypeOK /\ IInv => ForwardedIntact
  <2> SUFFICES ASSUME RequestTypeOK, IInv, next = "continue" PROVE Downstream = body
    BY DEF ForwardedIntact
  <2>1. body \in Seq(Byte) /\ pos \in 0 .. Len(body) /\ written = SubSeq(body, 1, pos)
    BY DEF RequestTypeOK, DrainTypeOK, IInv, DrainInv, WrittenIsConsumed
  <2>2. SubSeq(body, 1, Len(body)) = body
    BY <2>1, SubSeqFull
  <2>3. CASE pos = 0
    <3>1. written = << >>
      BY <2>1, <2>3, SubSeqEmpty
    <3>. QED  BY <2>2, <2>3, <3>1 DEF Downstream
  <2>4. CASE pos # 0
    <3>1. pos = Len(body)
      BY <2>4 DEF IInv, ForwardInv, DrainInv, NotStarted
    <3>2. written = body
      BY <2>1, <2>2, <3>1
    <3>3. written # << >>
      BY <2>1, <2>4, <3>1, <3>2
    <3>. QED  BY <3>2, <3>3 DEF Downstream
  <2>. QED  BY <2>3, <2>4
<1>. QED  BY <1>1, InductiveInvariant, PTL

\* host.rs drain_body: the detectors are given exactly the prefix the cap
\* allows, and know whether there was more.
THEOREM InspectionSeesThePrefix == Spec => []InspectsExactPrefix
<1>1. RequestTypeOK /\ IInv => InspectsExactPrefix
  <2> SUFFICES ASSUME RequestTypeOK, IInv, phase = "inspecting"
               PROVE  /\ out = SubSeq(body, 1, Least(Len(body), limit))
                      /\ exceeded <=> Len(body) > limit
    BY DEF InspectsExactPrefix
  <2>1. /\ drain = "ok" /\ ~(exceeded /\ cfg.overCap = "block")
        /\ keepGoing <=> cfg.overCap = "pass"
        /\ Len(plugin) = 1
    BY DEF IInv, PhaseInv
  <2>2. cfg.overCap \in {"pass", "block"}
    BY <2>1, LoadedType DEF Config
  <2>3. pos = Len(body)
    BY <2>1, <2>2 DEF IInv, DrainInv, EarlyReturn
  <2>. QED  BY <2>3 DEF IInv, DrainInv, RetainedPrefix
<1>. QED  BY <1>1, InductiveInvariant, PTL

\* host.rs drain_body: in block mode at most one buffer is pulled past the cap.
THEOREM OverreadIsBounded == Spec => []BoundedOverread
<1>1. RequestTypeOK /\ IInv => BoundedOverread
  BY DEF IInv, DrainInv, EarlyReturn, BoundedOverread
<1>. QED  BY <1>1, InductiveInvariant, PTL

-----------------------------------------------------------------------------
(* Enforcement: what stops a request, and what the fallback lets through.  *)

\* x is one of the elements of s.
Occurs(s, x) == \E i \in 1 .. Len(s) : s[i] = x

\* An element of either part is an element of the concatenation.
LEMMA ConcatOccurs ==
  ASSUME NEW S, NEW s \in Seq(S), NEW t \in Seq(S), NEW x, Occurs(s, x) \/ Occurs(t, x)
  PROVE Occurs(s \o t, x)
<1>1. Len(s) \in Nat /\ Len(t) \in Nat
  BY LenProperties
<1>2. /\ s \o t \in Seq(S) /\ Len(s \o t) = Len(s) + Len(t)
      /\ \A i \in 1 .. Len(s) + Len(t) :
           (s \o t)[i] = IF i <= Len(s) THEN s[i] ELSE t[i - Len(s)]
  BY ConcatProperties
<1>3. CASE \E i \in 1 .. Len(s) : s[i] = x
  <2>1. PICK i \in 1 .. Len(s) : s[i] = x
    BY <1>3
  <2>2. i \in 1 .. Len(s) + Len(t) /\ i <= Len(s)
    BY <1>1
  <2>. QED  BY <1>2, <2>1, <2>2 DEF Occurs
<1>4. CASE \E i \in 1 .. Len(t) : t[i] = x
  <2>1. PICK i \in 1 .. Len(t) : t[i] = x
    BY <1>4
  <2> DEFINE k == Len(s) + i
  <2>2. k \in 1 .. Len(s) + Len(t) /\ ~(k <= Len(s)) /\ k - Len(s) = i
    BY <1>1
  <2>3. (s \o t)[k] = x
    BY <1>2, <2>1, <2>2
  <2>. QED  BY <1>2, <2>2, <2>3 DEF Occurs
<1>. QED  BY <1>2, <1>3, <1>4 DEF Occurs

\* The same for the four lists Engine::inspect concatenates.
LEMMA ConcatOccurs4 ==
  ASSUME NEW S, NEW a \in Seq(S), NEW b \in Seq(S), NEW c \in Seq(S), NEW d \in Seq(S),
         NEW x, Occurs(a, x) \/ Occurs(b, x) \/ Occurs(c, x) \/ Occurs(d, x)
  PROVE  Occurs(a \o b \o c \o d, x)
<1>1. a \o b \in Seq(S) /\ a \o b \o c \in Seq(S)
  BY ConcatProperties
<1>2. Occurs(a, x) \/ Occurs(b, x) => Occurs(a \o b, x)
  BY ConcatOccurs
<1>3. Occurs(a \o b, x) \/ Occurs(c, x) => Occurs(a \o b \o c, x)
  BY <1>1, ConcatOccurs
<1>4. Occurs(a \o b \o c, x) \/ Occurs(d, x) => Occurs(a \o b \o c \o d, x)
  BY <1>1, ConcatOccurs
<1>. QED  BY <1>2, <1>3, <1>4

\* Engine::inspect passes on what each enabled group reports.
LEMMA CollectHas ==
  ASSUME NEW f \in Findings, NEW E \in SUBSET Group, NEW g \in E, f[g] # << >>
  PROVE  \E i \in 1 .. Len(Collect(f, E)) : Collect(f, E)[i].group = g
<1> DEFINE Of(i) == IF GroupOrder[i] \in E THEN f[GroupOrder[i]] ELSE << >>
           x == f[g][1]
<1>1. \A i \in 1 .. 4 : GroupOrder[i] \in Group
  BY DEF GroupOrder, Group
<1>2. f \in [Group -> Seq(Verdict)]
  BY GuestAssumption
<1>3. /\ Of(1) \in Seq(Verdict) /\ Of(2) \in Seq(Verdict)
      /\ Of(3) \in Seq(Verdict) /\ Of(4) \in Seq(Verdict)
  BY <1>1, <1>2
<1>4. Occurs(f[g], x) /\ x.group = g
  <2>1. f[g] \in Seq(Verdict) /\ 1 \in 1 .. Len(f[g])
    BY <1>2, EmptySeq
  <2>. QED  BY <2>1, GuestAssumption DEF Occurs
<1>5. Of(1) = f[g] \/ Of(2) = f[g] \/ Of(3) = f[g] \/ Of(4) = f[g]
  BY DEF Group, GroupOrder
<1>6. Occurs(Of(1) \o Of(2) \o Of(3) \o Of(4), x)
  <2>1. Occurs(Of(1), x) \/ Occurs(Of(2), x) \/ Occurs(Of(3), x) \/ Occurs(Of(4), x)
    <3>. HIDE DEF Of, x
    <3>. QED  BY <1>4, <1>5
  <2>. HIDE DEF Of, x
  <2>. QED  BY <1>3, <2>1, ConcatOccurs4
<1>. QED  BY <1>4, <1>6 DEF Collect, Occurs

\* What Engine::inspect returns is a list of verdicts.
LEMMA CollectType ==
  ASSUME NEW f \in Findings, NEW E \in SUBSET Group
  PROVE  Collect(f, E) \in Seq(Verdict)
<1>1. \A i \in 1 .. 4 : GroupOrder[i] \in Group
  BY DEF GroupOrder, Group
<1>2. f \in [Group -> Seq(Verdict)]
  BY GuestAssumption
<1> DEFINE Of(i) == IF GroupOrder[i] \in E THEN f[GroupOrder[i]] ELSE << >>
<1>3. /\ Of(1) \in Seq(Verdict) /\ Of(2) \in Seq(Verdict)
      /\ Of(3) \in Seq(Verdict) /\ Of(4) \in Seq(Verdict)
  BY <1>1, <1>2
<1>4. Of(1) \o Of(2) \o Of(3) \o Of(4) \in Seq(Verdict)
  <2>. HIDE DEF Of
  <2>. QED  BY <1>3, ConcatProperties
<1>. QED  BY <1>4 DEF Collect

\* policy.rs decide: a verdict of an enforcing group under the enforcing global
\* mode stops the request, whatever else was reported.
THEOREM EnforcementStops == Spec => []EnforcedFindingsStop
<1> DEFINE P == EnforcedFindingsStop
<1>1. Init => P
  BY DEF Init, EnforcedFindingsStop, Inspected, Answered
<1>2. RequestTypeOK /\ IInv /\ P /\ [Next]_vars => P'
  <2> SUFFICES ASSUME RequestTypeOK, IInv, P, [Next]_vars PROVE P'
    OBVIOUS
  <2>1. ASSUME NEW f \in Findings, Inspect(f) PROVE P'
    <3> SUFFICES ASSUME cfg.mode = "enforce", NEW g \in Group,
                        cfg.modes[g] = "enforce", f[g] # << >>
                 PROVE  next' = "stop"
      BY <2>1 DEF Inspect, EnforcedFindingsStop, cfg, Inspected, Answered
    <3> DEFINE verdicts == Collect(f, EnabledGroups(cfg))
    <3>1. g \in EnabledGroups(cfg) /\ EnabledGroups(cfg) \in SUBSET Group
      BY DEF EnabledGroups
    <3>2. PICK i \in 1 .. Len(verdicts) : verdicts[i].group = g
      BY <3>1, CollectHas
    <3>3. Enforces(verdicts[i], cfg.mode, cfg.modes)
      BY <3>2 DEF Enforces
    <3>4. i \in DOMAIN verdicts
      BY <3>2, CollectType, <3>1, LenProperties
    <3>5. Decide(verdicts, cfg.mode, cfg.modes).action = "block"
      BY <3>3, <3>4 DEF Decide
    <3>. QED  BY <2>1, <3>5 DEF Inspect, Stop403
  <2>2. CASE \E b \in Bodies : HandleRequest(b) \/ HandleUnbufferable(b)
    BY <2>2 DEF HandleRequest, HandleUnbufferable, IInv, PhaseInv, EnforcedFindingsStop,
       Inspected, Answered
  <2>3. CASE ReadBody \/ AcceptBody \/ NextRequest
    BY <2>3 DEF ReadBody, guestVars, AcceptBody, NextRequest, EnforcedFindingsStop, Inspected, Answered
  <2>4. CASE RejectBrokenBody \/ RejectOverCap
    BY <2>4 DEF RejectBrokenBody, RejectOverCap, Stop403, drainVars, EnforcedFindingsStop,
       Inspected, Answered, cfg
  <2>5. CASE UNCHANGED vars
    BY <2>5 DEF vars, drainVars, guestVars, EnforcedFindingsStop, Inspected, Answered, cfg
  <2>. QED  BY <2>1, <2>2, <2>3, <2>4, <2>5 DEF Next
<1>. QED  BY <1>1, <1>2, InductiveInvariant, PTL DEF Spec

\* entry.rs state: a guest on the fallback configuration never blocks for
\* anything it detected.
THEOREM FallbackNeverEnforces == Spec => []FallbackFailsOpen
<1> DEFINE P == FallbackFailsOpen
<1>1. Init => P
  BY DEF Init, FallbackFailsOpen, Answered
<1>2. RequestTypeOK /\ IInv /\ P /\ [Next]_vars => P'
  <2> SUFFICES ASSUME RequestTypeOK, IInv, P, [Next]_vars PROVE P'
    OBVIOUS
  <2>1. ASSUME NEW f \in Findings, Inspect(f) PROVE P'
    <3> SUFFICES ASSUME cfg.fallback PROVE next' # "stop"
      BY <2>1 DEF Inspect, FallbackFailsOpen, cfg
    <3>1. cfg.mode = "monitor"
      BY <2>1 DEF Inspect, IInv, PhaseInv, ConfigInv
    <3>2. Decide(Collect(f, EnabledGroups(cfg)), cfg.mode, cfg.modes).action = "allow"
      BY <3>1 DEF Decide, Enforces
    <3>. QED  BY <2>1, <3>2 DEF Inspect, Forward
  <2>2. ASSUME NEW b \in Bodies, HandleUnbufferable(b) PROVE P'
    <3>1. plugin'[1] = Loaded
      BY <2>2, LoadedType DEF HandleUnbufferable
    <3>2. Loaded.fallback => next' = "continue"
      BY <2>2, LoadedFallback DEF HandleUnbufferable, Forward
    <3>. QED  BY <3>1, <3>2 DEF FallbackFailsOpen, cfg
  <2>3. CASE RejectOverCap
    <3>1. ~cfg.fallback
      BY <2>3 DEF RejectOverCap, IInv, PhaseInv, ConfigInv
    <3>. QED  BY <2>3, <3>1 DEF RejectOverCap, FallbackFailsOpen, cfg
  <2>4. CASE RejectBrokenBody
    BY <2>4 DEF RejectBrokenBody, drainVars, FallbackFailsOpen
  <2>5. CASE ReadBody \/ AcceptBody \/ NextRequest \/ \E b \in Bodies : HandleRequest(b)
    BY <2>5 DEF ReadBody, guestVars, AcceptBody, NextRequest, HandleRequest, FallbackFailsOpen, Answered
  <2>6. CASE UNCHANGED vars
    BY <2>6 DEF vars, drainVars, guestVars, FallbackFailsOpen, Answered, cfg
  <2>. QED  BY <2>1, <2>2, <2>3, <2>4, <2>5, <2>6 DEF Next
<1>. QED  BY <1>1, <1>2, InductiveInvariant, PTL DEF Spec

-----------------------------------------------------------------------------
(* The decision.                                                           *)

\* The verdicts that block when their group and the global mode enforce.
Enforcing(v, c) == {i \in DOMAIN v : Enforces(v[i], c.mode, c.modes)}
Observing(v, c) == {i \in DOMAIN v : /\ c.modes[v[i].group] # "off"
                                     /\ ~Enforces(v[i], c.mode, c.modes)}

RankOf(v) == Rank[v.severity]

\* A severity has a rank.
LEMMA RanksAreNumbers == \A v \in Verdict : RankOf(v) \in 1 .. 4
<1>. TAKE v \in Verdict
<1>1. v.severity \in Severity
  BY DEF Verdict
<1>. QED  BY <1>1 DEF RankOf, Rank, Severity

\* The scan finds the first of the most severe verdicts.
LEMMA WorstIsFound ==
  ASSUME NEW pool \in Seq(Verdict), pool # << >>
  PROVE  LET w == WorstIndex(pool)
         IN  /\ w \in 1 .. Len(pool)
             /\ \A j \in 1 .. Len(pool) :
                  /\ RankOf(pool[j]) <= RankOf(pool[w])
                  /\ j < w => RankOf(pool[j]) < RankOf(pool[w])
<1>1. Len(pool) \in Nat \ {0} /\ DOMAIN pool = 1 .. Len(pool) /\ 1 \in 1 .. Len(pool)
  OBVIOUS
<1>2. \A j \in 1 .. Len(pool) : RankOf(pool[j]) \in 1 .. 4
  BY ElementOfSeq, RanksAreNumbers
<1>3. PICK m \in 1 .. Len(pool) : \A j \in 1 .. Len(pool) : RankOf(pool[j]) <= RankOf(pool[m])
  <2>. DEFINE T == {4 - RankOf(pool[j]) : j \in 1 .. Len(pool)}
  <2>1. T \in SUBSET Nat /\ T # {}
    <3>1. \A j \in 1 .. Len(pool) : 4 - RankOf(pool[j]) \in Nat
      BY <1>2
    <3>. QED  BY <1>1, <3>1
  <2>2. PICK x \in T : \A y \in T : x <= y
    BY <2>1, LeastMember
  <2>3. PICK m \in 1 .. Len(pool) : x = 4 - RankOf(pool[m])
    OBVIOUS
  <2>4. \A j \in 1 .. Len(pool) : 4 - RankOf(pool[m]) <= 4 - RankOf(pool[j])
    BY <2>2, <2>3
  <2>5. \A j \in 1 .. Len(pool) : RankOf(pool[j]) <= RankOf(pool[m])
    BY <1>2, <2>4
  <2>. QED  BY <2>5
<1>. DEFINE First == {i \in 1 .. Len(pool) : RankOf(pool[i]) = RankOf(pool[m])}
<1>4. First \in SUBSET Nat /\ First # {}
  OBVIOUS
<1>5. PICK w \in First : \A j \in First : w <= j
  BY <1>4, LeastMember
<1>6. ASSUME NEW j \in 1 .. Len(pool), j < w
      PROVE  RankOf(pool[j]) < RankOf(pool[w])
  <2>1. j \notin First
    BY <1>5, <1>6
  <2>2. RankOf(pool[j]) # RankOf(pool[w]) /\ RankOf(pool[j]) <= RankOf(pool[w])
    BY <1>3, <2>1
  <2>3. RankOf(pool[j]) \in 1 .. 4 /\ RankOf(pool[w]) \in 1 .. 4
    BY <1>2
  <2>. QED  BY <2>2, <2>3
<1>7. w \in DOMAIN pool /\ \A j \in DOMAIN pool : RankOf(pool[j]) <= RankOf(pool[w])
  BY <1>1, <1>3
<1>8. \A j \in 1 .. (w - 1) : RankOf(pool[j]) < RankOf(pool[w])
  <2>1. \A j \in 1 .. (w - 1) : j \in 1 .. Len(pool) /\ j < w
    BY <1>1
  <2>. QED  BY <1>6, <2>1
<1>. DEFINE Scanned(i) == /\ \A j \in DOMAIN pool : Rank[pool[j].severity] <= Rank[pool[i].severity]
                          /\ \A j \in 1 .. (i - 1) : Rank[pool[j].severity] < Rank[pool[i].severity]
<1>9. \E i \in DOMAIN pool : Scanned(i)
  BY <1>7, <1>8 DEF RankOf
<1>10. WorstIndex(pool) = CHOOSE i \in DOMAIN pool : Scanned(i)
  BY DEF WorstIndex
<1>11. PICK u : u = WorstIndex(pool)
  OBVIOUS
<1>12. u \in DOMAIN pool /\ Scanned(u)
  <2>. HIDE DEF Scanned
  <2>. QED  BY <1>9, <1>10, <1>11
<1>13. \A j \in 1 .. Len(pool) :
         /\ RankOf(pool[j]) <= RankOf(pool[u])
         /\ j < u => RankOf(pool[j]) < RankOf(pool[u])
  <2>1. \A j \in 1 .. Len(pool) : j < u => j \in 1 .. (u - 1)
    BY <1>1, <1>12
  <2>. QED  BY <1>1, <1>12, <2>1 DEF RankOf
<1>. QED  BY <1>1, <1>11, <1>12, <1>13

\* swap_remove.
LEMMA SwapRemoved ==
  ASSUME NEW pool \in Seq(Verdict), pool # << >>, NEW w \in 1 .. Len(pool)
  PROVE  /\ SwapRemove(pool, w) \in Seq(Verdict)
         /\ Len(SwapRemove(pool, w)) = Len(pool) - 1
         /\ \A j \in 1 .. Len(pool) - 1 :
              SwapRemove(pool, w)[j] = pool[IF j = w THEN Len(pool) ELSE j]
<1>1. Len(pool) \in Nat \ {0} /\ Len(pool) - 1 \in Nat
  OBVIOUS
<1>. PICK n \in Nat : n = Len(pool) - 1
  BY <1>1
<1>2. \A j \in 1 .. n : (IF j = w THEN pool[Len(pool)] ELSE pool[j]) \in Verdict
  <2>1. \A j \in 1 .. n : j \in 1 .. Len(pool) /\ Len(pool) \in 1 .. Len(pool)
    BY <1>1
  <2>. QED  BY <2>1, ElementOfSeq
<1>. PICK r : r = [j \in 1 .. n |-> IF j = w THEN pool[Len(pool)] ELSE pool[j]]
  OBVIOUS
<1>3. r \in [1 .. n -> Verdict]
  BY <1>2
<1>4. r \in Seq(Verdict) /\ Len(r) = n
  BY <1>3
<1>5. SwapRemove(pool, w) = r
  BY DEF SwapRemove
<1>. QED  BY <1>4, <1>5

\* What decide passes on, the blocking verdict first: from where in the list it
\* was given each element comes.  A and B part the positions, posA and posB walk
\* them in order, and the last one of A takes the place of the w-th.
From(w, a, b, posA, posB) ==
  [i \in 1 .. a + b |-> IF i = 1 THEN posA[w]
                        ELSE IF i <= 1 + b THEN posB[i - 1]
                        ELSE posA[IF i - 1 - b = w THEN a ELSE i - 1 - b]]

Parts(N, a, b, posA, posB) ==
  /\ posA \in [1 .. a -> 1 .. N] /\ posB \in [1 .. b -> 1 .. N]
  /\ \A j, k \in 1 .. a : posA[j] = posA[k] => j = k
  /\ \A j, k \in 1 .. b : posB[j] = posB[k] => j = k
  /\ \A j \in 1 .. a, k \in 1 .. b : posA[j] # posB[k]
  /\ \A i \in 1 .. N : (\E j \in 1 .. a : posA[j] = i) \/ (\E k \in 1 .. b : posB[k] = i)

\* f numbers the positions 1 .. N, each once.
Numbers(f, n, N) ==
  /\ f \in [1 .. n -> 1 .. N]
  /\ \A i, j \in 1 .. n : f[i] = f[j] => i = j
  /\ \A k \in 1 .. N : \E i \in 1 .. n : f[i] = k

\* What decide passes on has each position of the list once.
LEMMA FromIsOrder ==
  ASSUME NEW N \in Nat, NEW a \in Nat, NEW b \in Nat, NEW w \in 1 .. a,
         NEW posA, NEW posB, Parts(N, a, b, posA, posB)
  PROVE  Numbers(From(w, a, b, posA, posB), a + b, N)
<1>. USE DEF Parts
<1>. DEFINE f == From(w, a, b, posA, posB)
            Back(i) == IF i - 1 - b = w THEN a ELSE i - 1 - b
<1>1. \A i \in 1 .. a + b : \/ i = 1
                            \/ i # 1 /\ i <= 1 + b /\ i - 1 \in 1 .. b
                            \/ i # 1 /\ ~(i <= 1 + b) /\ Back(i) \in 1 .. a /\ Back(i) # w
                               /\ i - 1 - b \in 1 .. a - 1
  OBVIOUS
<1>2. \A i, j \in 1 .. a + b : Back(i) = Back(j) /\ i - 1 - b \in 1 .. a - 1 /\ j - 1 - b \in 1 .. a - 1
                               => i = j
  <2>. TAKE i, j \in 1 .. a + b
  <2>1. ASSUME i - 1 - b \in 1 .. a - 1, j - 1 - b \in 1 .. a - 1, i # j
        PROVE  Back(i) # Back(j)
    <3>1. CASE i - 1 - b = w
      <4>1. j - 1 - b # w /\ j - 1 - b # a
        BY <2>1, <3>1
      <4>. QED  BY <3>1, <4>1
    <3>2. CASE i - 1 - b # w
      <4>1. i - 1 - b # a /\ i - 1 - b # j - 1 - b
        BY <2>1
      <4>. QED  BY <3>2, <4>1
    <3>. QED  BY <3>1, <3>2
  <2>. QED  BY <2>1
<1>3. 1 \in 1 .. a + b
  OBVIOUS
<1>4. f[1] = posA[w]
  BY <1>3 DEF From
<1>5. \A i \in 1 .. a + b : i # 1 /\ i <= 1 + b => f[i] = posB[i - 1]
  BY DEF From
<1>6. \A i \in 1 .. a + b : i # 1 /\ ~(i <= 1 + b) => f[i] = posA[Back(i)]
  BY DEF From
<1>7. f = [i \in 1 .. a + b |-> f[i]]
  BY DEF From
<1>. HIDE DEF f, Back
<1>8. \A i \in 1 .. a + b : f[i] \in 1 .. N
  BY <1>1, <1>4, <1>5, <1>6
<1>9. ASSUME NEW i \in 1 .. a + b, ~(i # 1 /\ i <= 1 + b)
      PROVE  \E x \in 1 .. a : f[i] = posA[x]
  <2>1. CASE i = 1
    BY <1>4, <2>1
  <2>2. CASE i # 1
    BY <1>1, <1>6, <1>9, <2>2
  <2>. QED  BY <2>1, <2>2
<1>10. ASSUME NEW i \in 1 .. a + b, NEW j \in 1 .. a + b, f[i] = f[j] PROVE i = j
  <2>1. CASE i = 1
    BY <1>1, <1>4, <1>5, <1>6, <1>10, <2>1
  <2>2. CASE i # 1 /\ i <= 1 + b
    <3>1. f[i] = posB[i - 1] /\ i - 1 \in 1 .. b
      BY <1>1, <1>5, <2>2
    <3>2. j # 1 /\ j <= 1 + b
      <4> SUFFICES ASSUME ~(j # 1 /\ j <= 1 + b) PROVE FALSE
        OBVIOUS
      <4>1. PICK x \in 1 .. a : f[j] = posA[x]
        BY <1>9
      <4>. QED  BY <1>10, <3>1, <4>1
    <3>3. f[j] = posB[j - 1] /\ j - 1 \in 1 .. b
      BY <1>1, <1>5, <3>2
    <3>4. i - 1 = j - 1
      BY ZenonT(60), <1>10, <3>1, <3>3
    <3>. QED  BY <3>4
  <2>3. CASE i # 1 /\ ~(i <= 1 + b)
    <3>1. f[i] = posA[Back(i)] /\ Back(i) \in 1 .. a /\ Back(i) # w /\ i - 1 - b \in 1 .. a - 1
      BY <1>1, <1>6, <2>3
    <3>2. j # 1
      BY <1>4, <1>10, <3>1
    <3>3. ~(j <= 1 + b)
      <4> SUFFICES ASSUME j <= 1 + b PROVE FALSE
        OBVIOUS
      <4>1. j - 1 \in 1 .. b /\ f[j] = posB[j - 1]
        BY <1>1, <1>5, <3>2
      <4>. QED  BY <1>10, <3>1, <4>1
    <3>4. f[j] = posA[Back(j)] /\ Back(j) \in 1 .. a /\ j - 1 - b \in 1 .. a - 1
      BY <1>1, <1>6, <3>2, <3>3
    <3>5. Back(i) = Back(j)
      BY <1>10, <3>1, <3>4
    <3>. QED  BY <1>2, <3>1, <3>4, <3>5
  <2>. QED  BY <2>1, <2>2, <2>3
<1>11. ASSUME NEW n \in 1 .. N PROVE \E i \in 1 .. a + b : f[i] = n
  <2>1. CASE \E k \in 1 .. b : posB[k] = n
    <3>1. PICK k \in 1 .. b : posB[k] = n
      BY <2>1
    <3>2. PICK i : i = k + 1
      OBVIOUS
    <3>3. i \in 1 .. a + b /\ i # 1 /\ i <= 1 + b /\ i - 1 = k
      BY <3>2
    <3>. QED  BY <1>5, <3>1, <3>3
  <2>2. CASE \E j \in 1 .. a : posA[j] = n
    <3>1. PICK j \in 1 .. a : posA[j] = n
      BY <2>2
    <3>2. CASE j = w
      BY <1>3, <1>4, <3>1, <3>2
    <3>3. CASE j # w
      <4>1. PICK i : i = IF j = a THEN 1 + b + w ELSE 1 + b + j
        OBVIOUS
      <4>2. i \in 1 .. a + b /\ i # 1 /\ ~(i <= 1 + b) /\ Back(i) = j
        BY <3>3, <4>1 DEF Back
      <4>. QED  BY <1>6, <3>1, <4>2
    <3>. QED  BY <3>2, <3>3
  <2>. QED  BY <2>1, <2>2
<1>12. f \in [1 .. a + b -> 1 .. N]
  BY <1>7, <1>8
<1>. QED  BY <1>10, <1>11, <1>12 DEF f, Numbers

\* A list of verdicts in detector order, of groups that are on.
InOrder(v, c) ==
  /\ \A i \in 1 .. Len(v) : c.modes[v[i].group] # "off"
  /\ \A i, j \in 1 .. Len(v) : i <= j => GroupIndex(v[i].group) <= GroupIndex(v[j].group)

\* Nothing that enforces in the list is worse than b, nor as bad and earlier.
Worst(b, v, c) ==
  \A i \in 1 .. Len(v) : Enforces(v[i], c.mode, c.modes) =>
    \/ RankOf(v[i]) < RankOf(b)
    \/ RankOf(v[i]) = RankOf(b) /\ GroupIndex(b.group) <= GroupIndex(v[i].group)

\* What decide returns for such a list.
Decided(d, v, c) ==
  /\ d.action \in {"allow", "block"}
  /\ d.blockedBy \in Seq(Verdict) /\ d.wouldBlock \in Seq(Verdict)
  /\ d.action = "block" <=> d.blockedBy # << >>
  /\ d.blockedBy # << >> => Worst(d.blockedBy[1], v, c)
  /\ \E order : Reorders(d.blockedBy \o d.wouldBlock, v, order)

\* Nothing enforces: everything is observed, in its order.
LEMMA AllowIsDecided ==
  ASSUME NEW v \in Seq(Verdict), NEW c, InOrder(v, c),
         \A i \in DOMAIN v : ~Enforces(v[i], c.mode, c.modes)
  PROVE  Decided(Decide(v, c.mode, c.modes), v, c)
<1>. PICK d : d = Decide(v, c.mode, c.modes)
  OBVIOUS
<1>. PICK q : q = Picked(v, Observing(v, c))
  OBVIOUS
<1>1. /\ d.action = "allow" /\ d.blockedBy = << >>
      /\ d.wouldBlock = Observed(v, c.mode, c.modes)
  BY DEF Decide
<1>2. d.wouldBlock = q
  BY <1>1 DEF Observed, Observing
<1>3. /\ q \in Seq(Verdict)
      /\ \E place : Marks(q, v, Observing(v, c), Len(v), place)
  BY PickedMarks
<1>4. PICK place : Marks(q, v, Observing(v, c), Len(v), place)
  BY <1>3
<1>5. Len(q) \in Nat /\ Len(v) \in Nat /\ DOMAIN v = 1 .. Len(v)
  BY <1>3
<1>6. \A i \in 1 .. Len(v) : i \in Observing(v, c)
  BY <1>5 DEF Observing, InOrder
<1>7. \A i, j \in 1 .. Len(q) : place[i] = place[j] => i = j
  <2>1. \A j, k \in 1 .. Len(q) : j < k => place[j] < place[k]
    BY <1>4 DEF Marks
  <2>2. \A j \in 1 .. Len(q) : place[j] \in 1 .. Len(v)
    BY <1>4 DEF Marks
  <2>. QED  BY <1>5, <2>1, <2>2
<1>8. << >> \o q = q /\ << >> \in Seq(Verdict)
  BY <1>3, ConcatEmptySeq
<1>9. Reorders(q, v, place)
  BY <1>4, <1>6, <1>7 DEF Marks, Reorders
<1>. QED  BY <1>1, <1>2, <1>3, <1>8, <1>9 DEF Decided

\* Something enforces: the worst of it blocks, the rest is passed on behind what
\* is observed.
LEMMA BlockIsDecided ==
  ASSUME NEW v \in Seq(Verdict), NEW c, InOrder(v, c),
         ~\A i \in DOMAIN v : ~Enforces(v[i], c.mode, c.modes)
  PROVE  Decided(Decide(v, c.mode, c.modes), v, c)
<1>. PICK d : d = Decide(v, c.mode, c.modes)
  OBVIOUS
<1>. PICK p : p = Picked(v, Enforcing(v, c))
  OBVIOUS
<1>. PICK q : q = Picked(v, Observing(v, c))
  OBVIOUS
<1>. PICK w : w = WorstIndex(p)
  OBVIOUS
<1>. PICK r : r = SwapRemove(p, w)
  OBVIOUS
<1>1. /\ d.action = "block" /\ d.blockedBy = <<p[w]>> /\ d.wouldBlock = q \o r
  <2>1. /\ d.action = "block"
        /\ d.blockedBy = <<EnforcedPool(v, c.mode, c.modes)[WorstIndex(EnforcedPool(v, c.mode, c.modes))]>>
        /\ d.wouldBlock = Observed(v, c.mode, c.modes)
                            \o SwapRemove(EnforcedPool(v, c.mode, c.modes),
                                          WorstIndex(EnforcedPool(v, c.mode, c.modes)))
    BY DEF Decide
  <2>2. p = EnforcedPool(v, c.mode, c.modes) /\ q = Observed(v, c.mode, c.modes)
    BY DEF EnforcedPool, Observed, Enforcing, Observing
  <2>. QED  BY <2>1, <2>2
<1>2. /\ p \in Seq(Verdict) /\ q \in Seq(Verdict)
      /\ \E place : Marks(p, v, Enforcing(v, c), Len(v), place)
      /\ \E place : Marks(q, v, Observing(v, c), Len(v), place)
  BY PickedMarks
<1>3. PICK posA : Marks(p, v, Enforcing(v, c), Len(v), posA)
  BY <1>2
<1>4. PICK posB : Marks(q, v, Observing(v, c), Len(v), posB)
  BY <1>2
<1>5. /\ Len(v) \in Nat /\ Len(p) \in Nat /\ Len(q) \in Nat /\ DOMAIN v = 1 .. Len(v)
  BY <1>2
<1>6. /\ posA \in [1 .. Len(p) -> 1 .. Len(v)]
      /\ \A j \in 1 .. Len(p) : posA[j] \in Enforcing(v, c) /\ p[j] = v[posA[j]]
      /\ \A j, k \in 1 .. Len(p) : j < k => posA[j] < posA[k]
      /\ \A i \in 1 .. Len(v) : i \in Enforcing(v, c) => \E j \in 1 .. Len(p) : posA[j] = i
  BY <1>3 DEF Marks
<1>7. /\ posB \in [1 .. Len(q) -> 1 .. Len(v)]
      /\ \A j \in 1 .. Len(q) : posB[j] \in Observing(v, c) /\ q[j] = v[posB[j]]
      /\ \A j, k \in 1 .. Len(q) : j < k => posB[j] < posB[k]
      /\ \A i \in 1 .. Len(v) : i \in Observing(v, c) => \E j \in 1 .. Len(q) : posB[j] = i
  BY <1>4 DEF Marks
<1>8. \A i \in 1 .. Len(v) : i \in Enforcing(v, c) \/ i \in Observing(v, c)
  BY <1>5 DEF Enforcing, Observing, InOrder
<1>9. p # << >>
  <2>1. PICK i \in 1 .. Len(v) : i \in Enforcing(v, c)
    BY <1>5 DEF Enforcing
  <2>2. PICK j \in 1 .. Len(p) : posA[j] = i
    BY <1>6, <2>1
  <2>. QED  BY <1>5, <2>2
<1>10. /\ w \in 1 .. Len(p)
       /\ \A j \in 1 .. Len(p) : /\ RankOf(p[j]) <= RankOf(p[w])
                                 /\ j < w => RankOf(p[j]) < RankOf(p[w])
  BY <1>2, <1>9, WorstIsFound
<1>11. /\ r \in Seq(Verdict) /\ Len(r) = Len(p) - 1
       /\ \A j \in 1 .. Len(p) - 1 : r[j] = p[IF j = w THEN Len(p) ELSE j]
  BY <1>2, <1>9, <1>10, SwapRemoved
<1>12. Worst(p[w], v, c)
  <2> SUFFICES ASSUME NEW i \in 1 .. Len(v), Enforces(v[i], c.mode, c.modes)
               PROVE  \/ RankOf(v[i]) < RankOf(p[w])
                      \/ /\ RankOf(v[i]) = RankOf(p[w])
                         /\ GroupIndex(p[w].group) <= GroupIndex(v[i].group)
    BY DEF Worst
  <2>1. i \in Enforcing(v, c)
    BY <1>5 DEF Enforcing
  <2>2. PICK j \in 1 .. Len(p) : posA[j] = i
    BY <1>6, <2>1
  <2>3. p[j] = v[i] /\ p[w] = v[posA[w]]
    BY <1>6, <1>10, <2>2
  <2>4. RankOf(p[j]) \in Nat /\ RankOf(p[w]) \in Nat
    <3>1. p[j] \in Verdict /\ p[w] \in Verdict
      BY <1>2, <1>10, ElementOfSeq
    <3>. QED  BY <3>1, RanksAreNumbers
  <2>5. CASE RankOf(p[j]) = RankOf(p[w])
    <3>1. ~(j < w)
      BY <1>10, <2>4, <2>5
    <3>2. j = w \/ w < j
      BY <1>5, <1>10, <3>1
    <3>3. posA[w] = i \/ posA[w] < i
      BY <1>6, <1>10, <2>2, <3>2
    <3>4. posA[w] \in 1 .. Len(v) /\ posA[w] <= i
      BY <1>5, <1>6, <1>10, <3>3
    <3>5. GroupIndex(v[posA[w]].group) <= GroupIndex(v[i].group)
      BY <3>4 DEF InOrder
    <3>. QED  BY <2>3, <2>5, <3>5
  <2>6. CASE RankOf(p[j]) # RankOf(p[w])
    <3>1. RankOf(p[j]) < RankOf(p[w])
      <4>1. RankOf(p[j]) <= RankOf(p[w])
        BY <1>10
      <4>. QED  BY <2>4, <2>6, <4>1
    <3>. QED  BY <2>3, <3>1
  <2>. QED  BY <2>5, <2>6
<1>13. /\ <<p[w]>> \in Seq(Verdict) /\ Len(<<p[w]>>) = 1 /\ <<p[w]>>[1] = p[w]
       /\ <<p[w]>> # << >>
  BY <1>2, <1>10, ElementOfSeq
<1>14. /\ q \o r \in Seq(Verdict) /\ Len(q \o r) = Len(q) + Len(p) - 1
       /\ \A i \in 1 .. Len(q \o r) : (q \o r)[i] = IF i <= Len(q) THEN q[i] ELSE r[i - Len(q)]
  <2>1. /\ q \o r \in Seq(Verdict) /\ Len(q \o r) = Len(q) + Len(r)
        /\ \A i \in 1 .. Len(q) + Len(r) : (q \o r)[i] = IF i <= Len(q) THEN q[i] ELSE r[i - Len(q)]
    <3>1. r \in Seq(Verdict)
      BY <1>11
    <3>. QED  BY <1>2, <3>1, ConcatProperties
  <2>2. Len(q) + Len(r) = Len(q) + Len(p) - 1
    BY <1>5, <1>11
  <2>. QED  BY <2>1, <2>2
<1>. PICK told : told = <<p[w]>> \o (q \o r)
  OBVIOUS
<1>. PICK order : order = From(w, Len(p), Len(q), posA, posB)
  OBVIOUS
<1>15. /\ Len(told) = Len(p) + Len(q)
       /\ told[1] = p[w]
       /\ \A i \in 1 .. Len(p) + Len(q) : i # 1 => told[i] = (q \o r)[i - 1]
  <2>1. /\ Len(told) = 1 + Len(q \o r)
        /\ \A i \in 1 .. 1 + Len(q \o r) :
             told[i] = IF i <= 1 THEN <<p[w]>>[i] ELSE (q \o r)[i - 1]
    <3>. PICK one : one = <<p[w]>>
      OBVIOUS
    <3>. PICK rest : rest = q \o r
      OBVIOUS
    <3>1. one \in Seq(Verdict) /\ Len(one) = 1 /\ rest \in Seq(Verdict)
      BY <1>13, <1>14
    <3>2. /\ Len(one \o rest) = Len(one) + Len(rest)
          /\ \A i \in 1 .. Len(one) + Len(rest) :
               (one \o rest)[i] = IF i <= Len(one) THEN one[i] ELSE rest[i - Len(one)]
      BY <3>1, ConcatProperties
    <3>. QED  BY <3>1, <3>2
  <2>2. 1 + Len(q \o r) = Len(p) + Len(q) /\ 1 \in 1 .. Len(p) + Len(q)
    BY <1>5, <1>10, <1>14
  <2>3. \A i \in 1 .. Len(p) + Len(q) : i # 1 => ~(i <= 1)
    BY <1>5
  <2>4. told[1] = p[w]
    BY <1>13, <2>1, <2>2
  <2>. QED  BY <2>1, <2>2, <2>3, <2>4
<1>16. Numbers(order, Len(p) + Len(q), Len(v))
  <2>1. \A j, k \in 1 .. Len(p) : posA[j] = posA[k] => j = k
    BY SMTT(40), <1>5, <1>6
  <2>2. \A j, k \in 1 .. Len(q) : posB[j] = posB[k] => j = k
    BY <1>5, <1>7
  <2>3. \A j \in 1 .. Len(p), k \in 1 .. Len(q) : posA[j] # posB[k]
    <3>1. \A i : ~(i \in Enforcing(v, c) /\ i \in Observing(v, c))
      BY DEF Enforcing, Observing
    <3>. QED  BY <1>6, <1>7, <3>1
  <2>4. \A i \in 1 .. Len(v) : (\E j \in 1 .. Len(p) : posA[j] = i) \/ (\E k \in 1 .. Len(q) : posB[k] = i)
    BY <1>6, <1>7, <1>8
  <2>5. Parts(Len(v), Len(p), Len(q), posA, posB)
    BY <1>6, <1>7, <2>1, <2>2, <2>3, <2>4 DEF Parts
  <2>. QED  BY <1>5, <1>10, <2>5, FromIsOrder
<1>17. \A i \in 1 .. Len(p) + Len(q) : told[i] = v[order[i]]
  <2>. TAKE i \in 1 .. Len(p) + Len(q)
  <2>1. CASE i = 1
    <3>1. order[i] = posA[w]
      BY <2>1 DEF From
    <3>2. told[i] = p[w]
      BY <1>15, <2>1
    <3>3. p[w] = v[posA[w]]
      BY <1>6, <1>10
    <3>. QED  BY <3>1, <3>2, <3>3
  <2>2. CASE i # 1 /\ i <= 1 + Len(q)
    <3>1. i - 1 \in 1 .. Len(q) /\ i - 1 \in 1 .. Len(q) + Len(p) - 1 /\ i - 1 <= Len(q)
      BY <1>5, <1>10, <2>2
    <3>2. told[i] = q[i - 1]
      BY <1>14, <1>15, <2>2, <3>1
    <3>3. order[i] = posB[i - 1]
      BY <2>2 DEF From
    <3>. QED  BY <1>7, <3>1, <3>2, <3>3
  <2>3. CASE i # 1 /\ ~(i <= 1 + Len(q))
    <3>1. /\ i - 1 \in 1 .. Len(q) + Len(p) - 1 /\ ~(i - 1 <= Len(q))
          /\ i - 1 - Len(q) \in 1 .. Len(p) - 1 /\ i - 1 - Len(q) \in 1 .. Len(p)
          /\ Len(p) \in 1 .. Len(p)
      BY <1>5, <1>10, <2>3
    <3>2. told[i] = r[i - 1 - Len(q)]
      BY <1>14, <1>15, <2>3, <3>1
    <3>. PICK k : k = IF i - 1 - Len(q) = w THEN Len(p) ELSE i - 1 - Len(q)
      OBVIOUS
    <3>3. order[i] = posA[k]
      BY <2>3 DEF From
    <3>4. told[i] = p[k] /\ k \in 1 .. Len(p)
      BY <1>11, <3>1, <3>2
    <3>5. p[k] = v[posA[k]]
      BY <1>6, <3>4
    <3>. QED  BY <3>3, <3>4, <3>5
  <2>. QED  BY <2>1, <2>2, <2>3
<1>18. Reorders(told, v, order)
  BY <1>15, <1>16, <1>17 DEF Reorders, Numbers
<1>. QED  BY <1>1, <1>12, <1>13, <1>14, <1>18 DEF Decided

\* policy.rs decide.
LEMMA DecideIsDecided ==
  ASSUME NEW v \in Seq(Verdict), NEW c, InOrder(v, c)
  PROVE  Decided(Decide(v, c.mode, c.modes), v, c)
BY AllowIsDecided, BlockIsDecided

-----------------------------------------------------------------------------
(* What the engine hands to the decision.                                  *)

\* The groups have the indices 1 to 4.
LEMMA IndexOfGroup ==
  \A i \in 1 .. 4 : GroupOrder[i] \in Group /\ GroupIndex(GroupOrder[i]) = i
<1>1. DOMAIN GroupOrder = 1 .. 4
  <2>1. GroupOrder \in Seq(Group) /\ Len(GroupOrder) = 4
    BY DEF GroupOrder, Group
  <2>. QED  BY <2>1
<1>2. \A i, j \in 1 .. 4 : GroupOrder[i] = GroupOrder[j] => i = j
  BY DEF GroupOrder
<1>3. \A i \in 1 .. 4 : GroupOrder[i] \in Group
  BY DEF GroupOrder, Group
<1>. QED  BY <1>1, <1>2, <1>3 DEF GroupIndex

\* The verdicts of s are of the groups in E that come from the a-th to the b-th
\* in detector order, in that order.
Within(s, E, a, b) ==
  /\ \A i \in 1 .. Len(s) : s[i].group \in E /\ GroupIndex(s[i].group) \in a .. b
  /\ \A i, j \in 1 .. Len(s) : i <= j => GroupIndex(s[i].group) <= GroupIndex(s[j].group)

\* What one detector reports.
LEMMA OneGroup ==
  ASSUME NEW f \in Findings, NEW E \in SUBSET Group, NEW k \in 1 .. 4
  PROVE  LET s == IF GroupOrder[k] \in E THEN f[GroupOrder[k]] ELSE << >>
         IN  s \in Seq(Verdict) /\ Within(s, E, k, k)
<1>. PICK g \in Group : g = GroupOrder[k] /\ GroupIndex(g) = k
  BY IndexOfGroup
<1>. PICK s : s = IF g \in E THEN f[g] ELSE << >>
  OBVIOUS
<1>1. f \in [Group -> Seq(Verdict)] /\ << >> \in Seq(Verdict) /\ Len(<< >>) = 0
  BY GuestAssumption
<1>2. s \in Seq(Verdict)
  BY <1>1
<1>3. \A i \in 1 .. Len(s) : s[i].group = g /\ g \in E
  <2>1. CASE g \in E
    BY <2>1, GuestAssumption
  <2>2. CASE g \notin E
    BY <1>1, <2>2
  <2>. QED  BY <2>1, <2>2
<1>4. Within(s, E, k, k)
  BY <1>3 DEF Within
<1>. QED  BY <1>2, <1>4

\* What the first detectors report is in order if what the next one does is.
LEMMA ConcatWithin ==
  ASSUME NEW E, NEW s \in Seq(Verdict), NEW t \in Seq(Verdict), NEW k \in 1 .. 3,
         Within(s, E, 1, k), Within(t, E, k + 1, k + 1)
  PROVE  s \o t \in Seq(Verdict) /\ Within(s \o t, E, 1, k + 1)
<1>. PICK r : r = s \o t
  OBVIOUS
<1>1. /\ Len(s) \in Nat /\ Len(t) \in Nat
      /\ r \in Seq(Verdict) /\ Len(r) = Len(s) + Len(t)
      /\ \A i \in 1 .. Len(s) + Len(t) : r[i] = IF i <= Len(s) THEN s[i] ELSE t[i - Len(s)]
  BY ConcatProperties
<1>2. ASSUME NEW i \in 1 .. Len(r)
      PROVE  \/ i \in 1 .. Len(s) /\ r[i] = s[i]
             \/ i > Len(s) /\ i - Len(s) \in 1 .. Len(t) /\ r[i] = t[i - Len(s)]
  <2>1. CASE i <= Len(s)
    <3>1. i \in 1 .. Len(s) /\ i \in 1 .. Len(s) + Len(t)
      BY <1>1, <2>1
    <3>. QED  BY <1>1, <2>1, <3>1
  <2>2. CASE ~(i <= Len(s))
    <3>1. i > Len(s) /\ i - Len(s) \in 1 .. Len(t) /\ i \in 1 .. Len(s) + Len(t)
      BY <1>1, <2>2
    <3>. QED  BY <1>1, <2>2, <3>1
  <2>. QED  BY <2>1, <2>2
<1>. DEFINE G(i) == GroupIndex(r[i].group)
<1>3. ASSUME NEW i \in 1 .. Len(r)
      PROVE  /\ r[i].group \in E
             /\ G(i) \in 1 .. k + 1
             /\ i \in 1 .. Len(s) => G(i) <= k
             /\ i > Len(s) => G(i) = k + 1
  <2>1. CASE i \in 1 .. Len(s) /\ r[i] = s[i]
    <3>1. s[i].group \in E /\ GroupIndex(s[i].group) \in 1 .. k
      BY <2>1 DEF Within
    <3>2. ~(i > Len(s))
      BY <1>1, <2>1
    <3>3. GroupIndex(s[i].group) \in 1 .. k + 1 /\ GroupIndex(s[i].group) <= k
      BY <3>1
    <3>. QED  BY <2>1, <3>1, <3>2, <3>3
  <2>2. CASE i > Len(s) /\ i - Len(s) \in 1 .. Len(t) /\ r[i] = t[i - Len(s)]
    <3>1. t[i - Len(s)].group \in E /\ GroupIndex(t[i - Len(s)].group) \in k + 1 .. k + 1
      BY <2>2 DEF Within
    <3>2. ~(i \in 1 .. Len(s))
      BY <1>1, <2>2
    <3>3. /\ GroupIndex(t[i - Len(s)].group) \in 1 .. k + 1
          /\ GroupIndex(t[i - Len(s)].group) = k + 1
      BY <3>1
    <3>. QED  BY <2>2, <3>1, <3>2, <3>3
  <2>. QED  BY <1>2, <2>1, <2>2
<1>4. ASSUME NEW i \in 1 .. Len(r), NEW j \in 1 .. Len(r), i <= j PROVE G(i) <= G(j)
  <2>1. CASE j \in 1 .. Len(s)
    <3>1. i \in 1 .. Len(s)
      BY <1>1, <1>4, <2>1
    <3>2. r[i] = s[i] /\ r[j] = s[j]
      <4>1. ~(i > Len(s)) /\ ~(j > Len(s))
        BY <1>1, <2>1, <3>1
      <4>. QED  BY <1>2, <4>1
    <3>. QED  BY <1>4, <2>1, <3>1, <3>2 DEF Within
  <2>2. CASE j > Len(s)
    <3>1. G(j) = k + 1 /\ G(i) \in 1 .. k + 1
      BY <1>3, <2>2
    <3>. HIDE DEF G
    <3>. QED  BY <3>1
  <2>. QED  BY <1>2, <2>1, <2>2
<1>. QED  BY <1>1, <1>3, <1>4 DEF Within

\* Engine::inspect: in detector order, and of the groups that are on.
LEMMA CollectInOrder ==
  ASSUME NEW f \in Findings, NEW c
  PROVE  /\ Collect(f, EnabledGroups(c)) \in Seq(Verdict)
         /\ InOrder(Collect(f, EnabledGroups(c)), c)
<1>. PICK E \in SUBSET Group : E = EnabledGroups(c)
  BY DEF EnabledGroups
<1>. DEFINE Of(i) == IF GroupOrder[i] \in E THEN f[GroupOrder[i]] ELSE << >>
<1>1. \A k \in 1 .. 4 : Of(k) \in Seq(Verdict) /\ Within(Of(k), E, k, k)
  BY OneGroup
<1>. PICK s1 : s1 = Of(1)
  OBVIOUS
<1>. PICK s2 : s2 = Of(2)
  OBVIOUS
<1>. PICK s3 : s3 = Of(3)
  OBVIOUS
<1>. PICK s4 : s4 = Of(4)
  OBVIOUS
<1>2. Collect(f, E) = s1 \o s2 \o s3 \o s4
  BY DEF Collect
<1>. HIDE DEF Of
<1>3. /\ s1 \in Seq(Verdict) /\ Within(s1, E, 1, 1)
      /\ s2 \in Seq(Verdict) /\ Within(s2, E, 2, 2)
      /\ s3 \in Seq(Verdict) /\ Within(s3, E, 3, 3)
      /\ s4 \in Seq(Verdict) /\ Within(s4, E, 4, 4)
  BY <1>1
<1>4. s1 \o s2 \in Seq(Verdict) /\ Within(s1 \o s2, E, 1, 2)
  <2>1. Within(s2, E, 1 + 1, 1 + 1) /\ 1 \in 1 .. 3
    BY <1>3
  <2>2. Within(s1 \o s2, E, 1, 1 + 1)
    BY <1>3, <2>1, ConcatWithin
  <2>. QED  BY <1>3, <2>1, <2>2, ConcatWithin
<1>5. s1 \o s2 \o s3 \in Seq(Verdict) /\ Within(s1 \o s2 \o s3, E, 1, 3)
  <2>1. Within(s3, E, 2 + 1, 2 + 1) /\ 2 \in 1 .. 3
    BY <1>3
  <2>2. s1 \o s2 \o s3 \in Seq(Verdict) /\ Within(s1 \o s2 \o s3, E, 1, 2 + 1)
    BY <1>3, <1>4, <2>1, ConcatWithin
  <2>. QED  BY <2>2
<1>6. s1 \o s2 \o s3 \o s4 \in Seq(Verdict) /\ Within(s1 \o s2 \o s3 \o s4, E, 1, 4)
  <2>1. Within(s4, E, 3 + 1, 3 + 1) /\ 3 \in 1 .. 3
    BY <1>3
  <2>2. s1 \o s2 \o s3 \o s4 \in Seq(Verdict) /\ Within(s1 \o s2 \o s3 \o s4, E, 1, 3 + 1)
    BY <1>3, <1>5, <2>1, ConcatWithin
  <2>. QED  BY <2>2
<1>7. \A g \in E : c.modes[g] # "off"
  BY DEF EnabledGroups
<1>. PICK v : v = Collect(f, E)
  OBVIOUS
<1>8. InOrder(v, c)
  BY ZenonT(60), <1>2, <1>6, <1>7 DEF Within, InOrder
<1>. QED  BY <1>2, <1>6, <1>8

-----------------------------------------------------------------------------
(* What is logged.                                                         *)

\* The line Inspect logs for the verdicts v.
LineFor(d, c, truncated) ==
  [action     |-> d.action,
   blockedBy  |-> d.blockedBy,
   wouldBlock |-> d.wouldBlock,
   truncated  |-> truncated,
   fallback   |-> c.fallback]

Decision == Decide(Reported, cfg.mode, cfg.modes)

\* A request has a line when it was inspected and there is something to say, and
\* it says what was decided.
AuditInv ==
  /\ ~Inspected => audit = << >>
  /\ Inspected => /\ findings \in Findings
                  /\ audit = IF Noteworthy(Decision) THEN <<LineFor(Decision, cfg, exceeded)>>
                             ELSE << >>
                  /\ next = IF Decision.action = "block" THEN "stop" ELSE "continue"

\* Nothing is logged yet.
LEMMA AuditInit == Init => AuditInv
BY DEF Init, AuditInv, Inspected, Answered

\* The steps before the answer, and the answers without an inspection.
LEMMA AuditUninspected ==
  ASSUME RequestTypeOK, IInv, AuditInv,
         \/ \E b \in Bodies : HandleRequest(b) \/ HandleUnbufferable(b)
         \/ ReadBody \/ AcceptBody \/ NextRequest \/ RejectBrokenBody \/ RejectOverCap
  PROVE  AuditInv'
<1>1. CASE \E b \in Bodies : HandleRequest(b) \/ HandleUnbufferable(b)
  <2>1. /\ phase = "idle" /\ audit' = audit
        /\ phase' = "answered" => drain' = drain
        /\ phase' \in {"reading", "answered"}
    BY <1>1 DEF HandleRequest, HandleUnbufferable, Forward, Stop403
  <2>2. drain = "idle"
    BY <2>1 DEF IInv, PhaseInv
  <2>3. audit = << >> /\ ~Inspected'
    BY <2>1, <2>2 DEF AuditInv, Inspected, Answered
  <2>. QED  BY <2>1, <2>3 DEF AuditInv
<1>2. CASE ReadBody \/ AcceptBody
  <2>1. phase \in {"reading", "inspecting"} /\ audit' = audit /\ phase' \in {"reading", "inspecting"}
    BY <1>2 DEF ReadBody, AcceptBody, guestVars
  <2>2. audit = << >> /\ ~Inspected'
    BY <2>1 DEF AuditInv, Inspected, Answered
  <2>. QED  BY <2>1, <2>2 DEF AuditInv
<1>3. CASE NextRequest
  BY <1>3 DEF NextRequest, AuditInv, Inspected, Answered
<1>4. CASE RejectBrokenBody \/ RejectOverCap
  <2>1. /\ phase = "reading" /\ audit' = audit /\ drain' = drain
        /\ exceeded' = exceeded /\ plugin' = plugin
        /\ drain \in {"stalled", "violation"} \/ (exceeded /\ cfg.overCap = "block")
    BY <1>4 DEF RejectBrokenBody, RejectOverCap, drainVars
  <2>2. audit = << >>
    BY <2>1 DEF AuditInv, Inspected, Answered
  <2>3. ~Inspected'
    BY <2>1 DEF Inspected, cfg
  <2>. QED  BY <2>1, <2>2, <2>3 DEF AuditInv
<1>. QED  BY <1>1, <1>2, <1>3, <1>4

\* The inspection logs its line.
LEMMA AuditInspect ==
  ASSUME RequestTypeOK, IInv, AuditInv, NEW f \in Findings, Inspect(f)
  PROVE  AuditInv'
<1>. PICK d : d = Decide(Collect(f, EnabledGroups(cfg)), cfg.mode, cfg.modes)
  OBVIOUS
<1>1. /\ phase = "inspecting" /\ phase' = "answered" /\ findings' = f
      /\ plugin' = plugin /\ drain' = drain /\ exceeded' = exceeded
      /\ audit' = IF Noteworthy(d) THEN Append(audit, LineFor(d, cfg, exceeded)) ELSE audit
      /\ next' = IF d.action = "block" THEN "stop" ELSE "continue"
  BY DEF Inspect, LineFor, drainVars, Forward, Stop403
<1>2. audit = << >>
  BY <1>1 DEF AuditInv, Inspected, Answered
<1>3. Inspected'
  BY <1>1 DEF IInv, PhaseInv, Inspected, Answered, cfg
<1>4. Decision' = d /\ cfg' = cfg
  BY <1>1 DEF Decision, Reported, cfg
<1>5. Noteworthy(Decision)' <=> Noteworthy(d)
  BY <1>4 DEF Noteworthy
<1>6. audit' = IF Noteworthy(d) THEN <<LineFor(d, cfg, exceeded)>> ELSE << >>
  <2>1. \A x : Append(<< >>, x) = <<x>>
    OBVIOUS
  <2>. QED  BY <1>1, <1>2, <2>1
<1>7. LineFor(Decision, cfg, exceeded)' = LineFor(d, cfg, exceeded)
  BY <1>1, <1>4 DEF LineFor
<1>. QED  BY <1>1, <1>3, <1>4, <1>5, <1>6, <1>7 DEF AuditInv

\* Every step keeps the log true.
LEMMA AuditNext ==
  ASSUME RequestTypeOK, IInv, AuditInv, [Next]_vars
  PROVE  AuditInv'
<1>1. CASE UNCHANGED vars
  <2>1. /\ phase' = phase /\ audit' = audit /\ findings' = findings /\ next' = next
        /\ plugin' = plugin /\ drain' = drain /\ exceeded' = exceeded
    BY <1>1 DEF vars, guestVars, drainVars
  <2>2. cfg' = cfg /\ Decision' = Decision /\ (Inspected' <=> Inspected)
    BY <2>1 DEF cfg, Decision, Reported, Inspected, Answered
  <2>. QED  BY <2>1, <2>2 DEF AuditInv, Noteworthy, LineFor
<1>2. CASE \E f \in Findings : Inspect(f)
  BY <1>2, AuditInspect
<1>. QED  BY <1>1, <1>2, AuditUninspected DEF Next

\* At most one line, and it says what was decided of a request that was inspected.
LEMMA OneLine ==
  ASSUME RequestTypeOK, IInv, AuditInv
  PROVE  /\ Len(audit) <= 1
         /\ Range(audit) \subseteq {LineFor(Decision, cfg, exceeded)}
         /\ audit # << >> => /\ Inspected
                             /\ Len(audit) = 1 /\ audit[1] = LineFor(Decision, cfg, exceeded)
         /\ Inspected /\ Noteworthy(Decision) => audit # << >>
<1>. PICK line : line = LineFor(Decision, cfg, exceeded)
  OBVIOUS
<1>1. /\ Len(<<line>>) = 1 /\ DOMAIN <<line>> = {1} /\ <<line>>[1] = line /\ <<line>> # << >>
      /\ Len(<< >>) = 0 /\ DOMAIN << >> = {}
  OBVIOUS
<1>2. CASE audit = <<line>> /\ Inspected
  BY <1>1, <1>2 DEF Range
<1>3. CASE audit = << >> /\ (Inspected => ~Noteworthy(Decision))
  BY <1>1, <1>3 DEF Range
<1>4. \/ audit = <<line>> /\ Inspected
      \/ audit = << >> /\ (Inspected => ~Noteworthy(Decision))
  BY DEF AuditInv
<1>. QED  BY <1>2, <1>3, <1>4

\* What the line of an inspected request was decided from.
LEMMA InspectedDecision ==
  ASSUME RequestTypeOK, IInv, AuditInv, Inspected
  PROVE  /\ Reported \in Seq(Verdict)
         /\ Decided(Decision, Reported, cfg)
<1>1. Reported \in Seq(Verdict) /\ InOrder(Reported, cfg)
  BY CollectInOrder DEF AuditInv, Reported
<1>. QED  BY <1>1, DecideIsDecided DEF Decision

\* The line has the type AuditLine says (audit.rs).
LEMMA LineIsTyped ==
  ASSUME RequestTypeOK, IInv, AuditInv
  PROVE  audit \in Seq(AuditLine)
<1>1. CASE audit = << >>
  BY <1>1
<1>2. CASE audit # << >>
  <2>. PICK line : line = LineFor(Decision, cfg, exceeded)
    OBVIOUS
  <2>. PICK d : d = Decision
    OBVIOUS
  <2>1. Inspected /\ audit = <<line>>
    BY <1>2 DEF AuditInv
  <2>2. Decided(d, Reported, cfg)
    BY <2>1, InspectedDecision
  <2>3. Len(plugin) = 1
    BY <2>1 DEF IInv, PhaseInv, Inspected, Answered
  <2>4. cfg.fallback \in BOOLEAN /\ exceeded \in BOOLEAN
    BY <2>3, LoadedType DEF Config, RequestTypeOK, DrainTypeOK
  <2>5. line \in AuditLine
    BY <2>2, <2>4 DEF LineFor, AuditLine, Decided
  <2>. QED  BY <2>1, <2>5
<1>. QED  BY <1>1, <1>2

\* told has each verdict of v as often as v.
Told(told, v) ==
  /\ Len(told) = Len(v)
  /\ \A i \in DOMAIN v : Cardinality({j \in DOMAIN told : told[j] = v[i]}) =
                         Cardinality({j \in DOMAIN v : v[j] = v[i]})

\* policy.rs decide: nothing is dropped, nothing told twice.
LEMMA NothingLost ==
  ASSUME RequestTypeOK, IInv, AuditInv
  PROVE  NoDetectionLost
<1> SUFFICES ASSUME Inspected, Reported # << >>
             PROVE  /\ Len(audit) = 1
                    /\ Told(audit[1].blockedBy \o audit[1].wouldBlock, Reported)
  BY DEF NoDetectionLost, Told
<1>. PICK v : v = Reported
  OBVIOUS
<1>. PICK d : d = Decision
  OBVIOUS
<1>1. v \in Seq(Verdict) /\ Decided(d, v, cfg)
  BY InspectedDecision
<1>2. /\ d.blockedBy \in Seq(Verdict) /\ d.wouldBlock \in Seq(Verdict)
      /\ \E order : Reorders(d.blockedBy \o d.wouldBlock, v, order)
  BY <1>1 DEF Decided
<1>. PICK told : told = d.blockedBy \o d.wouldBlock
  OBVIOUS
<1>3. told \in Seq(Verdict)
  BY <1>2
<1>4. PICK order : Reorders(told, v, order)
  BY <1>2
<1>5. Len(told) = Len(v) /\ \A x : Times(x, told) = Times(x, v)
  BY <1>1, <1>3, <1>4, SameCounts
<1>6. Noteworthy(d)
  <2>1. CASE d.blockedBy = << >> /\ d.wouldBlock = << >>
    <3>1. << >> \o << >> = << >> /\ Len(<< >>) = 0 /\ << >> \in Seq(Verdict)
      BY ConcatEmptySeq
    <3>2. Len(v) = 0
      BY <1>5, <2>1, <3>1
    <3>. QED  BY <1>1, <3>2, EmptySeq
  <2>. QED  BY <2>1 DEF Noteworthy
<1>7. Len(audit) = 1 /\ audit[1] = LineFor(d, cfg, exceeded)
  BY <1>6, OneLine
<1>8. audit[1].blockedBy \o audit[1].wouldBlock = told
  <2>1. audit[1].blockedBy = d.blockedBy /\ audit[1].wouldBlock = d.wouldBlock
    BY <1>7 DEF LineFor
  <2>. QED  BY <2>1
<1>9. \A i \in DOMAIN v : Cardinality({j \in DOMAIN told : told[j] = v[i]}) =
                         Cardinality({j \in DOMAIN v : v[j] = v[i]})
  BY ZenonT(60), <1>5 DEF Times
<1>10. Told(told, v)
  BY <1>5, <1>9 DEF Told
<1>11. Told(audit[1].blockedBy \o audit[1].wouldBlock, Reported)
  BY <1>8, <1>10
<1>. QED  BY <1>7, <1>11

\* policy.rs decide: the block is attributed to the worst enforced verdict.
LEMMA WorstIsNamed ==
  ASSUME RequestTypeOK, IInv, AuditInv
  PROVE  NamesTheWorst
<1> SUFFICES ASSUME NEW line \in Range(audit), line.blockedBy # << >>,
                    NEW v \in Range(Reported), Enforces(v, cfg.mode, cfg.modes)
             PROVE  LET b == line.blockedBy[1]
                    IN  \/ Rank[v.severity] < Rank[b.severity]
                        \/ /\ Rank[v.severity] = Rank[b.severity]
                           /\ GroupIndex(b.group) <= GroupIndex(v.group)
  BY DEF NamesTheWorst
<1>1. line = LineFor(Decision, cfg, exceeded) /\ audit # << >>
  <2>1. line = LineFor(Decision, cfg, exceeded)
    BY OneLine
  <2>2. DOMAIN << >> = {}
    OBVIOUS
  <2>3. audit # << >>
    BY <2>2 DEF Range
  <2>. QED  BY <2>1, <2>3
<1>2. Inspected
  BY <1>1, OneLine
<1>3. Reported \in Seq(Verdict) /\ Decided(Decision, Reported, cfg)
  BY <1>2, InspectedDecision
<1>4. Worst(line.blockedBy[1], Reported, cfg)
  BY <1>1, <1>3 DEF Decided, LineFor
<1>5. PICK i \in 1 .. Len(Reported) : v = Reported[i]
  BY <1>3 DEF Range
<1>. QED  BY <1>4, <1>5 DEF Worst, RankOf

\* entry.rs inspect: action, truncation and fallback are logged as they are.
LEMMA LineIsTrue ==
  ASSUME RequestTypeOK, IInv, AuditInv
  PROVE  AuditIsTrue
<1> SUFFICES ASSUME Answered
             PROVE  /\ Len(audit) <= 1
                    /\ \A line \in Range(audit) :
                         /\ line.action = "block" <=> next = "stop"
                         /\ line.truncated <=> Len(body) > Len(out)
                    /\ Inspected /\ cfg.fallback => Len(audit) = 1 /\ audit[1].fallback
  BY DEF AuditIsTrue
<1>1. ASSUME NEW line \in Range(audit)
      PROVE  /\ line.action = "block" <=> next = "stop"
             /\ line.truncated <=> Len(body) > Len(out)
  <2>. PICK d : d = Decision
    OBVIOUS
  <2>1. line = LineFor(d, cfg, exceeded) /\ Inspected
    <3>1. DOMAIN << >> = {}
      OBVIOUS
    <3>2. audit # << >>
      BY <3>1 DEF Range
    <3>. QED  BY <3>2, OneLine
  <2>2. line.action = "block" <=> next = "stop"
    BY <2>1 DEF AuditInv, LineFor
  <2>3. /\ drain = "ok" /\ ~(exceeded /\ cfg.overCap = "block")
        /\ keepGoing <=> cfg.overCap = "pass"
        /\ Len(plugin) = 1
    BY <2>1 DEF IInv, PhaseInv, Inspected
  <2>4. cfg.overCap \in {"pass", "block"}
    BY <2>3, LoadedType DEF Config
  <2>5. pos = Len(body)
    BY <2>3, <2>4 DEF IInv, DrainInv, EarlyReturn
  <2>6. /\ out = SubSeq(body, 1, Least(Len(body), limit))
        /\ exceeded <=> Len(body) > limit
    BY <2>5 DEF IInv, DrainInv, RetainedPrefix
  <2>7. body \in Seq(Byte) /\ limit \in Nat /\ Len(body) \in Nat
    BY DEF RequestTypeOK, DrainTypeOK
  <2>8. Len(out) = Least(Len(body), limit)
    <3>1. Least(Len(body), limit) \in 0 .. Len(body)
      BY <2>7 DEF Least
    <3>2. Len(SubSeq(body, 0 + 1, Least(Len(body), limit))) = Least(Len(body), limit) - 0
      BY <2>7, <3>1, PrefixType
    <3>. QED  BY <2>6, <3>1, <3>2
  <2>9. Len(body) > Len(out) <=> Len(body) > limit
    BY <2>7, <2>8 DEF Least
  <2>10. line.truncated = exceeded
    BY <2>1 DEF LineFor
  <2>. QED  BY <2>2, <2>6, <2>9, <2>10
<1>2. ASSUME Inspected, cfg.fallback PROVE Len(audit) = 1 /\ audit[1].fallback
  <2>1. Noteworthy(Decision)
    BY <1>2 DEF Noteworthy
  <2>2. Len(audit) = 1 /\ audit[1] = LineFor(Decision, cfg, exceeded)
    BY <1>2, <2>1, OneLine
  <2>. QED  BY <1>2, <2>2 DEF LineFor
<1>. QED  BY <1>1, <1>2, OneLine

\* policy.rs decide, audit.rs, entry.rs inspect: no verdict is lost, a block is
\* attributed to the worst enforced rule, and the audit line is true.
THEOREM DecisionStaysTrue == Spec => []DecisionIsTrue
<1>1. RequestTypeOK /\ IInv /\ AuditInv => DecisionIsTrue
  BY LineIsTyped, NothingLost, WorstIsNamed, LineIsTrue DEF DecisionIsTrue, TypeOK
<1>2. RequestTypeOK /\ IInv /\ AuditInv /\ [Next]_vars => AuditInv'
  BY AuditNext
<1>. QED  BY <1>1, <1>2, AuditInit, InductiveInvariant, PTL DEF Spec
=============================================================================
