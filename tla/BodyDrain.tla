------------------------------ MODULE BodyDrain ------------------------------
(***************************************************************************)
(* host.rs `drain_body`: the guest pulls the request body from the host in  *)
(* chunks of at most Scratch bytes, keeps a prefix of at most `limit` bytes *)
(* for inspection, and streams every byte it pulled back to the host so     *)
(* that the backend still receives the body.                               *)
(*                                                                         *)
(* One read of the loop is one step.  The host decides how a body is cut    *)
(* into chunks, whether end of stream arrives with the last byte or after   *)
(* it, and how many empty reads it interleaves; it may also break its       *)
(* contract and report a chunk larger than the buffer it was given.         *)
(***************************************************************************)
EXTENDS Naturals, Sequences

CONSTANTS
  Byte,           \* opaque byte values
  Bodies,         \* the request bodies clients send
  Scratch,        \* SCRATCH: size of the stack buffer of one read
  MaxEmptyReads,  \* MAX_EMPTY_READS: consecutive empty reads tolerated
  ReadLimits      \* the values min(max, MAX_ALLOC) takes

ASSUME DrainAssumption ==
  /\ Bodies \subseteq Seq(Byte)
  /\ Scratch \in Nat \ {0}
  /\ MaxEmptyReads \in Nat \ {0}
  /\ ReadLimits \subseteq Nat

VARIABLES
  body,        \* what the client sent
  limit,       \* inspection limit of this request
  keepGoing,   \* preserve_after_cap: drain past the limit
  drain,       \* where the loop is, or how it returned
  pos,         \* bytes pulled from the host so far
  written,     \* bytes written back to the host
  out,         \* the prefix retained in guest memory
  emptyReads,
  exceeded

drainVars == <<body, limit, keepGoing, drain, pos, written, out, emptyReads, exceeded>>

Returned == {"ok", "stalled", "violation"}

DrainTypeOK ==
  /\ body \in Seq(Byte)
  /\ limit \in Nat
  /\ keepGoing \in BOOLEAN
  /\ drain \in {"idle", "reading"} \cup Returned
  /\ pos \in 0 .. Len(body)
  /\ written \in Seq(Byte)
  /\ out \in Seq(Byte)
  /\ emptyReads \in 0 .. MaxEmptyReads
  /\ drain = "reading" => emptyReads < MaxEmptyReads
  /\ exceeded \in BOOLEAN

DrainInit ==
  /\ body = << >> /\ limit = 0 /\ keepGoing = FALSE
  /\ drain = "idle"
  /\ pos = 0 /\ written = << >> /\ out = << >>
  /\ emptyReads = 0 /\ exceeded = FALSE

\* The locals at the top of drain_body, for a request with body b.
BeginDrain(b, max, keep) ==
  /\ body' = b
  /\ limit' = max
  /\ keepGoing' = keep
  /\ drain' = "reading"
  /\ pos' = 0 /\ written' = << >> /\ out' = << >>
  /\ emptyReads' = 0 /\ exceeded' = FALSE

Least(a, b) == IF a <= b THEN a ELSE b

\* Space left for the retained prefix.
Room == limit - Len(out)

\* size > take: the read brought more than may be retained.
OverflowAtCap(n) == n >= Room       \* mutant: a body of exactly the cap
Overflow(n) == n > Room

\* `preserve`: the chunk goes back to the host, retained or not.
PreserveRetained(chunk) ==          \* mutant: only what fits the limit
  written \o SubSeq(chunk, 1, Least(Room, Len(chunk)))
Preserve(chunk) == written \o chunk

ReturnsAtEof(n, eof) == eof         \* mutant: no early return on overflow
Returns(n, eof) == eof \/ (Overflow(n) /\ ~keepGoing)

\* A read that returned n > 0 bytes, with or without end of stream.
ReadChunk(n, eof) ==
  LET chunk == SubSeq(body, pos + 1, pos + n)
  IN  /\ drain = "reading"
      /\ n \in 1 .. Scratch
      /\ pos + n <= Len(body)
      /\ eof => pos + n = Len(body)
      /\ pos' = pos + n
      /\ emptyReads' = 0
      /\ written' = Preserve(chunk)
      /\ out' = out \o SubSeq(chunk, 1, Least(Room, n))
      /\ exceeded' = (exceeded \/ Overflow(n))
      /\ drain' = IF Returns(n, eof) THEN "ok" ELSE "reading"
      /\ UNCHANGED <<body, limit, keepGoing>>

\* A read of zero bytes at end of stream.
ReadEnd ==
  /\ drain = "reading"
  /\ pos = Len(body)
  /\ drain' = "ok"
  /\ UNCHANGED <<body, limit, keepGoing, pos, written, out, emptyReads, exceeded>>

StallsLate(reads) == reads > MaxEmptyReads     \* mutant: one read too many
Stalls(reads) == reads >= MaxEmptyReads

\* mutant: zero-progress reads counted, but never held against the host
ReadNothingForEver ==
  /\ drain = "reading"
  /\ emptyReads' = (emptyReads + 1) % MaxEmptyReads
  /\ UNCHANGED <<drain, body, limit, keepGoing, pos, written, out, exceeded>>

\* A read of zero bytes without end of stream: legal, but not for ever.
ReadNothing ==
  /\ drain = "reading"
  /\ emptyReads' = emptyReads + 1
  /\ drain' = IF Stalls(emptyReads + 1) THEN "stalled" ELSE "reading"
  /\ UNCHANGED <<body, limit, keepGoing, pos, written, out, exceeded>>

\* The host claims to have written past the end of the scratch buffer.
ReadTooMuch ==
  /\ drain = "reading"
  /\ drain' = "violation"
  /\ UNCHANGED <<body, limit, keepGoing, pos, written, out, emptyReads, exceeded>>

DrainStep ==
  \/ \E n \in 1 .. Scratch, eof \in BOOLEAN : ReadChunk(n, eof)
  \/ ReadEnd
  \/ ReadNothing
  \/ ReadTooMuch

\* What the backend receives if the request is now forwarded: the first write
\* replaces the buffered body, later writes append (external: the http-wasm
\* host); without a write the host forwards what nobody has consumed.
Downstream ==
  IF written = << >> THEN SubSeq(body, pos + 1, Len(body)) ELSE written

-----------------------------------------------------------------------------
(* What the loop maintains at every read.                                  *)

\* Nothing is lost, repeated or reordered on the way back to the host: what
\* has been written is exactly what has been pulled.
WrittenIsConsumed == written = SubSeq(body, 1, pos)

\* What is retained is the prefix of what was pulled, never more than the
\* limit; `exceeded` tells whether anything was pulled beyond it.
RetainedPrefix ==
  /\ out = SubSeq(body, 1, Least(pos, limit))
  /\ exceeded <=> pos > limit

\* The loop comes back "ok" before the end of the body only to reject it, and
\* it never goes on past an overflow it may not drain.
EarlyReturn ==
  /\ drain = "ok" => pos = Len(body) \/ (exceeded /\ ~keepGoing)
  /\ drain = "reading" => ~(exceeded /\ ~keepGoing)
  /\ ~keepGoing => pos <= limit + Scratch

\* Before the loop starts nothing has been pulled.
NotStarted == drain = "idle" => pos = 0

DrainInv == WrittenIsConsumed /\ RetainedPrefix /\ EarlyReturn /\ NotStarted
=============================================================================
