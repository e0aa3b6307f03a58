----------------------------- MODULE HostBuffers -----------------------------
(***************************************************************************)
(* How the guest reads variable-length values from the http-wasm host:      *)
(* host.rs `read_buf`, `read_buf_multi`, `split_nul`.                       *)
(*                                                                         *)
(* A read is one host call with a scratch buffer and, when that was too      *)
(* small, a second one with a buffer of the size the host asked for.  The    *)
(* host may hold another value by then: the operators take what it holds at  *)
(* either call.  A buffer is a sequence of cells, each a piece of text or     *)
(* NUL; what the host does not write stays NUL.                             *)
(***************************************************************************)
EXTENDS Integers, Sequences, SequencesExt, Text

CONSTANTS
  SCRATCH,           \* size of the first buffer
  MAX_ALLOC,         \* the most the guest allocates for one value
  MAX_MULTI_VALUES,  \* the most names, or values of a name, it takes
  I32_LIMIT          \* 2^31: sizes from here on arrive as negative numbers

ASSUME HostBuffersAssumption ==
  /\ {SCRATCH, MAX_ALLOC, MAX_MULTI_VALUES, I32_LIMIT} \subseteq Nat \ {0}
  /\ SCRATCH < MAX_ALLOC /\ MAX_ALLOC < I32_LIMIT

NUL == Plain("NUL")

AsI32(n) == IF n < I32_LIMIT THEN n ELSE n - 2 * I32_LIMIT

NotNegative(n) == IF n < 0 THEN 0 ELSE n

\* The host: it writes a value that fits and tells the size of one that does not.
Answer(count, cells, limit) ==
  [count  |-> AsI32(count),
   needed |-> AsI32(Len(cells)),
   buf    |-> [i \in 1 .. limit |->
                 IF Len(cells) <= limit /\ i <= Len(cells) THEN cells[i] ELSE NUL]]

\* A list of values on the wire: each one ends in NUL.
Packed(list) == FlattenSeq([i \in DOMAIN list |-> Append(list[i], NUL)])

\* mutant: the answer to the retry is not compared with the buffer
FetchTrusting(held, later) ==
  LET answer == Answer(held.count, held.cells, SCRATCH)
      needed == NotNegative(answer.needed)
      retry  == Answer(later.count, later.cells, needed)
      actual == NotNegative(retry.needed)
  IN  IF needed <= SCRATCH
        THEN [count |-> NotNegative(answer.count), bytes |-> SubSeq(answer.buf, 1, needed)]
      ELSE IF needed > MAX_ALLOC
        THEN [count |-> 0, bytes |-> << >>]
      ELSE [count |-> NotNegative(retry.count),
            bytes |-> SubSeq(retry.buf, 1, IF actual > needed THEN needed ELSE actual)]

\* The control both read functions share.  `held` is what the host has at the
\* first call and `later` what it has at the second: a count and the cells.
Fetch(held, later) ==
  LET answer == Answer(held.count, held.cells, SCRATCH)
      needed == NotNegative(answer.needed)
      retry  == Answer(later.count, later.cells, needed)
      actual == NotNegative(retry.needed)
  IN  IF needed <= SCRATCH
        THEN [count |-> NotNegative(answer.count), bytes |-> SubSeq(answer.buf, 1, needed)]
      ELSE IF needed > MAX_ALLOC \/ actual > needed
        THEN [count |-> 0, bytes |-> << >>]
      ELSE [count |-> NotNegative(retry.count), bytes |-> SubSeq(retry.buf, 1, actual)]

OneValue(cells) == [count |-> 1, cells |-> cells]
ListOf(list)    == [count |-> Len(list), cells |-> Packed(list)]

read_buf(value, later) == Fetch(OneValue(value), OneValue(later)).bytes

\* mutant: the limit on values is forgotten
SplitNulAll(buf, count) ==
  LET values == Front(Split(buf, "NUL"))
  IN  SubSeq(values, 1, IF Len(values) < count THEN Len(values) ELSE count)

\* mutant: the loop leaves before it pushes the last value
SplitNulShort(buf, count) ==
  LET values == Front(Split(buf, "NUL"))
      most   == IF count < MAX_MULTI_VALUES THEN count ELSE MAX_MULTI_VALUES
  IN  SubSeq(values, 1, IF Len(values) < most THEN Len(values) ELSE most - 1)

\* split_nul: the stretches that end in NUL, `count` of them at the most.
split_nul(buf, count) ==
  LET values == Front(Split(buf, "NUL"))
      most   == IF count < MAX_MULTI_VALUES THEN count ELSE MAX_MULTI_VALUES
  IN  SubSeq(values, 1, IF Len(values) < most THEN Len(values) ELSE most)

read_buf_multi(list, later) ==
  LET got == Fetch(ListOf(list), ListOf(later)) IN split_nul(got.bytes, got.count)

\* String::from_utf8_lossy: what is not UTF-8 is replaced.
Lossy(s) == [i \in DOMAIN s |-> IF s[i].what = "sjis" THEN [s[i] EXCEPT !.what = "mangled"]
                                                      ELSE s[i]]

\* mutant: only the first value of a repeated header is kept
FirstValueOnly(values) == IF values = << >> THEN << >> ELSE <<Lossy(Head(values))>>

\* join_header_values: the values with ", " between them, or none (Option).
join_header_values(values) ==
  IF values = << >> THEN << >>
  ELSE <<Lossy(FoldLeft(LAMBDA joined, v : joined \o <<Plain(","), Plain("space")>> \o v,
                        Head(values), Tail(values)))>>
=============================================================================
