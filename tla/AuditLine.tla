------------------------------ MODULE AuditLine ------------------------------
(***************************************************************************)
(* The relay's parser, parser.rs `parse_line`: from a line of Traefik's log  *)
(* to the audit event in it and the Traefik names around it.                *)
(*                                                                         *)
(* A line is a sequence of pieces: the characters the scanners look for,     *)
(* and words between them.  A line is a record [text, utf8, documents]: the     *)
(* documents are the JSON objects it was written with, which is how parsing    *)
(* (serde_json, outside of the relay) is the inverse of `Json`.              *)
(***************************************************************************)
EXTENDS Integers, Sequences, SequencesExt

-----------------------------------------------------------------------------
(* Writing JSON, outside of the relay.                                     *)

\* A string body: quotes and backslashes are escaped.
Escaped(body) ==
  FlattenSeq([i \in DOMAIN body |->
    IF body[i] \in {"quote", "backslash"} THEN <<"backslash", body[i]>> ELSE <<body[i]>>])

Json(doc) == <<"{", "quote", "detail", "quote", ":", "quote">> \o Escaped(doc.detail)
               \o <<"quote", "labels", "{", "}", doc.id, "}">>

\* Of the documents a line was written with, the one a text stands for.
JsonParse(s, documents) ==
  LET read == {doc \in documents : Json(doc) = s}
  IN  IF read = {} THEN << >> ELSE <<CHOOSE doc \in read : TRUE>>

-----------------------------------------------------------------------------
(* parser.rs                                                               *)

Letters == {"m", "word"}

\* strip_ansi: an ESC goes with everything up to the first letter.
StripStep(acc, p) ==
  IF acc.inside THEN [out |-> acc.out, inside |-> p \notin Letters]
  ELSE IF p = "ESC" THEN [out |-> acc.out, inside |-> TRUE]
  ELSE [out |-> Append(acc.out, p), inside |-> FALSE]

strip_ansi(s) ==
  LET acc[n \in 0 .. Len(s)] ==
        IF n = 0 THEN [out |-> << >>, inside |-> FALSE] ELSE StripStep(acc[n - 1], s[n])
  IN  acc[Len(s)].out

\* The scanner in front of the object.
ScanStart == [depth |-> 0, inString |-> FALSE, escape |-> FALSE, end |-> 0]

\* mutant: an escaped backslash leaves the escape open
ScanIgnoringPairs(acc, p, i) ==
  IF acc.end # 0 THEN acc
  ELSE IF acc.inString
    THEN IF acc.escape /\ p # "backslash" THEN [acc EXCEPT !.escape = FALSE]
         ELSE IF p = "backslash" THEN [acc EXCEPT !.escape = TRUE]
         ELSE IF p = "quote" THEN [acc EXCEPT !.inString = FALSE]
         ELSE acc
  ELSE CASE p = "quote" -> [acc EXCEPT !.inString = TRUE]
         [] p = "{"     -> [acc EXCEPT !.depth = @ + 1]
         [] p = "}"     -> [acc EXCEPT !.depth = @ - 1, !.end = IF acc.depth = 1 THEN i ELSE 0]
         [] OTHER       -> acc

\* One piece of it, at i: in a string braces do not count, nor does an escaped quote
\* end it; the brace that closes the first one is the end.
ScanStep(acc, p, i) ==
  IF acc.end # 0 THEN acc
  ELSE IF acc.inString
    THEN IF acc.escape THEN [acc EXCEPT !.escape = FALSE]
         ELSE IF p = "backslash" THEN [acc EXCEPT !.escape = TRUE]
         ELSE IF p = "quote" THEN [acc EXCEPT !.inString = FALSE]
         ELSE acc
  ELSE CASE p = "quote" -> [acc EXCEPT !.inString = TRUE]
         [] p = "{"     -> [acc EXCEPT !.depth = @ + 1]
         [] p = "}"     -> [acc EXCEPT !.depth = @ - 1, !.end = IF acc.depth = 1 THEN i ELSE 0]
         [] OTHER       -> acc

\* find_json_object: from the first brace to the one that closes it.
find_json_object(s) ==
  LET start == SelectInSeq(s, LAMBDA p : p = "{")
      scan[i \in 0 .. Len(s)] ==
        IF i < start \/ i = 0 THEN ScanStart ELSE ScanStep(scan[i - 1], s[i], i)
      end == scan[Len(s)].end
  IN  IF start = 0 \/ end = 0 THEN << >> ELSE <<SubSeq(s, start, end)>>

\* trim_matches: without the quotes at either end.
Trimmed(v) ==
  LET inner == {i \in DOMAIN v : v[i] # "quote"}
  IN  IF inner = {} THEN << >> ELSE SubSeq(v, Min(inner), Max(inner))

\* mutant: the value goes on to the end of the line
ValueToTheEnd(s, key) ==
  LET i == SelectInSeq(s, LAMBDA p : p = key)
  IN  IF i = 0 THEN << >> ELSE <<SubSeq(s, i + 1, Len(s))>>

\* find_value: what stands behind the first occurrence of the key, up to the next
\* space; without a key or a value there is none.
find_value(s, key) ==
  LET i    == SelectInSeq(s, LAMBDA p : p = key)
      rest == SubSeq(s, i + 1, Len(s))
      end  == SelectInSeq(rest, LAMBDA p : p = "space")
      v    == Trimmed(IF end = 0 THEN rest ELSE SubSeq(rest, 1, end - 1))
  IN  IF i = 0 \/ v = << >> THEN << >> ELSE <<v>>

\* strip_traefik_suffix: the provider behind the first "@" goes.
strip_traefik_suffix(v) ==
  LET at == SelectInSeq(v, LAMBDA p : p = "@")
  IN  IF at = 0 THEN v ELSE SubSeq(v, 1, at - 1)

extract_traefik_enrichment(s) ==
  LET Stripped(v) == IF v = << >> THEN << >> ELSE <<strip_traefik_suffix(v[1])>>
  IN  [middleware |-> Stripped(find_value(s, "middlewareName=")),
       router     |-> Stripped(find_value(s, "routerName=")),
       entryPoint |-> find_value(s, "entryPointName=")]

\* mutant: an object with either of the two signature fields is taken
SignedByEither(doc) == doc.hasWouldBlock \/ doc.action \in {"block", "allow"}

\* The signature that tells an audit event from other JSON in the log.
IsPurpleWolf(doc) == doc.hasWouldBlock /\ doc.action \in {"block", "allow"}

\* parse_line: none is NotPurpleWolf.
parse_line(line) ==
  LET stripped == strip_ansi(line.text)
      object   == find_json_object(stripped)
      doc      == JsonParse(object[1], line.documents)
  IN  IF ~line.utf8 \/ ~Contains(line.text, "{") \/ object = << >> \/ doc = << >>
        \/ ~IsPurpleWolf(doc[1])
      THEN << >>
      ELSE <<[event |-> doc[1], source |-> extract_traefik_enrichment(stripped)]>>
=============================================================================
