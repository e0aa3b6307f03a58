-------------------------------- MODULE Filter --------------------------------
(***************************************************************************)
(* The subscriber filter, subscribers/filter.rs `CompiledFilter` and `Glob`. *)
(* Rules and patterns are sequences of letters; an optional clause is a      *)
(* sequence of length at most one.                                         *)
(***************************************************************************)
EXTENDS Naturals, Sequences, SequencesExt

SeverityRank == [low |-> 1, medium |-> 2, high |-> 3, critical |-> 4]

\* Glob::new: the literal parts between the stars, the empty ones left out.
Filed(cut) == IF cut.part = << >> THEN cut.parts ELSE Append(cut.parts, cut.part)

Parts(pattern) ==
  LET cut[n \in 0 .. Len(pattern)] ==
        IF n = 0 THEN [parts |-> << >>, part |-> << >>]
        ELSE IF pattern[n] = "*" THEN [parts |-> Filed(cut[n - 1]), part |-> << >>]
        ELSE [parts |-> cut[n - 1].parts, part |-> Append(cut[n - 1].part, pattern[n])]
  IN  Filed(cut[Len(pattern)])

StartsWild(pattern) == pattern # << >> /\ Head(pattern) = "*"
EndsWild(pattern)   == pattern # << >> /\ Last(pattern) = "*"

\* str::find from the cursor on: the cursor behind the first occurrence, or none.
Find(s, cursor, part) ==
  LET ends == {e \in (cursor + Len(part)) .. Len(s) : SubSeq(s, e - Len(part) + 1, e) = part}
  IN  IF ends = {} THEN << >> ELSE <<CHOOSE e \in ends : \A d \in ends : e <= d>>

\* mutant: a last part may reach back over the text already matched
EndsWithOverlap(s, cursor, part) ==
  IF IsSuffix(part, s) THEN <<Len(s)>> ELSE << >>

\* The last part when the pattern does not end in a star: it has to be at the end,
\* behind the cursor.
EndsWith(s, cursor, part) ==
  IF IsSuffix(part, s) /\ Len(s) - Len(part) >= cursor THEN <<Len(s)>> ELSE << >>

\* Glob::matches: the cursor goes from part to part.
GlobMatches(pattern, s) ==
  LET parts == Parts(pattern)
      first == IF StartsWild(pattern) THEN Find(s, 0, parts[1])
               ELSE IF IsPrefix(parts[1], s) THEN <<Len(parts[1])>> ELSE << >>
      cursor[i \in 1 .. Len(parts)] ==
        IF i = 1 THEN first
        ELSE IF cursor[i - 1] = << >> THEN << >>
        ELSE IF i = Len(parts) /\ ~EndsWild(pattern) THEN EndsWith(s, cursor[i - 1][1], parts[i])
        ELSE Find(s, cursor[i - 1][1], parts[i])
      end == cursor[Len(parts)]
  IN  IF parts = << >> THEN TRUE
      ELSE end # << >> /\ (EndsWild(pattern) \/ end[1] = Len(s))

\* The three clauses, each from what the envelope carries.
LabelsMatch(filter, labels) ==
  \A k \in DOMAIN filter.labels : k \in DOMAIN labels /\ labels[k] = filter.labels[k]

SeverityMatches(filter, event) ==
  filter.severityMin = << >> \/
  /\ event.severity \in DOMAIN SeverityRank
  /\ SeverityRank[event.severity] >= SeverityRank[filter.severityMin[1]]

RuleMatches(filter, event) ==
  filter.pattern = << >> \/
  \E rule \in ToSet(event.blockedRule) \cup ToSet(event.wouldBlock) :
    GlobMatches(filter.pattern[1], rule)

matches(filter, labels, event) ==
  /\ LabelsMatch(filter, labels)
  /\ SeverityMatches(filter, event)
  /\ RuleMatches(filter, event)
=============================================================================
