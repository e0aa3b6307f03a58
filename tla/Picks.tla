------------------------------- MODULE Picks -------------------------------
(***************************************************************************)
(* The elements of a sequence at some of its positions, in their order: what *)
(* a loop leaves that goes through a list and keeps or drops each element.   *)
(***************************************************************************)
EXTENDS Naturals, Sequences

Picked(s, at) ==
  LET upTo[n \in 0 .. Len(s)] ==
        IF n = 0 THEN << >>
        ELSE IF n \in at THEN Append(upTo[n - 1], s[n]) ELSE upTo[n - 1]
  IN  upTo[Len(s)]

\* Those that are in a set.
Kept(s, these) == Picked(s, {i \in DOMAIN s : s[i] \in these})
=============================================================================
