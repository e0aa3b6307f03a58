-------------------------------- MODULE Text --------------------------------
(***************************************************************************)
(* Strings as the guest and the relay look at them.  A string is a sequence *)
(* of pieces: a piece stands for a stretch of text that the code never looks *)
(* into (a word, an address, an attack payload) or for one separator, and    *)
(* `enc` counts how many times its characters are percent-encoded.          *)
(***************************************************************************)
LOCAL INSTANCE Naturals
LOCAL INSTANCE Sequences
LOCAL INSTANCE SequencesExt

Piece(what, enc) == [what |-> what, enc |-> enc]
Plain(what)      == Piece(what, 0)

Holds(s, what) == \E i \in DOMAIN s : s[i] = Plain(what)

\* str::split on a separator: an encoded one does not split.
Split(s, sep) ==
  FoldLeft(LAMBDA parts, p :
             IF p = Plain(sep) THEN Append(parts, << >>)
                               ELSE [parts EXCEPT ![Len(parts)] = Append(@, p)],
           << << >> >>, s)

\* The position of the first, or the last, piece that is the separator; or 0.
FirstOf(s, sep) == SelectInSeq(s, LAMBDA p : p = Plain(sep))
LastOf(s, sep)  == SelectLastInSeq(s, LAMBDA p : p = Plain(sep))

Before(s, i) == SubSeq(s, 1, i - 1)
After(s, i)  == SubSeq(s, i + 1, Len(s))

\* str::trim
Trim(s) ==
  LET solid == {i \in DOMAIN s : s[i] # Plain("space")}
  IN  IF solid = {} THEN << >>
      ELSE SubSeq(s, CHOOSE i \in solid : \A j \in solid : i <= j,
                     CHOOSE i \in solid : \A j \in solid : i >= j)
=============================================================================
