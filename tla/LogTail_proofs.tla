----------------------------- MODULE LogTail_proofs -----------------------------
(***************************************************************************)
(* Proofs about LogTail, for any number of rotations, restarts and lines, any *)
(* bookmark interval and whatever happens around the source: what is passed  *)
(* on, what is skipped and what is repeated.                                *)
(***************************************************************************)
EXTENDS LogTail, Picks_proofs, FiniteSetTheorems

-----------------------------------------------------------------------------
(* Lines.                                                                  *)

\* A line has at least one unit, and no more than there are.
LEMMA LineLengths ==
  ASSUME NEW text \in Seq(Unit), text # << >> PROVE LineLength(text) \in 1 .. Len(text)
<1>1. Len(text) \in Nat \ {0} /\ DOMAIN text = 1 .. Len(text)
  OBVIOUS
<1>2. CASE \E i \in DOMAIN text : Ends(text[i])
  <2>. DEFINE At == {i \in DOMAIN text : Ends(text[i])}
  <2>0. At \in SUBSET Nat /\ At # {}
    BY <1>1, <1>2
  <2>1. PICK i \in At : \A j \in At : i <= j
    BY <2>0, LeastMember
  <2>2. i \in DOMAIN text /\ Ends(text[i]) /\ \A j \in 1 .. i - 1 : ~Ends(text[j])
    BY <1>1, <2>1
  <2>. QED  BY <1>1, <1>2, <2>2 DEF LineLength
<1>3. CASE ~\E i \in DOMAIN text : Ends(text[i])
  BY <1>1, <1>3 DEF LineLength
<1>. QED  BY <1>2, <1>3

-----------------------------------------------------------------------------
(* Types, those of the histories included.                                 *)

Locals ==
  [mode : {"down", "reading", "sending", "eof", "saving"}, inode : Inode, position : Nat,
   buffer : Seq(Unit), hand : Seq(Unit), emitted : 0 .. BookmarkEvery - 1,
   then : {"down", "reading"}]

Piece == [inode : Inode, text : Seq(Unit), from : Nat, run : Nat]
Mark  == [inode : Inode, position : Nat]

Typed ==
  /\ fromBeginning \in BOOLEAN
  /\ disk \in [Inode -> Seq(Unit)] /\ path \in Inode /\ nextLine \in 1 .. MaxLine + 1
  /\ bookmark = << >> \/ \E b \in Mark : bookmark = <<b>>
  /\ tail \in Locals
  /\ parserUp \in BOOLEAN
  /\ out \in Seq(Piece) /\ start \in [Inode -> Nat] /\ restarts \in Nat
  /\ happened \subseteq Happening
  /\ Len(tail.hand) <= tail.position
  /\ tail.hand = << >> <=> tail.mode # "sending"

\* Nothing is ever forgotten of what has happened.
LEMMA HappenedGrows == ASSUME [Next]_vars PROVE happened \subseteq happened'
BY DEF Next, Write, Rename, Truncate, RunTail, Start, ReadLine, ReadEof, Send, SendFails, Wakeup,
   Saved, Stop, ParserEnds, ReadFails, StartFails, Crash, Happens, vars

\* The locals of a source that starts or was reset.
LEMMA FreshLocals ==
  /\ Tail0 \in Locals /\ Tail0.mode = "down" /\ Tail0.inode = 1 /\ Tail0.position = 0
  /\ Tail0.buffer = << >> /\ Tail0.hand = << >> /\ Tail0.emitted = 0
  /\ Len(Tail0.hand) = 0
<1>1. << >> \in Seq(Unit) /\ 1 \in Inode /\ 0 \in 0 .. BookmarkEvery - 1
  <2>1. << >> \in Seq(Unit)
    OBVIOUS
  <2>. QED  BY <2>1, LogTailAssumption DEF Inode
<1>2. Len(<< >>) = 0
  OBVIOUS
<1>. QED  BY <1>1, <1>2 DEF Tail0, Locals

\* The writer appends units to the file at the path.
LEMMA WriteMoves ==
  ASSUME Typed, Write
  PROVE  /\ \E text \in Seq(Unit) : disk' = [disk EXCEPT ![path] = disk[path] \o text]
         /\ nextLine' \in 1 .. MaxLine + 1
         /\ UNCHANGED <<fromBeginning, path, bookmark, tail, parserUp, out, start, restarts>>
<1>1. nextLine \in 1 .. MaxLine + 1 /\ MaxLine \in Nat /\ disk[path] \in Seq(Unit)
  BY LogTailAssumption DEF Typed
<1>2. ASSUME nextLine <= MaxLine
      PROVE  <<nextLine, 1>> \in Unit /\ <<nextLine, 2>> \in Unit
  BY <1>1, <1>2 DEF Unit
<1>3. ASSUME HalfWritten PROVE <<Last(disk[path])[1], 2>> \in Unit
  <2>1. Last(disk[path]) \in Unit
    BY <1>1, <1>3 DEF HalfWritten, Last
  <2>. QED  BY <2>1 DEF Unit
<1>4. \A u, v \in Unit : <<u, v>> \in Seq(Unit) /\ <<u>> \in Seq(Unit)
  OBVIOUS
<1>5. \A text : Appends(text) => disk' = [disk EXCEPT ![path] = disk[path] \o text]
  BY DEF Appends
<1>6. CASE ~HalfWritten /\ nextLine <= MaxLine /\ nextLine' = nextLine + 1
           /\ (Appends(<<<<nextLine, 1>>, <<nextLine, 2>>>>) \/ Appends(<<<<nextLine, 1>>>>))
  <2>1. <<<<nextLine, 1>>, <<nextLine, 2>>>> \in Seq(Unit) /\ <<<<nextLine, 1>>>> \in Seq(Unit)
    BY <1>2, <1>4, <1>6
  <2>2. PICK text \in Seq(Unit) : Appends(text)
    BY <1>6, <2>1
  <2>3. nextLine' \in 1 .. MaxLine + 1
    BY <1>1, <1>6
  <2>. QED  BY <1>5, <2>2, <2>3 DEF Write
<1>7. CASE HalfWritten /\ nextLine' = nextLine /\ Appends(<<<<Last(disk[path])[1], 2>>>>)
  <2>1. <<<<Last(disk[path])[1], 2>>>> \in Seq(Unit)
    BY <1>3, <1>4, <1>7
  <2>. QED  BY <1>1, <1>5, <1>7, <2>1 DEF Write
<1>. QED  BY <1>6, <1>7 DEF Write

\* Where a start begins is a position in the file.
LEMMA StartsInTheFile ==
  ASSUME Typed
  PROVE  /\ StartPosition \in Nat /\ StartPosition <= Len(disk[path])
         /\ bookmark # << >> /\ bookmark[1].inode = path => StartPosition <= bookmark[1].position
<1>1. Len(disk[path]) \in Nat /\ (bookmark # << >> => bookmark[1] \in Mark)
  BY DEF Typed
<1>. QED  BY <1>1 DEF StartPosition, SmallerOf, Mark

\* open_at_start.
LEMMA StartMoves ==
  ASSUME Typed, Start
  PROVE  /\ tail' \in Locals /\ tail'.mode = "reading" /\ tail'.inode = path
         /\ tail'.position = StartPosition /\ tail'.buffer = << >> /\ tail'.hand = << >>
         /\ tail'.emitted = 0
<1>1. StartPosition \in Nat /\ path \in Inode
  BY StartsInTheFile DEF Typed
<1>2. tail' = [Tail0 EXCEPT !.mode = "reading", !.inode = path, !.position = StartPosition]
  BY DEF Start
<1>. QED  BY <1>1, <1>2, FreshLocals DEF Locals

\* What there is to read is a sequence of units.
LEMMA UnreadUnits == ASSUME Typed PROVE Unread \in Seq(Unit)
<1>1. tail.buffer \in Seq(Unit) /\ tail.position \in Nat /\ disk[tail.inode] \in Seq(Unit)
  BY DEF Typed, Locals
<1>2. tail.position + Len(tail.buffer) + 1 \in Int /\ Len(disk[tail.inode]) \in Int
  BY <1>1
<1>3. \A i \in tail.position + Len(tail.buffer) + 1 .. Len(disk[tail.inode]) :
        disk[tail.inode][i] \in Unit
  BY <1>1, ElementOfSeq
<1>4. SubSeq(disk[tail.inode], tail.position + Len(tail.buffer) + 1, Len(disk[tail.inode]))
        \in Seq(Unit)
  BY <1>2, <1>3, SubSeqProperties
<1>. QED  BY <1>1, <1>4, ConcatProperties DEF Unread

\* read_line takes a line of the text it looks at, and leaves the rest in the buffer.
Takes(text, n) ==
  /\ tail' = [tail EXCEPT !.mode = "sending", !.position = @ + n, !.hand = SubSeq(text, 1, n),
                          !.buffer = SubSeq(text, n + 1, Len(text))]
  /\ text = tail.buffer \/ text = Unread

\* A line of n units moves from the text to the hand.
LEMMA ReadLineMoves ==
  ASSUME Typed, ReadLine
  PROVE  \E text \in Seq(Unit) : \E n \in 1 .. Len(text) :
           /\ Takes(text, n)
           /\ tail' \in Locals /\ tail'.mode = "sending" /\ tail'.inode = tail.inode
           /\ tail'.position = tail.position + n /\ tail'.emitted = tail.emitted
           /\ tail'.hand = SubSeq(text, 1, n) /\ Len(tail'.hand) = n
           /\ tail'.buffer = SubSeq(text, n + 1, Len(text)) /\ Len(tail'.buffer) = Len(text) - n
<1>. DEFINE text == IF \E i \in DOMAIN tail.buffer : Ends(tail.buffer[i])
                    THEN tail.buffer ELSE Unread
            n    == LineLength(text)
<1>1. /\ text \in Seq(Unit) /\ text # << >>
      /\ text = tail.buffer \/ text = Unread
  BY UnreadUnits DEF Typed, Locals, ReadLine
<1>2. n \in 1 .. Len(text)
  BY <1>1, LineLengths
<1>3. tail' = [tail EXCEPT !.mode = "sending", !.position = @ + n, !.hand = SubSeq(text, 1, n),
                           !.buffer = SubSeq(text, n + 1, Len(text))]
  BY DEF ReadLine
<1>. HIDE DEF text, n
<1>4. /\ SubSeq(text, 1, n) \in Seq(Unit) /\ Len(SubSeq(text, 1, n)) = n
      /\ SubSeq(text, n + 1, Len(text)) \in Seq(Unit)
      /\ Len(SubSeq(text, n + 1, Len(text))) = Len(text) - n
  <2>1. \A i \in 1 .. Len(text) : text[i] \in Unit
    BY <1>1, ElementOfSeq
  <2>. QED  BY <1>1, <1>2, <2>1, SubSeqProperties
<1>5. tail.position + n \in Nat
  BY <1>2 DEF Typed, Locals
<1>6. tail' \in Locals /\ tail'.mode = "sending" /\ tail'.inode = tail.inode
      /\ tail'.position = tail.position + n /\ tail'.emitted = tail.emitted
      /\ tail'.hand = SubSeq(text, 1, n) /\ tail'.buffer = SubSeq(text, n + 1, Len(text))
  BY <1>3, <1>4, <1>5 DEF Typed, Locals
<1>. QED  BY <1>1, <1>2, <1>3, <1>4, <1>6 DEF Takes

\* Where the source stands: the unit that it has not passed on yet.
Here == tail.position - Len(tail.hand)

\* It is not before the beginning of the file.
LEMMA HereIsAPlace == ASSUME Typed PROVE Here \in Nat /\ (tail.hand = << >> => Here = tail.position)
BY DEF Typed, Locals, Here

\* The piece that a source sends.
Sent == [inode |-> tail.inode, text |-> tail.hand, from |-> Here, run |-> restarts]

\* The channel takes the line.
LEMMA SendMoves ==
  ASSUME Typed, Send
  PROVE  /\ Sent \in Piece /\ out' = Append(out, Sent)
         /\ tail' \in Locals /\ tail'.mode \in {"saving", "reading"}
         /\ tail'.inode = tail.inode /\ tail'.position = tail.position
         /\ tail'.buffer = tail.buffer /\ tail'.hand = << >>
         /\ tail'.mode = "reading" => tail'.emitted = tail.emitted + 1
<1>1. Sent \in Piece
  BY HereIsAPlace DEF Sent, Piece, Typed, Locals
<1>2. out' = Append(out, Sent)
  BY DEF Send, Sent, Here
<1>3. /\ tail \in Locals /\ << >> \in Seq(Unit)
      /\ tail.emitted \in 0 .. BookmarkEvery - 1 /\ BookmarkEvery \in Nat \ {0}
  BY LogTailAssumption DEF Typed, Locals
<1>4. CASE BookmarkDue(tail.emitted + 1)
  <2>1. tail' = [tail EXCEPT !.hand = << >>, !.then = "reading", !.mode = "saving", !.emitted = 0]
    BY <1>4 DEF Send
  <2>2. 0 \in 0 .. BookmarkEvery - 1
    BY <1>3
  <2>. QED  BY <1>1, <1>2, <1>3, <2>1, <2>2 DEF Locals
<1>5. CASE ~BookmarkDue(tail.emitted + 1)
  <2>1. tail' = [tail EXCEPT !.hand = << >>, !.then = "reading", !.mode = "reading",
                             !.emitted = tail.emitted + 1]
    BY <1>5 DEF Send
  <2>2. tail.emitted + 1 \in 0 .. BookmarkEvery - 1
    BY <1>3, <1>5 DEF BookmarkDue
  <2>. QED  BY <1>1, <1>2, <1>3, <2>1, <2>2 DEF Locals
<1>. QED  BY <1>4, <1>5

\* A step in which the source stays where it is in its file.
Rests ==
  /\ tail' \in Locals
  /\ tail'.inode = tail.inode /\ tail'.position = tail.position
  /\ tail'.buffer = tail.buffer /\ tail'.emitted = tail.emitted
  /\ tail'.hand = << >>

\* The end of file, a wakeup, a stop, the loss of the receiver and a saved bookmark.
LEMMA RestingMoves ==
  ASSUME Typed, ReadEof \/ (Wakeup /\ ~Rotated) \/ Stop \/ SendFails \/ Saved
  PROVE  Rests /\ UNCHANGED <<worldVars, out, start, restarts>>
<1>1. << >> \in Seq(Unit) /\ tail \in Locals
  BY DEF Typed
<1>2. CASE ReadEof \/ (Wakeup /\ ~Rotated) \/ Stop
  BY <1>1, <1>2 DEF ReadEof, Wakeup, Stop, Typed, Locals, Rests
<1>3. CASE SendFails
  BY <1>1, <1>3 DEF SendFails, Locals, Rests
<1>4. CASE Saved
  BY <1>1, <1>4 DEF Saved, Typed, Locals, Rests
<1>. QED  BY <1>2, <1>3, <1>4

\* The file was replaced or shortened: from the beginning of the one at the path.
LEMMA ReopenMoves ==
  ASSUME Typed, Wakeup, Rotated
  PROVE  /\ tail' \in Locals /\ tail'.mode = "saving" /\ tail'.inode = path
         /\ tail'.position = 0 /\ tail'.buffer = << >> /\ tail'.hand = << >>
         /\ tail'.emitted = 0
         /\ start' = [start EXCEPT ![path] = 0]
<1>1. tail' = [Tail0 EXCEPT !.mode = "saving", !.inode = path, !.then = "reading"]
  BY DEF Wakeup, Reopen
<1>2. path \in Inode
  BY DEF Typed
<1>. QED  BY <1>1, <1>2, FreshLocals DEF Locals, Wakeup, Reopen

\* A kill and a failed read leave the source down, and all it did in place.
EndsUnsaved == ReadFails \/ Crash

LEMMA EndMoves ==
  ASSUME EndsUnsaved
  PROVE  /\ tail.mode # "down"
         /\ tail' \in Locals /\ tail'.mode = "down" /\ tail'.inode = 1 /\ tail'.position = 0
         /\ tail'.buffer = << >> /\ tail'.hand = << >> /\ Len(tail'.hand) = 0
         /\ parserUp' = FALSE
         /\ UNCHANGED <<fromBeginning, disk, path, nextLine, bookmark, out, start, restarts>>
<1>1. tail.mode # "down" /\ Dies
  BY DEF EndsUnsaved, ReadFails, Crash
<1>. QED  BY <1>1, FreshLocals DEF Dies, worldVars

\* Types.
LEMMA TypesAreKept == Typed /\ [Next]_vars => Typed'
<1>. SUFFICES ASSUME Typed, [Next]_vars PROVE Typed'
  OBVIOUS
<1>1. happened' \subseteq Happening
  BY LogTailAssumption DEF Next, Write, Rename, Truncate, RunTail, Start, ReadLine, ReadEof, Send,
     SendFails, Wakeup, Saved, Stop, ParserEnds, ReadFails, StartFails, Crash, Happens, vars, Typed
<1>2. CASE Write
  <2>1. PICK text \in Seq(Unit) : disk' = [disk EXCEPT ![path] = disk[path] \o text]
    BY <1>2, WriteMoves
  <2>2. disk[path] \in Seq(Unit) /\ disk[path] \o text \in Seq(Unit)
    BY ConcatProperties DEF Typed
  <2>3. disk' \in [Inode -> Seq(Unit)]
    BY <2>1, <2>2 DEF Typed
  <2>. QED  BY <1>1, <1>2, <2>3, WriteMoves DEF Typed
<1>3. CASE Rename
  BY SMTT(40), <1>1, <1>3, LogTailAssumption DEF Rename, Typed, Inode
<1>4. CASE Truncate
  <2>1. << >> \in Seq(Unit)
    OBVIOUS
  <2>. QED  BY <1>1, <1>4, <2>1 DEF Truncate, Typed
<1>5. CASE Start
  <2>1. start' \in [Inode -> Nat]
    BY <1>5, StartsInTheFile DEF Start, Typed
  <2>2. tail' \in Locals /\ Len(tail'.hand) <= tail'.position /\ tail'.hand = << >>
        /\ tail'.mode # "sending"
    <3>1. tail' \in Locals /\ tail'.hand = << >> /\ tail'.mode = "reading"
      BY <1>5, StartMoves
    <3>. QED  BY <3>1 DEF Locals
  <2>. QED  BY <1>1, <1>5, <2>1, <2>2 DEF Start, worldVars, Typed
<1>6. CASE ReadLine
  <2>1. /\ tail' \in Locals /\ tail'.mode = "sending"
        /\ \E n \in Nat \ {0} : tail'.position = tail.position + n /\ Len(tail'.hand) = n
    BY <1>6, ReadLineMoves
  <2>2. Len(tail'.hand) <= tail'.position /\ tail'.hand # << >>
    BY <2>1 DEF Typed, Locals
  <2>. QED  BY <1>1, <1>6, <2>1, <2>2 DEF ReadLine, worldVars, Typed
<1>7. CASE Send
  <2>1. out' \in Seq(Piece)
    <3>1. out \in Seq(Piece) /\ Sent \in Piece /\ out' = Append(out, Sent)
      BY <1>7, SendMoves DEF Typed
    <3>. QED  BY <3>1, AppendProperties
  <2>2. tail' \in Locals /\ tail'.mode # "sending" /\ tail'.hand = << >>
    BY <1>7, SendMoves
  <2>3. Len(tail'.hand) <= tail'.position
    BY <2>2 DEF Locals
  <2>. QED  BY <1>1, <1>7, <2>1, <2>2, <2>3 DEF Send, worldVars, Typed
<1>8. CASE ReadEof \/ (Wakeup /\ ~Rotated) \/ Stop \/ SendFails \/ Saved
  <2>1. Rests /\ UNCHANGED <<worldVars, out, start, restarts>>
    BY <1>8, RestingMoves
  <2>2. tail'.mode # "sending"
    BY <1>8 DEF ReadEof, Wakeup, Stop, SendFails, Saved, Typed, Locals
  <2>3. parserUp' \in BOOLEAN
    BY <1>8 DEF ReadEof, Wakeup, Stop, SendFails, Saved, Typed
  <2>4. bookmark' = << >> \/ \E b \in Mark : bookmark' = <<b>>
    <3>1. [inode |-> tail.inode, position |-> tail.position] \in Mark
      BY DEF Typed, Locals, Mark
    <3>. QED  BY <1>8, <3>1 DEF ReadEof, Wakeup, Stop, SendFails, Saved, Typed
  <2>5. Len(tail'.hand) <= tail'.position
    BY <2>1 DEF Rests, Locals
  <2>. QED  BY <1>1, <2>1, <2>2, <2>3, <2>4, <2>5 DEF Rests, worldVars, Typed
<1>9. CASE Wakeup /\ Rotated
  BY <1>1, <1>9, ReopenMoves DEF Wakeup, worldVars, Typed
<1>10. CASE ParserEnds \/ StartFails
  BY <1>1, <1>10 DEF ParserEnds, StartFails, worldVars, Typed
<1>11. CASE EndsUnsaved
  BY <1>1, <1>11, EndMoves DEF Typed
<1>12. CASE UNCHANGED vars
  BY <1>12 DEF vars, Typed
<1>. QED  BY <1>2, <1>3, <1>4, <1>5, <1>6, <1>7, <1>8, <1>9, <1>10, <1>11, <1>12
     DEF Next, RunTail, EndsUnsaved

\* Before the first start.
LEMMA InitIsTyped == Init => Typed
<1>1. << >> \in Seq(Unit) /\ << >> \in Seq(Piece) /\ Len(<< >>) = 0
  OBVIOUS
<1>2. ASSUME Init PROVE Typed
  <2>1. /\ disk \in [Inode -> Seq(Unit)] /\ path \in Inode /\ nextLine \in 1 .. MaxLine + 1
        /\ start \in [Inode -> Nat] /\ out \in Seq(Piece)
    BY <1>1, <1>2, LogTailAssumption DEF Init, Inode
  <2>2. Len(tail.hand) <= tail.position /\ tail.hand = << >> /\ tail.mode = "down"
    BY <1>2, FreshLocals DEF Init
  <2>. QED  BY <1>1, <1>2, <2>1, <2>2, FreshLocals, LogTailAssumption DEF Init, Typed
<1>. QED  BY <1>2

-----------------------------------------------------------------------------
(* The inductive invariant.                                                *)

\* In every behaviour: files are named in turn, and nothing empty is passed on.
OrderInv ==
  /\ tail.inode <= path
  /\ bookmark # << >> => bookmark[1].inode <= path
  /\ \A k \in DOMAIN out :
       /\ out[k].inode <= path /\ out[k].run <= restarts /\ out[k].text # << >>
       /\ tail.mode # "down" /\ out[k].run = restarts => out[k].inode <= tail.inode
  /\ restarts = 0 => tail.mode = "down" /\ out = << >> /\ bookmark = << >>

\* The receiver is lost only when the parser ends.
ReceiverInv == tail.mode # "down" /\ "parser ends" \notin happened => parserUp

\* While no file is truncated, what the source holds is what the file has there, and
\* neither it nor the bookmark is past the end.
FileInv ==
  "truncate" \notin happened =>
    /\ tail.position + Len(tail.buffer) <= Len(disk[tail.inode])
    /\ tail.hand = SubSeq(disk[tail.inode], Here + 1, tail.position)
    /\ tail.buffer = SubSeq(disk[tail.inode], tail.position + 1,
                            tail.position + Len(tail.buffer))
    /\ bookmark # << >> => bookmark[1].position <= Len(disk[bookmark[1].inode])

PieceEnd(k) == out[k].from + Len(out[k].text)

\* A run is past all that it has passed on.
PastInv ==
  "truncate" \notin happened /\ tail.mode # "down" =>
    \A k \in DOMAIN out :
      out[k].run = restarts /\ out[k].inode = tail.inode => PieceEnd(k) <= Here

\* With no line lost to the parser's end, what is behind the source, behind the bookmark
\* and behind anything passed on was passed on.
Gapless == \A i \in Inode : \A u \in Covered(i) : 1 .. u \subseteq Covered(i)

AllPassedOn ==
  /\ \A i \in Inode : start[i] = 0
  /\ tail.mode # "down" => 1 .. Here \subseteq Covered(tail.inode)
  /\ bookmark # << >> => 1 .. bookmark[1].position \subseteq Covered(bookmark[1].inode)
  /\ Gapless

FromTheBeginning == fromBeginning /\ "parser ends" \notin happened /\ "truncate" \notin happened

SkipInv == FromTheBeginning => AllPassedOn

\* With every bookmark in place, a source goes on where it stopped, behind all that was
\* ever passed on.
BookmarksInPlace ==
  /\ "crash" \notin happened /\ "read error" \notin happened
  /\ "disk full" \notin happened /\ "truncate" \notin happened

NothingAhead ==
  /\ \A k \in DOMAIN out :
       /\ out[k].inode <= tail.inode
       /\ out[k].inode = tail.inode => PieceEnd(k) <= Here
  /\ \A k, l \in DOMAIN out :
       k < l /\ out[k].inode = out[l].inode => PieceEnd(k) <= out[l].from

MarkedHere ==
  restarts > 0 /\ tail.mode = "down" =>
    /\ bookmark # << >>
    /\ bookmark[1].inode = tail.inode /\ bookmark[1].position = tail.position

RepeatInv == BookmarksInPlace => NothingAhead /\ MarkedHere

\* What this run has passed on of the file at the path and a kill would repeat.
SavedPosition ==
  IF bookmark # << >> /\ bookmark[1].inode = path THEN bookmark[1].position ELSE 0

Late == {k \in DOMAIN out : /\ out[k].run = restarts
                            /\ out[k].inode = path
                            /\ out[k].from >= SavedPosition}

\* The source counts at least what a kill would repeat.
LateAreCounted ==
  /\ Cardinality(Late) <= BookmarkEvery
  /\ tail.mode \in {"reading", "sending", "eof"} => Cardinality(Late) <= tail.emitted

BookmarksWritten == "disk full" \notin happened /\ "truncate" \notin happened

ReplayInv == BookmarksWritten => LateAreCounted

\* With stops and starts only there is one file, and its pieces lie end to end.
Calm == happened \subseteq {"stop", "partial"}

EndToEnd ==
  /\ path = 1
  /\ \A k \in DOMAIN out :
       /\ out[k].from = EndOf(k - 1)
       /\ out[k].text = SubSeq(disk[path], out[k].from + 1, EndOf(k))
       /\ EndOf(k) <= Len(disk[path])
  /\ restarts > 0 => EndOf(Len(out)) = Here

CalmInv == Calm => EndToEnd

LogInv ==
  /\ Typed /\ OrderInv /\ ReceiverInv /\ FileInv /\ PastInv
  /\ SkipInv /\ RepeatInv /\ ReplayInv /\ CalmInv

-----------------------------------------------------------------------------
(* The order of files and runs.                                            *)

\* What was passed on stays, and what is sent comes behind it.
LEMMA SendAppends ==
  ASSUME Typed, Send
  PROVE  /\ tail.mode = "sending" /\ tail.hand # << >>
         /\ Len(out) \in Nat /\ DOMAIN out = 1 .. Len(out)
         /\ Len(out') = Len(out) + 1 /\ DOMAIN out' = 1 .. Len(out) + 1
         /\ out'[Len(out) + 1] = Sent
         /\ \A k \in DOMAIN out : out'[k] = out[k] /\ k # Len(out) + 1
         /\ Sent.inode = tail.inode /\ Sent.text = tail.hand /\ Sent.from = Here
         /\ Sent.run = restarts
         /\ Here \in Nat /\ Here + Len(tail.hand) = tail.position /\ Len(tail.hand) \in Nat \ {0}
<1>1. out \in Seq(Piece) /\ Sent \in Piece /\ out' = Append(out, Sent)
  BY SendMoves DEF Typed
<1>2. /\ Len(out) \in Nat /\ DOMAIN out = 1 .. Len(out)
      /\ Len(out') = Len(out) + 1 /\ DOMAIN out' = 1 .. Len(out) + 1
      /\ out'[Len(out) + 1] = Sent
      /\ \A k \in DOMAIN out : out'[k] = out[k] /\ k # Len(out) + 1
  BY <1>1
<1>3. Here \in Nat /\ tail.hand \in Seq(Unit) /\ tail.hand # << >> /\ tail.position \in Nat
      /\ tail.mode = "sending"
  BY HereIsAPlace DEF Send, Typed, Locals
<1>4. Here + Len(tail.hand) = tail.position /\ Len(tail.hand) \in Nat \ {0}
  BY <1>3 DEF Here
<1>. QED  BY <1>2, <1>3, <1>4 DEF Sent

\* What was passed on, its inode, its place and its run.
LEMMA PiecesOut ==
  ASSUME Typed, NEW k \in DOMAIN out
  PROVE  /\ out[k].inode \in Inode /\ out[k].text \in Seq(Unit) /\ out[k].from \in Nat
         /\ out[k].run \in Nat /\ Len(out[k].text) \in Nat /\ PieceEnd(k) \in Nat
<1>1. out[k] \in Piece
  BY ElementOfSeq DEF Typed
<1>. QED  BY <1>1 DEF Piece, PieceEnd

\* The steps that touch neither the source's place, nor its bookmark, nor the history.
LEMMA OrderWhereItWas ==
  ASSUME OrderInv, path' = path, UNCHANGED <<bookmark, out, restarts>>,
         tail'.inode = tail.inode, tail'.mode = "down" <=> tail.mode = "down"
  PROVE  OrderInv'
BY DEF OrderInv

\* OrderInv is kept by every step.
LEMMA OrderIsKept == ASSUME Typed, OrderInv, [Next]_vars PROVE OrderInv'
<1>1. /\ path \in Nat \ {0} /\ tail.inode \in Nat \ {0} /\ restarts \in Nat
      /\ \A k \in DOMAIN out : out[k].inode \in Nat /\ out[k].run \in Nat
      /\ bookmark # << >> => bookmark[1].inode \in Nat
  BY PiecesOut DEF Typed, Locals, Inode, Mark
<1>2. CASE Write \/ Truncate \/ ParserEnds \/ StartFails \/ UNCHANGED vars
  <2>1. UNCHANGED <<path, bookmark, tail, out, restarts>>
    BY <1>2, WriteMoves DEF Truncate, ParserEnds, StartFails, worldVars, vars
  <2>. QED  BY <2>1, OrderWhereItWas
<1>3. CASE Rename
  <2>1. path' = path + 1 /\ UNCHANGED <<bookmark, tail, out, restarts>>
    BY <1>3 DEF Rename
  <2>. QED  BY <1>1, <2>1 DEF OrderInv
<1>4. CASE Start
  <2>1. /\ tail'.mode = "reading" /\ tail'.inode = path /\ restarts' = restarts + 1
        /\ UNCHANGED <<path, bookmark, out>>
    BY <1>4, StartMoves DEF Start, worldVars
  <2>. QED  BY <1>1, <2>1 DEF OrderInv
<1>5. CASE ReadLine
  <2>1. /\ tail'.mode = "sending" /\ tail'.inode = tail.inode /\ tail.mode = "reading"
        /\ UNCHANGED <<path, bookmark, out, restarts>>
    BY <1>5, ReadLineMoves DEF ReadLine, worldVars
  <2>. QED  BY <2>1, OrderWhereItWas
<1>6. CASE Send
  <2>1. /\ tail'.mode # "down" /\ tail'.inode = tail.inode
        /\ UNCHANGED <<path, bookmark, restarts>>
    BY <1>6, SendMoves DEF Send, worldVars
  <2>. QED  BY <1>1, <1>6, <2>1, SendAppends DEF OrderInv
<1>7. CASE ReadEof \/ (Wakeup /\ ~Rotated) \/ Stop \/ SendFails
  <2>1. tail'.inode = tail.inode /\ UNCHANGED <<path, bookmark, out, restarts>>
    BY <1>7, RestingMoves DEF Rests, worldVars, ReadEof, Wakeup, Stop, SendFails
  <2>2. tail'.mode # "down" /\ tail.mode # "down"
    BY <1>7 DEF ReadEof, Wakeup, Stop, SendFails, Typed, Locals
  <2>. QED  BY <2>1, <2>2, OrderWhereItWas
<1>8. CASE Saved
  <2>1. tail'.inode = tail.inode /\ UNCHANGED <<path, out, restarts>> /\ tail.mode # "down"
    BY <1>8, RestingMoves DEF Rests, worldVars, Saved
  <2>2. \/ bookmark' = bookmark
        \/ bookmark' # << >> /\ bookmark'[1].inode = tail.inode
    <3>1. PICK b : b = [inode |-> tail.inode, position |-> tail.position]
      OBVIOUS
    <3>2. <<b>>[1] = b /\ <<b>> # << >> /\ b.inode = tail.inode
      BY <3>1
    <3>3. bookmark' = <<b>> \/ bookmark' = bookmark
      BY <1>8, <3>1 DEF Saved
    <3>. QED  BY <3>2, <3>3
  <2>3. restarts # 0
    BY <2>1 DEF OrderInv
  <2>. QED  BY <1>1, <2>1, <2>2, <2>3 DEF OrderInv
<1>9. CASE Wakeup /\ Rotated
  <2>1. /\ tail'.inode = path /\ tail'.mode = "saving" /\ tail.mode = "eof"
        /\ UNCHANGED <<path, bookmark, out, restarts>>
    BY <1>9, ReopenMoves DEF Wakeup, worldVars
  <2>. QED  BY <1>1, <2>1 DEF OrderInv
<1>10. CASE EndsUnsaved
  BY <1>1, <1>10, EndMoves DEF OrderInv
<1>. QED  BY <1>2, <1>3, <1>4, <1>5, <1>6, <1>7, <1>8, <1>9, <1>10 DEF Next, RunTail, EndsUnsaved

\* So is ReceiverInv.
LEMMA ReceiverIsKept == ASSUME Typed, ReceiverInv, [Next]_vars PROVE ReceiverInv'
<1>1. happened \subseteq happened'
  BY HappenedGrows
<1>2. CASE Write \/ Rename \/ Truncate \/ StartFails \/ UNCHANGED vars
  <2>1. UNCHANGED <<tail, parserUp>>
    BY <1>2, WriteMoves DEF Rename, Truncate, StartFails, vars
  <2>. QED  BY <1>1, <2>1 DEF ReceiverInv
<1>3. CASE Start
  BY <1>3 DEF Start, ReceiverInv
<1>4. CASE ReadLine \/ Send \/ ReadEof \/ Wakeup \/ Stop \/ SendFails
  <2>1. parserUp' = parserUp /\ tail.mode # "down"
    BY <1>4 DEF ReadLine, Send, ReadEof, Wakeup, Stop, SendFails
  <2>. QED  BY <1>1, <2>1 DEF ReceiverInv
<1>5. CASE Saved
  <2>1. tail'.mode = tail.then /\ tail.mode # "down"
    BY <1>5 DEF Saved, Typed, Locals
  <2>2. parserUp' = (parserUp /\ tail.then # "down")
    BY <1>5 DEF Saved
  <2>. QED  BY <1>1, <2>1, <2>2 DEF ReceiverInv
<1>6. CASE ParserEnds
  BY <1>6 DEF ParserEnds, Happens, ReceiverInv
<1>7. CASE EndsUnsaved
  BY <1>7, EndMoves DEF ReceiverInv
<1>. QED  BY <1>2, <1>3, <1>4, <1>5, <1>6, <1>7 DEF Next, RunTail, EndsUnsaved

-----------------------------------------------------------------------------
(* What the source holds is what the file has.                             *)

\* Lengths of a file that grew.
LEMMA Longer ==
  ASSUME NEW s \in Seq(Unit), NEW t \in Seq(Unit)
  PROVE  /\ Len(s) \in Nat /\ Len(s \o t) \in Nat /\ Len(s) <= Len(s \o t)
<1>1. Len(s) \in Nat /\ Len(t) \in Nat /\ Len(s \o t) = Len(s) + Len(t)
  OBVIOUS
<1>. QED  BY <1>1

\* A file that grew still has what it had.
LEMMA SameInGrown ==
  ASSUME NEW s \in Seq(Unit), NEW t \in Seq(Unit), NEW a \in Nat \ {0}, NEW b \in Nat, b <= Len(s)
  PROVE  SubSeq(s \o t, a, b) = SubSeq(s, a, b)
<1>1. CASE b < a
  BY <1>1, SubSeqEmpty
<1>2. CASE a <= b
  <2>1. a \in 1 .. Len(s) /\ b \in 1 .. Len(s)
    BY <1>2
  <2>. QED  BY <2>1, SubSeqOfConcat1
<1>. QED  BY <1>1, <1>2

\* A piece of the file, cut in two.
LEMMA CutInTwo ==
  ASSUME NEW s \in Seq(Unit), NEW p \in Nat, NEW m \in p .. Len(s), NEW text,
         text = SubSeq(s, p + 1, m), NEW n \in 1 .. m - p
  PROVE  /\ Len(text) = m - p
         /\ SubSeq(text, 1, n) = SubSeq(s, p + 1, p + n)
         /\ SubSeq(text, n + 1, Len(text)) = SubSeq(s, p + n + 1, m)
<1>1. \A i \in p + 1 .. m : s[i] \in Unit
  BY ElementOfSeq
<1>2. Len(text) = m - p
  BY <1>1, SubSeqProperties
<1>3. p + 1 \in 1 .. Len(s) /\ m \in 1 .. Len(s) /\ m - (p + 1) + 1 = m - p
  OBVIOUS
<1>4. \A a, b \in 1 .. m - p : SubSeq(text, a, b) = SubSeq(s, p + a, p + b)
  <2>. TAKE a \in 1 .. m - p, b \in 1 .. m - p
  <2>1. SubSeq(SubSeq(s, p + 1, m), a, b) = SubSeq(s, p + 1 + a - 1, p + 1 + b - 1)
    <3>1. a \in 1 .. m - (p + 1) + 1 /\ b \in 1 .. m - (p + 1) + 1
      BY <1>3
    <3>. QED  BY <1>3, <3>1, SubSeqOfSubSeq
  <2>2. p + 1 + a - 1 = p + a /\ p + 1 + b - 1 = p + b
    OBVIOUS
  <2>. QED  BY <2>1, <2>2
<1>5. SubSeq(text, 1, n) = SubSeq(s, p + 1, p + n)
  BY <1>4
<1>6. SubSeq(text, n + 1, m - p) = SubSeq(s, p + n + 1, m)
  <2>1. CASE n = m - p
    <3>1. SubSeq(text, n + 1, m - p) = << >> /\ SubSeq(s, p + n + 1, m) = << >>
      BY <2>1, SubSeqEmpty
    <3>. QED  BY <3>1
  <2>2. CASE n < m - p
    <3>1. n + 1 \in 1 .. m - p /\ m - p \in 1 .. m - p /\ p + (n + 1) = p + n + 1 /\ p + (m - p) = m
      BY <2>2
    <3>2. SubSeq(text, n + 1, m - p) = SubSeq(s, p + (n + 1), p + (m - p))
      BY <1>4, <3>1
    <3>. QED  BY <3>1, <3>2
  <2>. QED  BY <2>1, <2>2
<1>. QED  BY <1>2, <1>5, <1>6

\* Two neighbouring pieces are one.
LEMMA Rejoined ==
  ASSUME NEW s \in Seq(Unit), NEW p \in Nat, NEW k \in p .. Len(s)
  PROVE  SubSeq(s, p + 1, k) \o SubSeq(s, k + 1, Len(s)) = SubSeq(s, p + 1, Len(s))
<1>1. Len(s) \in Nat /\ k \in Nat /\ p + 1 - 1 = p
  OBVIOUS
<1>2. PICK m \in 1 .. Len(s) + 1 : m = p + 1
  BY <1>1
<1>3. k \in m - 1 .. Len(s) /\ Len(s) \in k .. Len(s)
  BY <1>1, <1>2
<1>4. SubSeq(s, m, k) \o SubSeq(s, k + 1, Len(s)) = SubSeq(s, m, Len(s))
  BY <1>3, ConcatAdjacentSubSeq
<1>. QED  BY <1>2, <1>4

\* The buffer and what the file has behind it are one piece of the file.
LEMMA UnreadIsTheRest ==
  ASSUME Typed, FileInv, "truncate" \notin happened
  PROVE  Unread = SubSeq(disk[tail.inode], tail.position + 1, Len(disk[tail.inode]))
<1>. PICK s \in Seq(Unit) : s = disk[tail.inode]
  BY DEF Typed, Locals
<1>. PICK p \in Nat : p = tail.position
  BY DEF Typed, Locals
<1>. PICK k \in Nat : k = tail.position + Len(tail.buffer)
  BY DEF Typed, Locals
<1>1. tail.buffer = SubSeq(s, p + 1, k)
  BY DEF FileInv
<1>2. Len(s) \in Nat /\ k <= Len(s) /\ p <= k
  <2>1. Len(tail.buffer) \in Nat
    BY DEF Typed, Locals
  <2>2. k <= Len(s)
    BY DEF FileInv
  <2>. QED  BY <2>1, <2>2
<1>3. SubSeq(s, p + 1, k) \o SubSeq(s, k + 1, Len(s)) = SubSeq(s, p + 1, Len(s))
  <2>1. k \in p .. Len(s)
    BY <1>2
  <2>. QED  BY <2>1, Rejoined
<1>. QED  BY <1>1, <1>3 DEF Unread

\* Nothing in hand, nothing in the buffer, and a place in the file.
LEMMA EmptyHanded ==
  ASSUME NEW s, NEW p \in Nat
  PROVE  << >> = SubSeq(s, p + 1, p) /\ Len(<< >>) = 0
<1>1. p + 1 \in Int /\ p \in Int /\ p < p + 1
  OBVIOUS
<1>. QED  BY <1>1, SubSeqEmpty

\* The writer only appends.
LEMMA FilesGrow ==
  ASSUME Typed, [Next]_vars, "truncate" \notin happened', NEW i \in Inode
  PROVE  disk[i] \in Seq(Unit) /\ \E t \in Seq(Unit) : disk'[i] = disk[i] \o t
<1>1. disk[i] \in Seq(Unit) /\ path \in Inode
  BY DEF Typed
<1>2. << >> \in Seq(Unit) /\ disk[i] \o << >> = disk[i]
  BY <1>1
<1>3. CASE Write
  <2>1. PICK text \in Seq(Unit) : disk' = [disk EXCEPT ![path] = disk[path] \o text]
    BY <1>3, WriteMoves
  <2>2. CASE i = path
    BY <1>1, <2>1, <2>2 DEF Typed
  <2>3. CASE i # path
    BY <1>1, <1>2, <2>1, <2>3 DEF Typed
  <2>. QED  BY <2>2, <2>3
<1>4. CASE disk' = disk
  BY <1>1, <1>2, <1>4
<1>5. Write \/ disk' = disk
  BY DEF Next, Rename, Truncate, RunTail, Start, ReadLine, ReadEof, Send, SendFails, Wakeup,
     Saved, Stop, ParserEnds, ReadFails, StartFails, Crash, Dies, Happens, worldVars, vars
<1>. QED  BY <1>1, <1>3, <1>4, <1>5

\* Nothing is kept, from some place of a file on: what a start, a reopening and a kill
\* make of the source.
LEMMA EmptyHandedFits ==
  ASSUME Typed, NEW i \in Inode, NEW p \in Nat, p <= Len(disk[i]),
         tail'.inode = i, tail'.position = p, tail'.buffer = << >>, tail'.hand = << >>,
         disk' = disk, bookmark' = bookmark,
         "truncate" \notin happened, FileInv
  PROVE  FileInv'
<1>1. << >> = SubSeq(disk[i], p + 1, p) /\ Len(<< >>) = 0
  BY EmptyHanded
<1>2. Here' = p
  BY <1>1 DEF Here
<1>3. p + Len(<< >>) = p
  BY <1>1
<1>. QED  BY <1>1, <1>2, <1>3 DEF FileInv

\* FileInv is kept by every step.
LEMMA FileIsKept == ASSUME Typed, FileInv, [Next]_vars PROVE FileInv'
<1>. SUFFICES ASSUME "truncate" \notin happened' PROVE FileInv'
  BY DEF FileInv
<1>1. "truncate" \notin happened
  BY HappenedGrows
<1>2. /\ tail.inode \in Inode /\ tail.position \in Nat /\ path \in Inode
      /\ Len(tail.buffer) \in Nat /\ Len(tail.hand) \in Nat /\ Here \in Nat
      /\ Here + Len(tail.hand) = tail.position
      /\ \A i \in Inode : disk[i] \in Seq(Unit) /\ Len(disk[i]) \in Nat
      /\ bookmark # << >> => bookmark[1].inode \in Inode /\ bookmark[1].position \in Nat
  BY SMTT(40), HereIsAPlace DEF Typed, Locals, Mark, Here
<1>3. /\ tail.position + Len(tail.buffer) <= Len(disk[tail.inode])
      /\ tail.hand = SubSeq(disk[tail.inode], Here + 1, tail.position)
      /\ tail.buffer = SubSeq(disk[tail.inode], tail.position + 1,
                              tail.position + Len(tail.buffer))
      /\ bookmark # << >> => bookmark[1].position <= Len(disk[bookmark[1].inode])
  BY <1>1 DEF FileInv
<1>4. CASE UNCHANGED <<bookmark, tail>>
  <2>1. PICK t \in Seq(Unit) : disk'[tail.inode] = disk[tail.inode] \o t
    BY <1>2, FilesGrow
  <2>2. PICK s \in Seq(Unit) : s = disk[tail.inode]
    BY <1>2
  <2>3. PICK b \in Nat : b = tail.position + Len(tail.buffer)
    BY <1>2
  <2>4. /\ b <= Len(s) /\ tail.position <= b /\ tail.position <= Len(s)
        /\ Len(s) <= Len(s \o t) /\ Len(s) \in Nat /\ Len(s \o t) \in Nat
    <3>1. b <= Len(s) /\ tail.position <= b
      BY <1>2, <1>3, <2>2, <2>3
    <3>2. Len(s) <= Len(s \o t) /\ Len(s) \in Nat /\ Len(s \o t) \in Nat
      BY Longer
    <3>. QED  BY <1>2, <3>1, <3>2
  <2>5. SubSeq(s \o t, Here + 1, tail.position) = SubSeq(s, Here + 1, tail.position)
    <3>1. Here + 1 \in Nat \ {0} /\ tail.position \in Nat
      BY <1>2
    <3>. QED  BY <2>4, <3>1, SameInGrown
  <2>6. SubSeq(s \o t, tail.position + 1, b) = SubSeq(s, tail.position + 1, b)
    <3>1. tail.position + 1 \in Nat \ {0}
      BY <1>2
    <3>. QED  BY <2>4, <3>1, SameInGrown
  <2>7. ASSUME bookmark # << >>
        PROVE  bookmark[1].position <= Len(disk'[bookmark[1].inode])
    <3>1. PICK u \in Seq(Unit) : disk'[bookmark[1].inode] = disk[bookmark[1].inode] \o u
      BY <1>2, <2>7, FilesGrow
    <3>2. PICK d \in Seq(Unit) : d = disk[bookmark[1].inode]
      BY <1>2, <2>7
    <3>3. Len(d) <= Len(d \o u) /\ Len(d) \in Nat /\ Len(d \o u) \in Nat
      BY Longer
    <3>4. bookmark[1].position \in Nat /\ bookmark[1].position <= Len(d)
      BY <1>2, <1>3, <2>7, <3>2
    <3>5. bookmark[1].position <= Len(d \o u)
      BY <3>3, <3>4
    <3>. QED  BY <3>1, <3>2, <3>5
  <2>8. Here' = Here
    BY <1>4 DEF Here
  <2>9. b <= Len(s \o t)
    BY <2>2, <2>4
  <2>. QED  BY <1>3, <1>4, <2>1, <2>2, <2>3, <2>5, <2>6, <2>7, <2>8, <2>9 DEF FileInv
<1>5. CASE Start
  BY <1>1, <1>2, <1>5, StartMoves, StartsInTheFile, EmptyHandedFits DEF Start, worldVars
<1>6. CASE ReadLine
  <2>0. PICK text \in Seq(Unit) : \E n \in 1 .. Len(text) :
          /\ text = tail.buffer \/ text = Unread
          /\ tail'.inode = tail.inode /\ tail'.position = tail.position + n
          /\ tail'.hand = SubSeq(text, 1, n) /\ Len(tail'.hand) = n
          /\ tail'.buffer = SubSeq(text, n + 1, Len(text)) /\ Len(tail'.buffer) = Len(text) - n
    BY <1>6, ReadLineMoves DEF Takes
  <2>1. PICK n \in 1 .. Len(text) :
          /\ text = tail.buffer \/ text = Unread
          /\ tail'.inode = tail.inode /\ tail'.position = tail.position + n
          /\ tail'.hand = SubSeq(text, 1, n) /\ Len(tail'.hand) = n
          /\ tail'.buffer = SubSeq(text, n + 1, Len(text)) /\ Len(tail'.buffer) = Len(text) - n
    BY <2>0
  <2>2. PICK s \in Seq(Unit) : s = disk[tail.inode]
    BY <1>2
  <2>3. PICK p \in Nat : p = tail.position
    BY <1>2
  <2>4. PICK m \in p .. Len(s) : text = SubSeq(s, p + 1, m)
    <3>1. CASE text = tail.buffer
      <4>1. PICK m \in p .. Len(s) : m = tail.position + Len(tail.buffer)
        BY SMTT(40), <1>2, <1>3, <2>2, <2>3
      <4>. QED  BY <1>3, <2>2, <2>3, <3>1, <4>1
    <3>2. CASE text = Unread
      <4>1. text = SubSeq(s, p + 1, Len(s))
        BY <1>1, <2>2, <2>3, <3>2, UnreadIsTheRest
      <4>2. Len(s) \in p .. Len(s)
        BY SMTT(40), <1>2, <1>3, <2>2, <2>3
      <4>. QED  BY <4>1, <4>2
    <3>. QED  BY <2>1, <3>1, <3>2
  <2>5. Len(text) = m - p
    <3>1. \A i \in p + 1 .. m : s[i] \in Unit
      BY ElementOfSeq
    <3>2. p + 1 \in Int /\ m \in Int
      OBVIOUS
    <3>. QED  BY <2>4, <3>1, <3>2, SubSeqProperties
  <2>6. n \in 1 .. m - p
    BY <2>1, <2>5
  <2>7. /\ SubSeq(text, 1, n) = SubSeq(s, p + 1, p + n)
        /\ SubSeq(text, n + 1, Len(text)) = SubSeq(s, p + n + 1, m)
    BY <2>4, <2>6, CutInTwo
  <2>8. Here' = p /\ p + n + (m - p - n) = m /\ m <= Len(s)
    BY <2>1, <2>3 DEF Here
  <2>9. bookmark' = bookmark /\ disk' = disk
    BY <1>6 DEF ReadLine, worldVars
  <2>10. Len(tail'.buffer) = m - p - n /\ tail'.position = p + n
    BY <2>1, <2>3, <2>5
  <2>. QED  BY <1>3, <2>1, <2>2, <2>7, <2>8, <2>9, <2>10 DEF FileInv
<1>7. CASE Send \/ ReadEof \/ (Wakeup /\ ~Rotated) \/ Stop \/ SendFails \/ Saved
  <2>1. /\ tail'.inode = tail.inode /\ tail'.position = tail.position
        /\ tail'.buffer = tail.buffer /\ tail'.hand = << >> /\ disk' = disk
    BY <1>7, RestingMoves, SendMoves DEF Rests, worldVars, Send
  <2>2. << >> = SubSeq(disk[tail.inode], tail.position + 1, tail.position) /\ Len(<< >>) = 0
    BY <1>2, EmptyHanded
  <2>3. Here' = tail.position
    BY <1>2, <2>1, <2>2 DEF Here
  <2>4. bookmark' # << >> => bookmark'[1].position <= Len(disk[bookmark'[1].inode])
    <3>1. CASE bookmark' = bookmark
      BY <1>3, <3>1
    <3>2. CASE bookmark' = <<[inode |-> tail.inode, position |-> tail.position]>>
      <4>1. PICK b : b = [inode |-> tail.inode, position |-> tail.position]
        OBVIOUS
      <4>2. bookmark'[1] = b /\ b.inode = tail.inode /\ b.position = tail.position
        BY <3>2, <4>1
      <4>3. tail.position <= Len(disk[tail.inode])
        <5>1. \A x, y, z \in Nat : x + y <= z => x <= z
          OBVIOUS
        <5>2. /\ tail.position \in Nat /\ Len(tail.buffer) \in Nat
              /\ Len(disk[tail.inode]) \in Nat
          BY <1>2
        <5>3. tail.position + Len(tail.buffer) <= Len(disk[tail.inode])
          BY <1>3
        <5>. QED  BY <5>1, <5>2, <5>3
      <4>. QED  BY <4>2, <4>3
    <3>3. CASE Saved
      <4>1. \/ bookmark' = bookmark
            \/ bookmark' = <<[inode |-> tail.inode, position |-> tail.position]>>
        BY <3>3 DEF Saved
      <4>. QED  BY <3>1, <3>2, <4>1
    <3>4. CASE Send \/ ReadEof \/ Wakeup \/ Stop \/ SendFails
      <4>1. bookmark' = bookmark
        BY <3>4 DEF Send, ReadEof, Wakeup, Stop, SendFails
      <4>. QED  BY <3>1, <4>1
    <3>. QED  BY <1>7, <3>3, <3>4
  <2>. QED  BY <1>3, <2>1, <2>2, <2>3, <2>4 DEF FileInv
<1>8. CASE Wakeup /\ Rotated
  <2>1. 0 <= Len(disk[path])
    BY <1>2
  <2>. QED  BY <1>1, <1>2, <1>8, <2>1, ReopenMoves, EmptyHandedFits DEF Wakeup, worldVars
<1>9. CASE EndsUnsaved
  <2>1. 1 \in Inode /\ 0 <= Len(disk[1])
    BY <1>2, LogTailAssumption DEF Inode
  <2>. QED  BY <1>1, <1>9, <2>1, EndMoves, EmptyHandedFits
<1>10. Write \/ Rename \/ Truncate \/ ParserEnds \/ StartFails \/ UNCHANGED vars
         => UNCHANGED <<bookmark, tail>>
  BY WriteMoves DEF Rename, Truncate, ParserEnds, StartFails, vars
<1>. QED  BY <1>4, <1>5, <1>6, <1>7, <1>8, <1>9, <1>10 DEF Next, RunTail, EndsUnsaved

-----------------------------------------------------------------------------
(* A run is past what it has passed on.                                    *)

\* The steps with which a source stays in its file: it never goes back.
StaysInFile ==
  ReadLine \/ Send \/ ReadEof \/ (Wakeup /\ ~Rotated) \/ Stop \/ SendFails \/ Saved

\* It passes the line in hand, if there is one.
LEMMA HereGoesOn ==
  ASSUME Typed, StaysInFile
  PROVE  /\ tail'.inode = tail.inode /\ Here' = tail.position
         /\ Here \in Nat /\ tail.position \in Nat /\ Here <= tail.position
         /\ tail.mode # "sending" => Here = tail.position
         /\ tail.mode # "down" /\ tail'.position \in Nat
<1>1. /\ Here \in Nat /\ tail.position \in Nat /\ Here <= tail.position
      /\ tail.mode # "sending" => Here = tail.position
  <2>1. Len(tail.hand) \in Nat /\ tail.position \in Nat /\ (tail.hand = << >> => Len(tail.hand) = 0)
    BY DEF Typed, Locals
  <2>. QED  BY <2>1, HereIsAPlace DEF Here, Typed
<1>2. tail.mode # "down"
  BY DEF StaysInFile, ReadLine, Send, ReadEof, Wakeup, Stop, SendFails, Saved
<1>3. CASE ReadLine
  <2>1. \E n \in Nat : /\ tail'.inode = tail.inode /\ tail'.position = tail.position + n
                       /\ Len(tail'.hand) = n
    BY <1>3, ReadLineMoves
  <2>. QED  BY <1>1, <1>2, <2>1 DEF Here
<1>4. CASE StaysInFile /\ ~ReadLine
  <2>1. tail'.inode = tail.inode /\ tail'.position = tail.position /\ tail'.hand = << >>
    BY <1>4, SendMoves, RestingMoves DEF StaysInFile, Rests
  <2>2. Len(tail'.hand) = 0
    BY <2>1
  <2>. QED  BY <1>1, <1>2, <2>1, <2>2 DEF Here
<1>. QED  BY <1>3, <1>4

\* A file that nobody truncated is left only for the next one.
LEMMA LeftForTheNext ==
  ASSUME Typed, OrderInv, FileInv, "truncate" \notin happened, Rotated
  PROVE  tail.inode < path
<1>1. /\ tail.inode \in Nat /\ path \in Nat /\ tail.inode <= path
      /\ tail.position \in Nat /\ Len(tail.buffer) \in Nat /\ Len(disk[tail.inode]) \in Nat
  BY DEF Typed, Locals, Inode, OrderInv
<1>2. tail.position + Len(tail.buffer) <= Len(disk[tail.inode])
  BY DEF FileInv
<1>3. ~(Len(disk[tail.inode]) < tail.position)
  BY <1>1, <1>2
<1>. QED  BY <1>1, <1>3 DEF Rotated

\* Every other step.
LEMMA StepsOfTheLog ==
  ASSUME Typed, [Next]_vars
  PROVE  \/ UNCHANGED <<tail, out, restarts, bookmark, start, path>>
         \/ Rename \/ Start \/ StaysInFile \/ (Wakeup /\ Rotated) \/ EndsUnsaved
BY WriteMoves DEF Next, RunTail, StaysInFile, Truncate, ParserEnds, StartFails, EndsUnsaved,
   worldVars, vars

\* PastInv is kept by every step.
LEMMA PastIsKept ==
  ASSUME Typed, OrderInv, FileInv, PastInv, [Next]_vars PROVE PastInv'
<1>. SUFFICES ASSUME "truncate" \notin happened' PROVE PastInv'
  BY DEF PastInv
<1>1. "truncate" \notin happened
  BY HappenedGrows
<1>2. /\ tail.inode \in Nat /\ path \in Nat /\ restarts \in Nat /\ Here \in Nat
      /\ \A k \in DOMAIN out : /\ out[k].run \in Nat /\ out[k].run <= restarts
                               /\ out[k].inode \in Nat /\ PieceEnd(k) \in Nat
                               /\ tail.mode # "down" /\ out[k].run = restarts =>
                                    out[k].inode <= tail.inode
  BY HereIsAPlace, PiecesOut DEF Typed, Locals, Inode, OrderInv
<1>3. CASE UNCHANGED <<tail, out, restarts>>
  BY <1>1, <1>3 DEF PastInv, PieceEnd, Here
<1>4. CASE Start
  <2>1. restarts' = restarts + 1 /\ out' = out
    BY <1>4 DEF Start
  <2>. QED  BY <1>2, <2>1 DEF PastInv
<1>5. CASE StaysInFile /\ ~Send
  <2>1. UNCHANGED <<out, restarts>>
    BY <1>5 DEF StaysInFile, ReadLine, ReadEof, Wakeup, Stop, SendFails, Saved
  <2>. QED  BY <1>1, <1>2, <1>5, <2>1, HereGoesOn DEF PastInv, PieceEnd
<1>6. CASE Send
  <2>1. restarts' = restarts /\ tail'.inode = tail.inode /\ Here' = tail.position
        /\ Here <= tail.position /\ tail.mode # "down" /\ tail.position \in Nat
    BY <1>6, HereGoesOn DEF StaysInFile, Send
  <2>2. ASSUME NEW k \in DOMAIN out', out'[k].run = restarts, out'[k].inode = tail.inode
        PROVE  PieceEnd(k)' <= tail.position
    <3>1. CASE k \in DOMAIN out
      BY <1>1, <1>2, <1>6, <2>1, <2>2, <3>1, SendAppends DEF PastInv, PieceEnd
    <3>2. CASE k = Len(out) + 1
      <4>1. PieceEnd(k)' = Here + Len(tail.hand) /\ Here + Len(tail.hand) = tail.position
        BY <1>6, <3>2, SendAppends DEF PieceEnd
      <4>. QED  BY <2>1, <4>1
    <3>. QED  BY <1>6, <3>1, <3>2, SendAppends
  <2>. QED  BY <2>1, <2>2 DEF PastInv
<1>7. CASE Wakeup /\ Rotated
  <2>1. /\ tail'.inode = path /\ UNCHANGED <<out, restarts>> /\ tail.mode # "down"
    BY <1>7, ReopenMoves DEF Wakeup
  <2>2. tail.inode < path
    BY <1>1, <1>7, LeftForTheNext
  <2>. QED  BY <1>2, <2>1, <2>2 DEF PastInv
<1>8. CASE EndsUnsaved
  BY <1>8, EndMoves DEF PastInv
<1>. QED  BY <1>3, <1>4, <1>5, <1>6, <1>7, <1>8, StepsOfTheLog DEF Rename

-----------------------------------------------------------------------------
(* Nothing is skipped.                                                     *)

\* What a saved bookmark says; no other step writes one.
LEMMA Bookmarks ==
  ASSUME Typed, [Next]_vars
  PROVE  \/ bookmark' = bookmark
         \/ /\ Saved /\ bookmark' # << >>
            /\ bookmark'[1].inode = tail.inode /\ bookmark'[1].position = tail.position
<1>1. CASE Saved
  <2>1. PICK b : b = [inode |-> tail.inode, position |-> tail.position]
    OBVIOUS
  <2>2. <<b>>[1] = b /\ <<b>> # << >> /\ b.inode = tail.inode /\ b.position = tail.position
    BY <2>1
  <2>3. bookmark' = <<b>> \/ bookmark' = bookmark
    BY <1>1, <2>1 DEF Saved
  <2>. QED  BY <1>1, <2>2, <2>3
<1>2. CASE ~Saved
  BY <1>2, WriteMoves DEF Next, RunTail, Rename, Truncate, Start, ReadLine, ReadEof, Send,
     SendFails, Wakeup, Stop, ParserEnds, ReadFails, StartFails, Crash, Dies, vars
<1>. QED  BY <1>1, <1>2

\* What was passed on stays passed on.
LEMMA CoveredGrows ==
  ASSUME Typed, [Next]_vars, NEW i \in Inode PROVE Covered(i) \subseteq Covered(i)'
<1>1. CASE Send
  BY <1>1, SendAppends DEF Covered
<1>2. CASE ~Send
  <2>1. out' = out
    BY <1>2, WriteMoves DEF Next, RunTail, Rename, Truncate, Start, ReadLine, ReadEof,
       SendFails, Wakeup, Saved, Stop, ParserEnds, ReadFails, StartFails, Crash, Dies, vars
  <2>. QED  BY <2>1 DEF Covered
<1>. QED  BY <1>1, <1>2

\* SkipInv is kept by every step.
LEMMA SkipIsKept == ASSUME Typed, OrderInv, ReceiverInv, SkipInv, [Next]_vars PROVE SkipInv'
<1>. SUFFICES ASSUME FromTheBeginning' PROVE AllPassedOn'
  BY DEF SkipInv
<1>1. FromTheBeginning
  <2>1. fromBeginning' = fromBeginning
    BY WriteMoves DEF Next, RunTail, Rename, Truncate, Start, ReadLine, ReadEof, Send,
       SendFails, Wakeup, Saved, Stop, ParserEnds, ReadFails, StartFails, Crash, Dies, worldVars,
       vars
  <2>. QED  BY <2>1, HappenedGrows DEF FromTheBeginning
<1>2. /\ \A i \in Inode : start[i] = 0
      /\ tail.mode # "down" => 1 .. Here \subseteq Covered(tail.inode)
      /\ bookmark # << >> => 1 .. bookmark[1].position \subseteq Covered(bookmark[1].inode)
      /\ Gapless
  BY <1>1 DEF SkipInv, AllPassedOn
<1>3. /\ path \in Inode /\ tail.inode \in Inode /\ start \in [Inode -> Nat]
      /\ bookmark # << >> => bookmark[1].inode \in Inode /\ bookmark[1].position \in Nat
      /\ \A i \in Inode : Covered(i) \subseteq Covered(i)'
  BY CoveredGrows DEF Typed, Locals, Mark
<1>4. CASE UNCHANGED <<tail, out, bookmark, start>>
  BY <1>2, <1>4 DEF AllPassedOn, Gapless, Here, Covered
<1>5. CASE Start
  <2>1. /\ tail'.inode = path /\ bookmark' = bookmark /\ out' = out
        /\ start' = IF restarts = 0 THEN [start EXCEPT ![path] = StartPosition] ELSE start
    BY <1>5, StartMoves DEF Start
  <2>2. Here' = StartPosition
    <3>1. tail'.position = StartPosition /\ Len(tail'.hand) = 0 /\ StartPosition \in Nat
      BY <1>5, StartMoves, StartsInTheFile
    <3>. QED  BY <3>1 DEF Here
  <2>3. restarts = 0 => StartPosition = 0
    BY <1>1 DEF OrderInv, StartPosition, FromTheBeginning
  <2>4. \A i \in Inode : start'[i] = 0
    BY <1>2, <1>3, <2>1, <2>3
  <2>5. 1 .. StartPosition \subseteq Covered(path)
    <3>1. CASE bookmark # << >> /\ bookmark[1].inode = path
      <4>1. StartPosition \in Nat /\ StartPosition <= bookmark[1].position
        BY <3>1, StartsInTheFile
      <4>2. bookmark[1].position \in Nat
            /\ 1 .. bookmark[1].position \subseteq Covered(path)
        BY <1>2, <1>3, <3>1
      <4>. QED  BY <4>1, <4>2
    <3>2. CASE ~(bookmark # << >> /\ bookmark[1].inode = path)
      <4>1. StartPosition = 0
        BY <1>1, <3>2 DEF StartPosition, FromTheBeginning
      <4>. QED  BY <4>1
    <3>. QED  BY <3>1, <3>2
  <2>6. \A i \in Inode : Covered(i)' = Covered(i)
    BY <2>1 DEF Covered
  <2>. QED  BY <1>2, <1>3, <2>1, <2>2, <2>4, <2>5, <2>6 DEF AllPassedOn, Gapless
<1>6. CASE StaysInFile
  <2>1. tail'.inode = tail.inode /\ Here' = tail.position /\ tail.mode # "down"
        /\ Here \in Nat /\ tail.position \in Nat /\ Here <= tail.position
        /\ (tail.mode # "sending" => Here = tail.position)
    BY <1>6, HereGoesOn
  <2>2. start' = start
    BY <1>6 DEF StaysInFile, ReadLine, Send, ReadEof, Wakeup, Stop, SendFails, Saved
  <2>3. 1 .. tail.position \subseteq Covered(tail.inode)'
    <3>1. CASE tail.mode # "sending"
      BY <1>2, <1>3, <2>1, <3>1
    <3>2. CASE tail.mode = "sending"
      <4>1. Send
        <5>1. parserUp
          BY <1>1, <3>2 DEF ReceiverInv, FromTheBeginning
        <5>. QED  BY <1>6, <3>2, <5>1 DEF StaysInFile, ReadLine, ReadEof, Wakeup, Stop,
                     SendFails, Saved
      <4>2. /\ Len(out) + 1 \in DOMAIN out' /\ out'[Len(out) + 1].inode = tail.inode
            /\ out'[Len(out) + 1].from = Here
            /\ out'[Len(out) + 1].from + Len(out'[Len(out) + 1].text) = tail.position
        BY <4>1, SendAppends
      <4>3. Here + 1 .. tail.position \subseteq Covered(tail.inode)'
        BY <2>1, <4>2 DEF Covered
      <4>4. 1 .. Here \subseteq Covered(tail.inode)'
        BY <1>2, <1>3, <2>1
      <4>5. \A x \in 1 .. tail.position : x \in 1 .. Here \/ x \in Here + 1 .. tail.position
        BY <2>1
      <4>. QED  BY <4>3, <4>4, <4>5
    <3>. QED  BY <3>1, <3>2
  <2>4. (bookmark # << >> => 1 .. bookmark[1].position \subseteq Covered(bookmark[1].inode))'
    <3>. SUFFICES ASSUME bookmark' # << >>
                  PROVE  (1 .. bookmark[1].position \subseteq Covered(bookmark[1].inode))'
      OBVIOUS
    <3>1. CASE bookmark' = bookmark
      <4>1. PICK i \in Inode : i = bookmark[1].inode
        BY <1>3, <3>1
      <4>2. 1 .. bookmark[1].position \subseteq Covered(i)'
        BY <1>2, <1>3, <3>1, <4>1
      <4>. QED  BY <3>1, <4>1, <4>2
    <3>2. CASE bookmark'[1].inode = tail.inode /\ bookmark'[1].position = tail.position
      BY <2>1, <2>3, <3>2
    <3>. QED  BY <3>1, <3>2, Bookmarks
  <2>5. Gapless'
    <3>1. CASE Send
      <4>1. ASSUME NEW i \in Inode, NEW u \in Covered(i)' PROVE 1 .. u \subseteq Covered(i)'
        <5>1. u \in Covered(i) \/ (i = tail.inode /\ u \in Here + 1 .. tail.position)
          <6>1. PICK k \in DOMAIN out' :
                  /\ out'[k].inode = i
                  /\ u \in out'[k].from + 1 .. out'[k].from + Len(out'[k].text)
            BY <4>1 DEF Covered
          <6>2. k \in DOMAIN out \/ k = Len(out) + 1
            BY <3>1, SendAppends
          <6>3. CASE k \in DOMAIN out
            <7>1. out'[k] = out[k]
              BY <3>1, <6>3, SendAppends
            <7>. QED  BY <6>1, <6>3, <7>1 DEF Covered
          <6>4. CASE k = Len(out) + 1
            <7>1. /\ out'[k].inode = tail.inode /\ out'[k].from = Here
                  /\ Here + Len(out'[k].text) = tail.position
              BY <3>1, <6>4, SendAppends
            <7>. QED  BY <6>1, <7>1
          <6>. QED  BY <6>2, <6>3, <6>4
        <5>2. CASE u \in Covered(i)
          BY <1>2, <1>3, <5>2 DEF Gapless
        <5>3. CASE i = tail.inode /\ u \in Here + 1 .. tail.position
          <6>1. u \in Here + 1 .. tail.position
            BY <5>3
          <6>2. \A x \in 1 .. u : x \in 1 .. tail.position
            BY <2>1, <6>1
          <6>3. 1 .. tail.position \subseteq Covered(i)'
            BY <2>1, <2>3, <5>3 DEF Covered
          <6>. QED  BY <6>2, <6>3
        <5>. QED  BY <5>1, <5>2, <5>3
      <4>. QED  BY <4>1 DEF Gapless
    <3>2. CASE ~Send
      <4>1. out' = out
        BY <1>6, <3>2 DEF StaysInFile, ReadLine, ReadEof, Wakeup, Stop, SendFails, Saved
      <4>. QED  BY <1>2, <4>1 DEF Gapless, Covered
    <3>. QED  BY <3>1, <3>2
  <2>. QED  BY <1>2, <2>1, <2>2, <2>3, <2>4, <2>5 DEF AllPassedOn
<1>7. CASE Wakeup /\ Rotated
  <2>1. /\ tail'.inode = path /\ UNCHANGED <<bookmark, out>>
        /\ start' = [start EXCEPT ![path] = 0]
    BY <1>7, ReopenMoves DEF Wakeup
  <2>2. Here' = 0
    <3>1. tail'.position = 0 /\ Len(tail'.hand) = 0
      BY <1>7, ReopenMoves
    <3>. QED  BY <3>1 DEF Here
  <2>3. \A i \in Inode : start'[i] = 0 /\ Covered(i)' = Covered(i)
    BY <1>2, <1>3, <2>1 DEF Covered
  <2>4. 1 .. 0 = {}
    OBVIOUS
  <2>. QED  BY <1>2, <1>3, <2>1, <2>2, <2>3, <2>4 DEF AllPassedOn, Gapless
<1>8. CASE EndsUnsaved
  <2>1. tail'.mode = "down" /\ UNCHANGED <<bookmark, start, out>>
    BY <1>8, EndMoves
  <2>. QED  BY <1>2, <2>1 DEF AllPassedOn, Gapless, Covered
<1>. QED  BY <1>4, <1>5, <1>6, <1>7, <1>8, StepsOfTheLog DEF Rename

-----------------------------------------------------------------------------
(* Nothing is repeated.                                                    *)

\* Only a source whose bookmark was saved goes down, unless it is killed or fails to read.
LEMMA GoesDown ==
  ASSUME Typed, StaysInFile, tail'.mode = "down", "disk full" \notin happened'
  PROVE  /\ bookmark' # << >>
         /\ bookmark'[1].inode = tail.inode /\ bookmark'[1].position = tail.position
<1>1. Saved
  <2>1. ASSUME ReadLine \/ Send PROVE tail'.mode # "down"
    BY <2>1, ReadLineMoves, SendMoves
  <2>2. ASSUME ReadEof \/ (Wakeup /\ ~Rotated) \/ Stop \/ SendFails PROVE tail'.mode # "down"
    BY <2>2 DEF ReadEof, Wakeup, Stop, SendFails, Typed, Locals
  <2>. QED  BY <2>1, <2>2 DEF StaysInFile
<1>2. PICK b : b = [inode |-> tail.inode, position |-> tail.position]
  OBVIOUS
<1>3. <<b>>[1] = b /\ <<b>> # << >> /\ b.inode = tail.inode /\ b.position = tail.position
  BY <1>2
<1>4. bookmark' = <<b>>
  BY <1>1, <1>2 DEF Saved, Happens
<1>. QED  BY <1>3, <1>4

\* A source that stopped in the file at the path starts where it stopped.
LEMMA StartsWhereItStopped ==
  ASSUME Typed, FileInv, MarkedHere, "truncate" \notin happened,
         tail.mode = "down", restarts > 0, tail.inode = path
  PROVE  StartPosition = Here
<1>1. Here = tail.position
  BY HereIsAPlace DEF Typed
<1>2. bookmark # << >> /\ bookmark[1].inode = path /\ bookmark[1].position = tail.position
  BY DEF MarkedHere
<1>3. tail.position \in Nat /\ Len(disk[path]) \in Nat
  BY DEF Typed, Locals
<1>4. tail.position <= Len(disk[path])
  BY <1>2 DEF FileInv
<1>5. \A a, b \in Nat : a <= b => SmallerOf(a, b) = a
  BY DEF SmallerOf
<1>. QED  BY <1>1, <1>2, <1>3, <1>4, <1>5 DEF StartPosition

\* RepeatInv is kept by every step.
LEMMA RepeatIsKept ==
  ASSUME Typed, OrderInv, FileInv, RepeatInv, [Next]_vars PROVE RepeatInv'
<1>. SUFFICES ASSUME BookmarksInPlace' PROVE NothingAhead' /\ MarkedHere'
  BY DEF RepeatInv
<1>1. BookmarksInPlace /\ "truncate" \notin happened
  BY HappenedGrows DEF BookmarksInPlace
<1>2. NothingAhead /\ MarkedHere
  BY <1>1 DEF RepeatInv
<1>3. /\ path \in Nat /\ tail.inode \in Nat /\ Here \in Nat /\ restarts \in Nat
      /\ tail.inode <= path
      /\ \A k \in DOMAIN out : /\ out[k].inode \in Nat /\ out[k].from \in Nat
                               /\ PieceEnd(k) \in Nat
  BY HereIsAPlace, PiecesOut DEF Typed, Locals, Inode, OrderInv
<1>4. CASE UNCHANGED <<tail, out, restarts, bookmark>>
  BY <1>2, <1>4 DEF NothingAhead, MarkedHere, PieceEnd, Here
<1>5. CASE Start
  <2>1. tail'.inode = path /\ tail'.mode = "reading" /\ out' = out /\ tail.mode = "down"
    BY <1>5, StartMoves DEF Start
  <2>2. Here' = StartPosition
    <3>1. tail'.position = StartPosition /\ Len(tail'.hand) = 0 /\ StartPosition \in Nat
      BY <1>5, StartMoves, StartsInTheFile
    <3>. QED  BY <3>1 DEF Here
  <2>3. CASE restarts = 0
    <3>1. DOMAIN out = {}
      BY <2>3 DEF OrderInv
    <3>. QED  BY <2>1, <3>1 DEF NothingAhead, MarkedHere
  <2>4. CASE restarts > 0 /\ tail.inode = path
    <3>1. Here' = Here
      BY <1>1, <1>2, <2>1, <2>2, <2>4, StartsWhereItStopped
    <3>. QED  BY <1>2, <2>1, <2>4, <3>1 DEF NothingAhead, MarkedHere, PieceEnd
  <2>5. CASE restarts > 0 /\ tail.inode # path
    <3>1. \A k \in DOMAIN out : out[k].inode <= path /\ out[k].inode # path
      BY <1>2, <1>3, <2>5 DEF NothingAhead
    <3>. QED  BY <1>2, <2>1, <3>1 DEF NothingAhead, MarkedHere, PieceEnd
  <2>. QED  BY <1>3, <2>3, <2>4, <2>5
<1>6. CASE StaysInFile
  <2>1. /\ tail'.inode = tail.inode /\ Here' = tail.position
        /\ tail.position \in Nat /\ Here <= tail.position
    BY <1>6, HereGoesOn
  <2>2. MarkedHere'
    <3>1. tail'.position = tail.position \/ tail'.mode # "down"
      BY <1>6, ReadLineMoves, SendMoves, RestingMoves DEF StaysInFile, Rests
    <3>. QED  BY <1>6, <2>1, <3>1, GoesDown DEF MarkedHere, BookmarksInPlace
  <2>3. CASE ~Send
    <3>1. out' = out
      BY <1>6, <2>3 DEF StaysInFile, ReadLine, ReadEof, Wakeup, Stop, SendFails, Saved
    <3>. QED  BY <1>2, <1>3, <2>1, <2>2, <3>1 DEF NothingAhead, PieceEnd
  <2>4. CASE Send
    <3>. PICK n \in Nat : n = Len(out) + 1
      BY <2>4, SendAppends
    <3>1. /\ DOMAIN out = 1 .. n - 1 /\ DOMAIN out' = 1 .. n
          /\ \A k \in DOMAIN out : out'[k] = out[k]
          /\ out'[n].inode = tail.inode /\ out'[n].from = Here /\ PieceEnd(n)' = tail.position
      <4>1. /\ DOMAIN out = 1 .. Len(out) /\ DOMAIN out' = 1 .. n /\ Len(out) \in Nat
            /\ \A k \in DOMAIN out : out'[k] = out[k]
            /\ out'[n] = Sent
            /\ Sent.inode = tail.inode /\ Sent.from = Here /\ Sent.text = tail.hand
            /\ Here + Len(tail.hand) = tail.position
        BY <2>4, SendAppends
      <4>2. PieceEnd(n)' = tail.position
        BY <4>1 DEF PieceEnd
      <4>3. Len(out) = n - 1
        BY <4>1
      <4>. QED  BY <4>1, <4>2, <4>3
    <3>2. \A k \in DOMAIN out : PieceEnd(k)' = PieceEnd(k)
      BY <3>1 DEF PieceEnd
    <3>3. \A k \in DOMAIN out' : k \in DOMAIN out \/ k = n
      BY <3>1
    <3>4. ASSUME NEW k \in DOMAIN out'
          PROVE  /\ out'[k].inode <= tail.inode
                 /\ out'[k].inode = tail.inode => PieceEnd(k)' <= tail.position
      <4>1. CASE k \in DOMAIN out
        BY <1>2, <1>3, <2>1, <3>1, <3>2, <4>1 DEF NothingAhead
      <4>2. CASE k = n
        BY <1>3, <2>1, <3>1, <4>2
      <4>. QED  BY <3>3, <4>1, <4>2
    <3>5. ASSUME NEW k \in DOMAIN out', NEW l \in DOMAIN out', k < l,
                 out'[k].inode = out'[l].inode
          PROVE  PieceEnd(k)' <= out'[l].from
      <4>1. k \in DOMAIN out
        BY <3>1, <3>5
      <4>2. CASE l \in DOMAIN out
        BY <1>2, <3>1, <3>2, <3>5, <4>1, <4>2 DEF NothingAhead
      <4>3. CASE l = n
        BY <1>2, <3>1, <3>2, <3>5, <4>1, <4>3 DEF NothingAhead
      <4>. QED  BY <3>3, <4>2, <4>3
    <3>. QED  BY <2>1, <2>2, <3>4, <3>5 DEF NothingAhead
  <2>. QED  BY <2>3, <2>4
<1>7. CASE Wakeup /\ Rotated
  <2>1. /\ tail'.inode = path /\ tail'.mode = "saving" /\ out' = out /\ tail.inode < path
    BY <1>1, <1>7, ReopenMoves, LeftForTheNext DEF Wakeup
  <2>2. \A k \in DOMAIN out : out[k].inode <= path /\ out[k].inode # path
    BY <1>2, <1>3, <2>1 DEF NothingAhead
  <2>. QED  BY <1>2, <2>1, <2>2 DEF NothingAhead, MarkedHere, PieceEnd
<1>8. CASE EndsUnsaved
  BY <1>8 DEF EndsUnsaved, ReadFails, Crash, Happens, BookmarksInPlace
<1>. QED  BY <1>4, <1>5, <1>6, <1>7, <1>8, StepsOfTheLog DEF Rename

-----------------------------------------------------------------------------
(* What a kill repeats.                                                    *)

\* It is finitely much.
LEMMA LateIsFinite ==
  ASSUME Typed PROVE IsFiniteSet(Late) /\ Cardinality(Late) \in Nat
<1>1. Len(out) \in Nat /\ DOMAIN out = 1 .. Len(out)
  BY DEF Typed
<1>2. IsFiniteSet(1 .. Len(out))
  BY <1>1, FS_Interval
<1>3. Late \subseteq 1 .. Len(out)
  BY <1>1 DEF Late
<1>. QED  BY <1>2, <1>3, FS_Subset, FS_CardinalityType

\* Once nothing is late, the count fits.
LEMMA NothingLate ==
  ASSUME NEW S, S = {}, NEW e \in 0 .. BookmarkEvery - 1
  PROVE  Cardinality(S) <= BookmarkEvery /\ Cardinality(S) <= e
<1>1. Cardinality(S) = 0
  BY FS_EmptySet
<1>. QED  BY <1>1, LogTailAssumption

\* ReplayInv is kept by every step.
LEMMA ReplayIsKept ==
  ASSUME Typed, OrderInv, FileInv, PastInv, ReplayInv, [Next]_vars PROVE ReplayInv'
<1>. SUFFICES ASSUME BookmarksWritten' PROVE LateAreCounted'
  BY DEF ReplayInv
<1>1. BookmarksWritten /\ "truncate" \notin happened
  BY HappenedGrows DEF BookmarksWritten
<1>2. LateAreCounted
  BY <1>1 DEF ReplayInv
<1>3. /\ path \in Nat /\ tail.inode \in Nat /\ restarts \in Nat /\ tail.inode <= path
      /\ \A k \in DOMAIN out :
           /\ out[k].inode \in Nat /\ out[k].run \in Nat
           /\ out[k].inode <= path /\ out[k].run <= restarts
  BY PiecesOut DEF Typed, Locals, Inode, OrderInv
<1>4. /\ tail'.emitted \in 0 .. BookmarkEvery - 1 /\ tail.emitted \in 0 .. BookmarkEvery - 1
      /\ BookmarkEvery \in Nat
  BY TypesAreKept, LogTailAssumption DEF Typed, Locals
<1>5. ASSUME Late' = {} PROVE LateAreCounted'
  BY <1>4, <1>5, NothingLate DEF LateAreCounted
<1>6. CASE UNCHANGED <<tail, out, restarts, bookmark, path>>
  BY <1>2, <1>6 DEF LateAreCounted, Late, SavedPosition
<1>7. CASE Rename
  <2>1. path' = path + 1 /\ out' = out
    BY <1>7 DEF Rename
  <2>2. Late' = {}
    BY <1>3, <2>1 DEF Late
  <2>. QED  BY <1>5, <2>2
<1>8. CASE Start
  <2>1. restarts' = restarts + 1 /\ out' = out
    BY <1>8 DEF Start
  <2>2. Late' = {}
    BY <1>3, <2>1 DEF Late
  <2>. QED  BY <1>5, <2>2
<1>9. CASE Saved
  <2>1. /\ tail.mode = "saving" /\ UNCHANGED <<out, restarts, path>>
        /\ \A k \in DOMAIN out : out[k].run = restarts => out[k].inode <= tail.inode
    BY <1>9 DEF Saved, worldVars, OrderInv
  <2>2. bookmark' # << >> /\ bookmark'[1].inode = tail.inode /\ bookmark'[1].position = Here
    <3>1. PICK b : b = [inode |-> tail.inode, position |-> tail.position]
      OBVIOUS
    <3>2. <<b>>[1] = b /\ <<b>> # << >> /\ b.inode = tail.inode /\ b.position = tail.position
      BY <3>1
    <3>3. bookmark' = <<b>>
      BY <1>9, <3>1 DEF Saved, Happens, BookmarksWritten
    <3>4. Here = tail.position
      BY <2>1, HereIsAPlace DEF Typed
    <3>. QED  BY <3>2, <3>3, <3>4
  <2>3. ASSUME NEW k \in DOMAIN out, out[k].run = restarts, out[k].inode = path
        PROVE  tail.inode = path /\ ~(out[k].from >= Here)
    <3>1. tail.inode = path
      BY <1>3, <2>1, <2>3
    <3>2. PieceEnd(k) <= Here
      BY <1>1, <2>1, <2>3, <3>1 DEF PastInv
    <3>3. out[k].from \in Nat /\ Len(out[k].text) \in Nat \ {0} /\ Here \in Nat
      BY HereIsAPlace, PiecesOut DEF OrderInv
    <3>4. \A a, c \in Nat, b \in Nat \ {0} : a + b <= c => ~(a >= c)
      OBVIOUS
    <3>5. ~(out[k].from >= Here)
      BY <3>2, <3>3, <3>4 DEF PieceEnd
    <3>. QED  BY <3>1, <3>5
  <2>4. Late' = {}
    BY <2>1, <2>2, <2>3 DEF Late, SavedPosition
  <2>. QED  BY <1>5, <2>4
<1>10. CASE Send
  <2>. PICK n : n = Len(out) + 1
    OBVIOUS
  <2>. PICK L : L = Late
    OBVIOUS
  <2>1. /\ \A k \in DOMAIN out' : k \in DOMAIN out \/ k = n
        /\ \A k \in DOMAIN out : out'[k] = out[k]
        /\ UNCHANGED <<restarts, path, bookmark>>
    BY <1>10, SendAppends DEF Send, worldVars
  <2>2. Late' \subseteq L \cup {n}
    BY <2>1 DEF Late, SavedPosition
  <2>3. IsFiniteSet(L) /\ Cardinality(L) \in Nat /\ Cardinality(L) <= tail.emitted
    <3>1. tail.mode = "sending"
      BY <1>10 DEF Send
    <3>. QED  BY <1>2, <3>1, LateIsFinite DEF LateAreCounted
  <2>4. IsFiniteSet(L \cup {n}) /\ Cardinality(L \cup {n}) <= Cardinality(L) + 1
        /\ Cardinality(L \cup {n}) \in Nat
    BY <2>3, FS_AddElement, FS_CardinalityType
  <2>5. Cardinality(Late') <= Cardinality(L \cup {n}) /\ Cardinality(Late') \in Nat
    BY <2>2, <2>4, FS_Subset, FS_CardinalityType
  <2>6. Cardinality(Late') <= tail.emitted + 1 /\ Cardinality(Late') <= BookmarkEvery
    BY <1>4, <2>3, <2>4, <2>5
  <2>7. tail'.mode \in {"saving", "reading"}
        /\ (tail'.mode = "reading" => tail'.emitted = tail.emitted + 1)
    BY <1>10, SendMoves
  <2>. QED  BY <2>6, <2>7 DEF LateAreCounted
<1>11. CASE ReadLine \/ ReadEof \/ Wakeup \/ Stop \/ SendFails \/ EndsUnsaved
  <2>1. UNCHANGED <<out, restarts, bookmark, path>>
    BY <1>11, EndMoves DEF ReadLine, ReadEof, Wakeup, Stop, SendFails, worldVars
  <2>2. Late' = Late
    BY <2>1 DEF Late, SavedPosition
  <2>3. \/ tail'.mode \in {"saving", "down"}
        \/ tail.mode \in {"reading", "eof"} /\ tail'.emitted = tail.emitted
    <3>1. CASE ReadLine
      BY <3>1, ReadLineMoves DEF ReadLine
    <3>2. CASE ReadEof \/ (Wakeup /\ ~Rotated)
      BY <3>2, RestingMoves DEF Rests, ReadEof, Wakeup
    <3>3. CASE Wakeup /\ Rotated
      BY <3>3, ReopenMoves
    <3>4. CASE Stop \/ SendFails \/ EndsUnsaved
      BY <3>4, EndMoves DEF Stop, SendFails, Typed, Locals
    <3>. QED  BY <1>11, <3>1, <3>2, <3>3, <3>4
  <2>. QED  BY <1>2, <2>2, <2>3 DEF LateAreCounted
<1>. QED  BY <1>6, <1>7, <1>8, <1>9, <1>10, <1>11, StepsOfTheLog DEF StaysInFile

-----------------------------------------------------------------------------
(* Stops and starts only.                                                  *)

\* What does not happen then.
LEMMA Undisturbed ==
  ASSUME Calm
  PROVE  /\ BookmarksInPlace /\ "truncate" \notin happened
         /\ {"rename", "crash", "read error"} \cap happened = {}
         /\ ReceiverInv /\ tail.mode # "down" => parserUp
BY DEF Calm, BookmarksInPlace, ReceiverInv

\* The ends of pieces are places in the file.
LEMMA EndsArePlaces ==
  ASSUME Typed
  PROVE  /\ Len(out) \in Nat /\ DOMAIN out = 1 .. Len(out) /\ start[path] \in Nat
         /\ \A k \in DOMAIN out : k # 0 /\ EndOf(k) = PieceEnd(k) /\ EndOf(k) \in Nat
                                  /\ out[k].from \in Nat
         /\ EndOf(0) = start[path]
<1>1. Len(out) \in Nat /\ DOMAIN out = 1 .. Len(out) /\ start[path] \in Nat
  BY DEF Typed
<1>2. \A k \in DOMAIN out : k # 0 /\ PieceEnd(k) \in Nat /\ out[k].from \in Nat
  BY <1>1, PiecesOut
<1>. QED  BY <1>1, <1>2 DEF EndOf, PieceEnd

\* While the pieces stay as they are, their ends do.
LEMMA EndsStay ==
  ASSUME UNCHANGED <<out, path>>, start'[path] = start[path]
  PROVE  \A k : EndOf(k)' = EndOf(k)
BY DEF EndOf

\* CalmInv is kept by every step.
LEMMA CalmIsKept ==
  ASSUME Typed, OrderInv, ReceiverInv, FileInv, RepeatInv, CalmInv, [Next]_vars PROVE CalmInv'
<1>. SUFFICES ASSUME Calm' PROVE EndToEnd'
  BY DEF CalmInv
<1>1. /\ Calm /\ "truncate" \notin happened'
      /\ {"rename", "crash", "read error"} \cap happened' = {}
  BY HappenedGrows DEF Calm
<1>2. /\ EndToEnd /\ MarkedHere /\ "truncate" \notin happened
      /\ tail.mode # "down" => parserUp
  BY <1>1, Undisturbed DEF CalmInv, RepeatInv
<1>3. /\ path = 1 /\ tail.inode = 1 /\ path \in Inode /\ tail.inode \in Nat
      /\ Here \in Nat /\ restarts \in Nat
  BY <1>2, HereIsAPlace DEF EndToEnd, OrderInv, Typed, Locals, Inode
<1>4. disk[path] \in Seq(Unit) /\ Len(disk[path]) \in Nat
  BY DEF Typed
<1>5. CASE UNCHANGED <<tail, out, restarts, start, path>>
  <2>1. PICK t \in Seq(Unit) : disk'[path] = disk[path] \o t
    BY <1>1, <1>3, FilesGrow
  <2>2. PICK s \in Seq(Unit) : s = disk[path]
    BY <1>4
  <2>3. \A k : EndOf(k)' = EndOf(k)
    BY <1>5, EndsStay
  <2>4. ASSUME NEW k \in DOMAIN out
        PROVE  /\ EndOf(k) <= Len(s \o t)
               /\ out[k].text = SubSeq(s \o t, out[k].from + 1, EndOf(k))
    <3>1. EndOf(k) \in Nat /\ out[k].from + 1 \in Nat \ {0} /\ EndOf(k) <= Len(s)
          /\ out[k].text = SubSeq(s, out[k].from + 1, EndOf(k))
      <4>1. out[k].from \in Nat /\ EndOf(k) \in Nat
        BY EndsArePlaces
      <4>2. EndOf(k) <= Len(s) /\ out[k].text = SubSeq(s, out[k].from + 1, EndOf(k))
        BY <1>2, <2>2 DEF EndToEnd
      <4>. QED  BY <4>1, <4>2
    <3>2. EndOf(k) <= Len(s \o t)
      BY <3>1, Longer
    <3>3. SubSeq(s \o t, out[k].from + 1, EndOf(k)) = SubSeq(s, out[k].from + 1, EndOf(k))
      BY <3>1, SameInGrown
    <3>. QED  BY <3>1, <3>2, <3>3
  <2>5. Here' = Here
    BY <1>5 DEF Here
  <2>. QED  BY <1>2, <1>5, <2>1, <2>2, <2>3, <2>4, <2>5 DEF EndToEnd
<1>6. CASE Start
  <2>1. /\ UNCHANGED <<disk, path, out>> /\ restarts' = restarts + 1 /\ tail.mode = "down"
        /\ start' = IF restarts = 0 THEN [start EXCEPT ![path] = StartPosition] ELSE start
    BY <1>6 DEF Start, worldVars
  <2>2. Here' = StartPosition
    <3>1. tail'.position = StartPosition /\ Len(tail'.hand) = 0 /\ StartPosition \in Nat
      BY <1>6, StartMoves, StartsInTheFile
    <3>. QED  BY <3>1 DEF Here
  <2>3. CASE restarts = 0
    <3>1. out = << >> /\ Len(out) = 0 /\ DOMAIN out = {}
      BY <2>3 DEF OrderInv
    <3>2. start'[path] = StartPosition
      BY <1>3, <2>1, <2>3 DEF Typed
    <3>3. EndOf(0)' = StartPosition
      BY <2>1, <3>2 DEF EndOf
    <3>. QED  BY <1>3, <2>1, <2>2, <3>1, <3>3 DEF EndToEnd
  <2>4. CASE restarts > 0
    <3>1. Here' = Here
      BY <1>2, <1>3, <2>1, <2>2, <2>4, StartsWhereItStopped
    <3>2. start' = start
      BY <2>1, <2>4
    <3>3. \A k : EndOf(k)' = EndOf(k)
      BY <2>1, <3>2, EndsStay
    <3>. QED  BY <1>2, <2>1, <2>4, <3>1, <3>3 DEF EndToEnd
  <2>. QED  BY <1>3, <2>3, <2>4
<1>7. CASE StaysInFile /\ ~Send
  <2>1. tail.mode # "sending"
    BY <1>2, <1>7 DEF StaysInFile, ReadLine, ReadEof, Wakeup, Stop, SendFails, Saved
  <2>2. UNCHANGED <<disk, path, out, start, restarts>>
    BY <1>7 DEF StaysInFile, ReadLine, ReadEof, Wakeup, Stop, SendFails, Saved, worldVars
  <2>3. Here' = Here
    BY <1>7, <2>1, HereGoesOn
  <2>4. \A k : EndOf(k)' = EndOf(k)
    BY <2>2, EndsStay
  <2>. QED  BY <1>2, <2>2, <2>3, <2>4 DEF EndToEnd
<1>8. CASE Send
  <2>. PICK n \in Nat : n = Len(out) + 1
    BY <1>8, SendAppends
  <2>1. /\ Len(out) = n - 1 /\ DOMAIN out = 1 .. n - 1 /\ DOMAIN out' = 1 .. n /\ Len(out') = n
        /\ \A k \in DOMAIN out : out'[k] = out[k]
        /\ out'[n] = Sent /\ n # 0
        /\ Sent.from = Here /\ Sent.text = tail.hand
        /\ Here + Len(tail.hand) = tail.position
    <3>1. /\ DOMAIN out = 1 .. Len(out) /\ DOMAIN out' = 1 .. n /\ Len(out) \in Nat
          /\ Len(out') = n /\ out'[n] = Sent
          /\ \A k \in DOMAIN out : out'[k] = out[k]
          /\ Sent.from = Here /\ Sent.text = tail.hand
          /\ Here + Len(tail.hand) = tail.position
      BY <1>8, SendAppends
    <3>2. Len(out) = n - 1 /\ n # 0
      BY <3>1
    <3>. QED  BY <3>1, <3>2
  <2>2. UNCHANGED <<disk, path, start, restarts>> /\ tail.mode = "sending"
    BY <1>8 DEF Send, worldVars
  <2>3. Here' = tail.position /\ restarts > 0
    BY <1>3, <1>8, <2>2, HereGoesOn DEF StaysInFile, OrderInv
  <2>4. EndOf(n)' = tail.position
    BY <2>1 DEF EndOf
  <2>5. \A k \in 0 .. n - 1 : EndOf(k)' = EndOf(k)
    <3>1. \A k \in 0 .. n - 1 : k = 0 \/ k \in DOMAIN out
      BY <2>1
    <3>. QED  BY <2>1, <2>2, <3>1 DEF EndOf
  <2>6. /\ tail.hand = SubSeq(disk[path], Here + 1, tail.position)
        /\ tail.position <= Len(disk[path])
    <3>1. /\ tail.position + Len(tail.buffer) <= Len(disk[tail.inode])
          /\ tail.hand = SubSeq(disk[tail.inode], Here + 1, tail.position)
      BY <1>2 DEF FileInv
    <3>2. tail.position \in Nat /\ Len(tail.buffer) \in Nat
      BY DEF Typed, Locals
    <3>3. \A a, b, c \in Nat : a + b <= c => a <= c
      OBVIOUS
    <3>. QED  BY <1>3, <1>4, <3>1, <3>2, <3>3
  <2>7. EndOf(n - 1) = Here
    BY <1>2, <2>1, <2>3 DEF EndToEnd
  <2>8. ASSUME NEW k \in DOMAIN out'
        PROVE  /\ out'[k].from = EndOf(k - 1)'
               /\ out'[k].text = SubSeq(disk[path], out'[k].from + 1, EndOf(k)')
               /\ EndOf(k)' <= Len(disk[path])
    <3>1. CASE k \in DOMAIN out
      <4>1. k - 1 \in 0 .. n - 1 /\ k \in 0 .. n - 1
        BY <2>1, <3>1
      <4>2. EndOf(k - 1)' = EndOf(k - 1) /\ EndOf(k)' = EndOf(k) /\ out'[k] = out[k]
        BY <2>1, <2>5, <3>1, <4>1
      <4>. QED  BY <1>2, <3>1, <4>2 DEF EndToEnd
    <3>2. CASE k = n
      <4>1. n - 1 \in 0 .. n - 1
        BY <2>1
      <4>2. EndOf(n - 1)' = Here
        BY <2>5, <2>7, <4>1
      <4>. QED  BY <2>1, <2>4, <2>6, <3>2, <4>2
    <3>3. k \in DOMAIN out \/ k = n
      BY <2>1
    <3>. QED  BY <3>1, <3>2, <3>3
  <2>. QED  BY <1>3, <2>1, <2>2, <2>3, <2>4, <2>8 DEF EndToEnd
<1>9. CASE Wakeup /\ Rotated
  BY <1>2, <1>3, <1>9, LeftForTheNext
<1>10. CASE Rename \/ EndsUnsaved
  BY <1>1, <1>10 DEF Rename, EndsUnsaved, ReadFails, Crash, Happens
<1>. QED  BY <1>5, <1>6, <1>7, <1>8, <1>9, <1>10, StepsOfTheLog

-----------------------------------------------------------------------------
(* The theorems.                                                           *)

\* Before the first start nothing was read.
LEMMA InitIsFine == Init => LogInv
<1>. SUFFICES ASSUME Init PROVE LogInv
  OBVIOUS
<1>1. Typed
  BY InitIsTyped
<1>2. /\ tail = Tail0 /\ path = 1 /\ restarts = 0 /\ bookmark = << >> /\ out = << >>
      /\ DOMAIN out = {} /\ \A i \in Inode : start[i] = 0
  BY DEF Init
<1>3. /\ tail.mode = "down" /\ tail.inode = 1 /\ tail.position = 0 /\ tail.buffer = << >>
      /\ tail.hand = << >> /\ tail.emitted = 0
  BY <1>2, FreshLocals
<1>4. OrderInv /\ ReceiverInv /\ PastInv /\ SkipInv /\ RepeatInv /\ CalmInv
  BY <1>2, <1>3 DEF OrderInv, ReceiverInv, PastInv, SkipInv, AllPassedOn, Gapless, Covered,
     RepeatInv, NothingAhead, MarkedHere, CalmInv, EndToEnd
<1>5. FileInv
  <2>1. << >> = SubSeq(disk[1], 0 + 1, 0) /\ Len(<< >>) = 0
    BY EmptyHanded
  <2>2. Here = 0 /\ 0 + Len(<< >>) = 0
    BY <1>1, <1>3, <2>1, HereIsAPlace
  <2>3. Len(disk[1]) \in Nat
    BY <1>1, <1>2 DEF Typed
  <2>4. 0 <= Len(disk[1])
    BY <2>3
  <2>. QED  BY <1>2, <1>3, <2>1, <2>2, <2>4 DEF FileInv
<1>6. ReplayInv
  <2>1. Late = {} /\ 0 \in 0 .. BookmarkEvery - 1
    BY <1>2, LogTailAssumption DEF Late
  <2>2. Cardinality(Late) <= BookmarkEvery
    BY <2>1, NothingLate
  <2>. QED  BY <1>3, <2>2 DEF ReplayInv, LateAreCounted
<1>. QED  BY <1>1, <1>4, <1>5, <1>6 DEF LogInv

\* The inductive invariant.
LEMMA LogInvHolds == Spec => []LogInv
<1>1. LogInv /\ [Next]_vars => LogInv'
  BY TypesAreKept, OrderIsKept, ReceiverIsKept, FileIsKept, PastIsKept, SkipIsKept,
     RepeatIsKept, ReplayIsKept, CalmIsKept DEF LogInv
<1>. QED  BY InitIsFine, <1>1, PTL DEF Spec

\* Where reading would go on: from here, or from where a start begins.
LEMMA WhereItResumes ==
  ASSUME Typed, OrderInv
  PROVE  /\ tail.mode # "down" => Resumes = Here
         /\ tail.mode = "down" /\ restarts > 0 => Resumes = StartPosition
         /\ restarts = 0 => Resumes = start[path]
<1>1. tail.mode \in {"down", "reading", "sending", "eof", "saving"} /\ restarts \in Nat
  BY DEF Typed, Locals
<1>2. CASE tail.mode \in {"reading", "eof", "saving"}
  <2>1. Resumes = tail.position
    BY <1>2 DEF Resumes
  <2>2. restarts # 0
    BY <1>2 DEF OrderInv
  <2>. QED  BY <1>2, <2>1, <2>2, HereIsAPlace DEF Typed
<1>3. CASE tail.mode = "sending"
  BY <1>3 DEF Resumes, Here, OrderInv
<1>4. CASE tail.mode = "down" /\ restarts > 0
  BY <1>1, <1>4 DEF Resumes
<1>5. CASE tail.mode = "down" /\ ~(restarts > 0)
  BY <1>1, <1>5 DEF Resumes
<1>. QED  BY <1>1, <1>2, <1>3, <1>4, <1>5

\* Each unit once and in order over stops: the pieces lie end to end from where the
\* first start began to where a next one would.
LEMMA InOrderOverStops == LogInv => ExactlyOnceInOrder
<1>. SUFFICES ASSUME LogInv, Calm PROVE ExactlyOnceInOrder
  BY DEF ExactlyOnceInOrder, Calm
<1>1. Typed /\ OrderInv /\ FileInv /\ MarkedHere /\ EndToEnd /\ "truncate" \notin happened
  BY Undisturbed DEF LogInv, RepeatInv, CalmInv
<1>2. restarts \in Nat /\ path = 1 /\ tail.inode = 1
  BY <1>1 DEF EndToEnd, OrderInv, Typed, Locals, Inode
<1>3. EndOf(Len(out)) = Resumes
  <2>1. CASE restarts = 0
    <3>1. Len(out) = 0
      BY <1>1, <2>1 DEF OrderInv
    <3>. QED  BY <1>1, <2>1, <3>1, WhereItResumes DEF EndOf
  <2>2. CASE restarts > 0 /\ tail.mode # "down"
    BY <1>1, <2>2, WhereItResumes DEF EndToEnd
  <2>3. CASE restarts > 0 /\ tail.mode = "down"
    <3>1. Resumes = StartPosition
      BY <1>1, <2>3, WhereItResumes
    <3>2. StartPosition = Here
      BY <1>1, <1>2, <2>3, StartsWhereItStopped
    <3>. QED  BY <1>1, <2>3, <3>1, <3>2 DEF EndToEnd
  <2>. QED  BY <1>2, <2>1, <2>2, <2>3
<1>. QED  BY <1>1, <1>3 DEF ExactlyOnceInOrder, EndToEnd, OrderInv

\* Over kills, failed reads and rotations no gap is left in what is passed on of a file.
LEMMA NoneIsSkipped == LogInv => NothingSkipped
<1>. SUFFICES ASSUME LogInv, FromTheBeginning PROVE PassedOn
  BY DEF NothingSkipped, FromTheBeginning
<1>1. Typed /\ OrderInv /\ AllPassedOn
  BY DEF LogInv, SkipInv
<1>2. /\ path \in Inode /\ Open \in Inode /\ restarts \in Nat /\ 0 + 1 = 1
      /\ \A i \in Inode : start[i] = 0
  BY <1>1 DEF Typed, Locals, AllPassedOn, Open
<1>3. 1 .. Resumes \subseteq Covered(Open)
  <2>1. CASE tail.mode # "down"
    <3>1. Resumes = Here /\ Open = tail.inode
      BY <1>1, <2>1, WhereItResumes DEF Open
    <3>. QED  BY <1>1, <2>1, <3>1 DEF AllPassedOn
  <2>2. CASE tail.mode = "down" /\ restarts = 0
    <3>1. Resumes = 0
      BY <1>1, <1>2, <2>2, WhereItResumes
    <3>2. 1 .. 0 = {}
      OBVIOUS
    <3>. QED  BY <3>1, <3>2
  <2>3. CASE tail.mode = "down" /\ restarts > 0
    <3>1. Resumes = StartPosition /\ Open = path
      BY <1>1, <2>3, WhereItResumes DEF Open
    <3>2. CASE bookmark # << >> /\ bookmark[1].inode = path
      <4>1. StartPosition \in Nat /\ StartPosition <= bookmark[1].position
        BY <1>1, <3>2, StartsInTheFile
      <4>2. bookmark[1].position \in Nat
        BY <1>1, <3>2 DEF Typed, Mark
      <4>3. 1 .. bookmark[1].position \subseteq Covered(path)
        BY <1>1, <3>2 DEF AllPassedOn
      <4>. QED  BY <3>1, <4>1, <4>2, <4>3
    <3>3. CASE ~(bookmark # << >> /\ bookmark[1].inode = path)
      <4>1. StartPosition = 0
        BY <3>3 DEF StartPosition, FromTheBeginning
      <4>. QED  BY <3>1, <4>1
    <3>. QED  BY <3>2, <3>3
  <2>. QED  BY <1>2, <2>1, <2>2, <2>3
<1>. QED  BY <1>1, <1>2, <1>3 DEF PassedOn, AllPassedOn, Gapless

\* The types that the runs check are among those of the invariant.
LEMMA TypedIsTypeOK == Typed => TypeOK
<1>. SUFFICES ASSUME Typed PROVE TypeOK
  OBVIOUS
<1>1. bookmark = << >> \/ (bookmark[1].inode \in Inode /\ bookmark[1].position \in Nat)
  BY DEF Typed, Mark
<1>2. /\ tail.mode \in {"down", "reading", "sending", "eof", "saving"}
      /\ tail.inode \in Inode /\ tail.position \in Nat
      /\ tail.buffer \in Seq(Unit) /\ tail.hand \in Seq(Unit)
      /\ tail.emitted \in 0 .. BookmarkEvery - 1 /\ tail.then \in {"down", "reading"}
  BY DEF Typed, Locals
<1>. QED  BY <1>1, <1>2 DEF Typed, TypeOK

\* The log is read: each unit once and in order over stops, and no gap is left before
\* anything that is passed on of a file, nor before the place where the source stands or
\* would go on, over kills, failed reads, renames and bookmarks that cannot be written.
\* What a renamed file holds behind the last of it that was passed on is not in this
\* (log_tail.rs:77-166 and 264-288).
THEOREM TheLogIsRead == Spec => []LogIsRead
<1>1. LogInv => LogIsRead
  BY TypedIsTypeOK, InOrderOverStops, NoneIsSkipped DEF LogIsRead, LogInv
<1>. QED  BY <1>1, LogInvHolds, PTL

\* A kill or a failed read repeats at most one bookmark interval, and where no run ended
\* without its bookmark and no file was truncated nothing is repeated
\* (log_tail.rs:14-15 and 152-161).
THEOREM LittleIsRepeated == Spec => []RepeatsLittle
<1>1. LogInv => ReplayIsBounded
  <2>. SUFFICES ASSUME LogInv, BookmarksWritten PROVE Cardinality(Late) <= BookmarkEvery
    BY DEF ReplayIsBounded, BookmarksWritten, Late, SavedPosition
  <2>. QED  BY DEF LogInv, ReplayInv, LateAreCounted
<1>2. LogInv => NotReemitted
  <2>. SUFFICES ASSUME LogInv, BookmarksInPlace,
                       NEW k \in DOMAIN out, NEW l \in DOMAIN out, k < l,
                       out[k].inode = out[l].inode
                PROVE  out[k].from # out[l].from
    BY DEF NotReemitted, NoneTwice, BookmarksInPlace
  <2>1. Typed /\ OrderInv /\ PieceEnd(k) <= out[l].from
    BY DEF LogInv, RepeatInv, NothingAhead
  <2>2. out[k].from \in Nat /\ out[l].from \in Nat /\ Len(out[k].text) \in Nat \ {0}
    <3>1. out[k].text \in Seq(Unit) /\ out[k].text # << >>
      BY <2>1, PiecesOut DEF OrderInv
    <3>2. Len(out[k].text) \in Nat \ {0}
      BY <3>1
    <3>. QED  BY <2>1, <3>2, PiecesOut
  <2>3. \A a, c \in Nat, b \in Nat \ {0} : a + b <= c => a # c
    OBVIOUS
  <2>. QED  BY <2>1, <2>2, <2>3 DEF PieceEnd
<1>. QED  BY <1>1, <1>2, LogInvHolds, PTL DEF RepeatsLittle
=============================================================================
