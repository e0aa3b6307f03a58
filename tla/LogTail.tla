-------------------------------- MODULE LogTail --------------------------------
(***************************************************************************)
(* The log_tail source (sources/log_tail.rs) with the file it tails, its    *)
(* bookmark, the writer, and the restarts of the relay.                    *)
(*                                                                         *)
(* A line is two units long, <<l, 1>> and <<l, 2>>; the second ends with the *)
(* newline, and lengths and positions count units.  Rotated files stay on    *)
(* the disk, so an inode number is never used again.                        *)
(***************************************************************************)
EXTENDS Naturals, Sequences, FiniteSets, SequencesExt

CONSTANTS
  MaxInode,       \* the path names inodes 1, 2, ... MaxInode in turn
  MaxLine,        \* lines 1 .. MaxLine are written
  Beginnings,     \* the values of from_beginning
  BookmarkEvery,  \* BOOKMARK_INTERVAL_EVENTS
  MaxRestarts,    \* bound on the starts after the first
  World,          \* what may happen around the source
  MaxKinds        \* bound on the kinds of it in one behaviour

Happening == {"stop", "crash", "read error", "parser ends", "partial", "rename", "truncate",
              "disk full"}

ASSUME LogTailAssumption ==
  /\ MaxInode \in Nat \ {0} /\ MaxLine \in Nat /\ MaxRestarts \in Nat /\ MaxKinds \in Nat
  /\ BookmarkEvery \in Nat \ {0}
  /\ Beginnings \subseteq BOOLEAN
  /\ World \subseteq Happening

VARIABLES
  fromBeginning,  \* from_beginning
  disk,       \* contents by inode
  path,       \* the inode the path names
  nextLine,   \* the line written next
  bookmark,   \* << >> or <<[inode, position]>>, as renamed into place
  tail,       \* the source task: mode, and run_tail's locals
  parserUp,   \* whether somebody receives the events
  out,        \* history: lines the channel took, with where they were read
  start,      \* history: where reading of each inode began
  restarts,   \* starts so far
  happened    \* history: what has happened around the source

vars == <<fromBeginning, disk, path, nextLine, bookmark, tail, parserUp, out, start, restarts,
          happened>>

worldVars == <<fromBeginning, disk, path, nextLine>>

Inode == 1 .. MaxInode
Unit  == (1 .. MaxLine) \X {1, 2}
Ends(u) == u[2] = 2

\* run_tail's locals: `buffer` is what the BufReader has and read_line has not
\* taken, `hand` the event in tx.send, `then` where persist_bookmark returns to.
Tail0 == [mode |-> "down", inode |-> 1, position |-> 0, buffer |-> << >>,
          hand |-> << >>, emitted |-> 0, then |-> "down"]

TypeOK ==
  /\ disk \in [Inode -> Seq(Unit)] /\ path \in Inode /\ nextLine \in 1 .. MaxLine + 1
  /\ bookmark = << >> \/ (bookmark[1].inode \in Inode /\ bookmark[1].position \in Nat)
  /\ tail.mode \in {"down", "reading", "sending", "eof", "saving"}
  /\ tail.inode \in Inode /\ tail.position \in Nat
  /\ tail.buffer \in Seq(Unit) /\ tail.hand \in Seq(Unit)
  /\ tail.emitted \in 0 .. BookmarkEvery - 1
  /\ tail.mode = "saving" => tail.then \in {"down", "reading"}
  /\ parserUp \in BOOLEAN

Init ==
  /\ fromBeginning \in Beginnings
  /\ disk = [i \in Inode |-> << >>] /\ path = 1 /\ nextLine = 1
  /\ bookmark = << >>
  /\ tail = Tail0
  /\ parserUp = FALSE
  /\ out = << >> /\ start = [i \in Inode |-> 0]
  /\ restarts = 0 /\ happened = {}

-----------------------------------------------------------------------------
(* The writer and the log rotation.                                        *)

Happens(h) ==
  /\ h \in World
  /\ happened' = happened \cup {h}
  /\ Cardinality(happened') <= MaxKinds

\* A line is written at once, or its halves one after the other.
HalfWritten == disk[path] # << >> /\ ~Ends(Last(disk[path]))

Appends(text) == disk' = [disk EXCEPT ![path] = @ \o text]

Write ==
  /\ \/ /\ ~HalfWritten /\ nextLine <= MaxLine
        /\ Appends(<<<<nextLine, 1>>, <<nextLine, 2>>>>)
        /\ nextLine' = nextLine + 1
        /\ UNCHANGED happened
     \/ /\ ~HalfWritten /\ nextLine <= MaxLine
        /\ Appends(<<<<nextLine, 1>>>>)
        /\ nextLine' = nextLine + 1
        /\ Happens("partial")
     \/ /\ HalfWritten
        /\ Appends(<<<<Last(disk[path])[1], 2>>>>)
        /\ UNCHANGED <<nextLine, happened>>
  /\ UNCHANGED <<fromBeginning, path, bookmark, tail, parserUp, out, start, restarts>>

\* logrotate: the old file is renamed away and an empty one takes the path ...
Rename ==
  /\ Happens("rename")
  /\ path < MaxInode
  /\ path' = path + 1
  /\ UNCHANGED <<fromBeginning, disk, nextLine, bookmark, tail, parserUp, out, start, restarts>>

\* ... or it is truncated in place (copytruncate).
Truncate ==
  /\ Happens("truncate")
  /\ disk[path] # << >>
  /\ disk' = [disk EXCEPT ![path] = << >>]
  /\ UNCHANGED <<fromBeginning, path, nextLine, bookmark, tail, parserUp, out, start, restarts>>

-----------------------------------------------------------------------------
(* The source.                                                             *)

SmallerOf(a, b) == IF a < b THEN a ELSE b

\* mutant: a bookmark is believed whatever file it is of
StartPositionAnyInode ==
  IF bookmark # << >> THEN SmallerOf(bookmark[1].position, Len(disk[path]))
  ELSE IF fromBeginning THEN 0 ELSE Len(disk[path])

\* mutant: a restart goes to the end like a first start
StartPositionAtEnd == IF fromBeginning THEN 0 ELSE Len(disk[path])

\* open_at_start: the bookmark of this very file, or the configured end.
StartPosition ==
  IF bookmark # << >> /\ bookmark[1].inode = path
  THEN SmallerOf(bookmark[1].position, Len(disk[path]))
  ELSE IF fromBeginning THEN 0 ELSE Len(disk[path])

\* The relay starts (again).
Start ==
  /\ tail.mode = "down"
  /\ ~parserUp
  /\ restarts <= MaxRestarts
  /\ tail' = [Tail0 EXCEPT !.mode = "reading", !.inode = path, !.position = StartPosition]
  /\ parserUp' = TRUE
  /\ restarts' = restarts + 1
  /\ start' = IF restarts = 0 THEN [start EXCEPT ![path] = StartPosition] ELSE start
  /\ UNCHANGED <<worldVars, happened, bookmark, out>>

\* What the reader has and what it would get from the file beyond that.
Unread ==
  LET read == tail.position + Len(tail.buffer)
  IN tail.buffer \o SubSeq(disk[tail.inode], read + 1, Len(disk[tail.inode]))

\* read_line takes up to the next newline, or what there is before the end of
\* file; what else a refill of the buffer brought stays in the buffer.
LineLength(text) ==
  IF \E i \in DOMAIN text : Ends(text[i])
  THEN CHOOSE i \in DOMAIN text : Ends(text[i]) /\ \A j \in 1 .. i - 1 : ~Ends(text[j])
  ELSE Len(text)

ReadLine ==
  /\ tail.mode = "reading"
  /\ Unread # << >>
  /\ LET text == IF \E i \in DOMAIN tail.buffer : Ends(tail.buffer[i])
                 THEN tail.buffer ELSE Unread
         n    == LineLength(text)
     IN tail' = [tail EXCEPT !.mode = "sending", !.position = @ + n,
                             !.hand = SubSeq(text, 1, n),
                             !.buffer = SubSeq(text, n + 1, Len(text))]
  /\ UNCHANGED <<worldVars, happened, bookmark, parserUp, out, start, restarts>>

\* The task is gone with its locals; no bookmark is saved.
Dies ==
  /\ tail' = Tail0
  /\ parserUp' = FALSE
  /\ UNCHANGED <<worldVars, bookmark, out, start, restarts>>

\* read_line fails: the device, or a line that is not UTF-8 (a character of which
\* only the first half is written yet, for one).  The source returns the error.
ReadFails ==
  /\ Happens("read error")
  /\ tail.mode = "reading"
  /\ Dies

\* open_at_start fails: the run is over before it began.
StartFails ==
  /\ Happens("read error")
  /\ tail.mode = "down"
  /\ ~parserUp
  /\ restarts <= MaxRestarts
  /\ UNCHANGED <<worldVars, bookmark, tail, parserUp, out, start, restarts>>

ReadEof ==
  /\ tail.mode = "reading"
  /\ Unread = << >>
  /\ tail' = [tail EXCEPT !.mode = "eof"]
  /\ UNCHANGED <<worldVars, happened, bookmark, parserUp, out, start, restarts>>

\* mutant: the count is not looked at
BookmarkNever(emitted) == FALSE

BookmarkDue(emitted) == emitted >= BookmarkEvery

Send ==
  /\ tail.mode = "sending"
  /\ parserUp
  /\ out' = Append(out, [inode |-> tail.inode, text |-> tail.hand,
                         from |-> tail.position - Len(tail.hand), run |-> restarts])
  /\ LET emitted == tail.emitted + 1
     IN tail' = [tail EXCEPT !.hand = << >>, !.then = "reading",
                   !.mode = IF BookmarkDue(emitted) THEN "saving" ELSE "reading",
                   !.emitted = IF BookmarkDue(emitted) THEN 0 ELSE emitted]
  /\ UNCHANGED <<worldVars, happened, bookmark, parserUp, start, restarts>>

\* Nobody receives any more: the bookmark is saved past the unsent event.
SendFails ==
  /\ tail.mode = "sending"
  /\ ~parserUp
  /\ tail' = [tail EXCEPT !.mode = "saving", !.then = "down", !.hand = << >>]
  /\ UNCHANGED <<worldVars, happened, bookmark, parserUp, out, start, restarts>>

\* mutant: a file that shrank is not noticed
RotatedUnlessShrunk == path # tail.inode

\* detect_rotation: another file has the path, or it is shorter than we are.
Rotated == path # tail.inode \/ Len(disk[path]) < tail.position

Reopen ==
  /\ tail' = [Tail0 EXCEPT !.mode = "saving", !.inode = path, !.then = "reading"]
  /\ start' = [start EXCEPT ![path] = 0]

\* A wakeup or the poll interval ends the wait.
Wakeup ==
  /\ tail.mode = "eof"
  /\ IF Rotated THEN Reopen
     ELSE tail' = [tail EXCEPT !.mode = "reading"] /\ UNCHANGED start
  /\ UNCHANGED <<worldVars, happened, bookmark, parserUp, out, restarts>>

\* The shutdown branch: of the select, or of the wait.
Stop ==
  /\ Happens("stop")
  /\ tail.mode \in {"reading", "eof"}
  /\ tail' = [tail EXCEPT !.mode = "saving", !.then = "down"]
  /\ UNCHANGED <<worldVars, bookmark, parserUp, out, start, restarts>>

\* persist_bookmark returns: the new bookmark is in place, or the old one after
\* an error, which is not looked at.
Saved ==
  /\ tail.mode = "saving"
  /\ \/ /\ bookmark' = <<[inode |-> tail.inode, position |-> tail.position]>>
        /\ UNCHANGED happened
     \/ Happens("disk full") /\ UNCHANGED bookmark
  /\ tail' = [tail EXCEPT !.mode = tail.then]
  /\ parserUp' = (parserUp /\ tail.then # "down")
  /\ UNCHANGED <<worldVars, out, start, restarts>>

\* The parser hears of the shutdown first.
ParserEnds ==
  /\ Happens("parser ends")
  /\ tail.mode \in {"sending", "reading", "eof"}
  /\ parserUp
  /\ parserUp' = FALSE
  /\ UNCHANGED <<worldVars, bookmark, tail, out, start, restarts>>

\* The process is killed, in the middle of persist_bookmark too.
Crash ==
  /\ Happens("crash")
  /\ tail.mode # "down"
  /\ Dies

RunTail == Start \/ ReadLine \/ ReadEof \/ Send \/ SendFails \/ Wakeup \/ Saved

Next ==
  \/ Write \/ Rename \/ Truncate
  \/ RunTail
  \/ Stop \/ ParserEnds \/ ReadFails \/ StartFails \/ Crash

Spec == Init /\ [][Next]_vars

\* The task runs whenever it can; the parser takes what it is sent.
FairSpec == Spec /\ WF_vars(RunTail)

-----------------------------------------------------------------------------
(* Properties.                                                             *)

\* Where the k-th piece that was passed on ends.
EndOf(k) == IF k = 0 THEN start[path] ELSE out[k].from + Len(out[k].text)

Covered(i) ==
  UNION {(out[k].from + 1) .. (out[k].from + Len(out[k].text)) :
           k \in {k \in DOMAIN out : out[k].inode = i}}

\* Where reading of the path's file would go on from after a stop right now.
Resumes ==
  CASE tail.mode \in {"reading", "eof", "saving"} -> tail.position
    [] tail.mode = "sending" -> tail.position - Len(tail.hand)
    [] tail.mode = "down" /\ restarts > 0 -> StartPosition
    [] OTHER -> start[path]

\* Over stops and starts the relay passes on every unit of the file exactly
\* once and in order, from where it first began to where it will go on: each
\* piece begins where the one before it ended
\* (log_tail.rs:9-16 and 77-166).
ExactlyOnceInOrder ==
  happened \subseteq {"stop", "partial"} =>
    /\ \A k \in DOMAIN out :
         /\ out[k].from = EndOf(k - 1)
         /\ out[k].text # << >>
         /\ out[k].text = SubSeq(disk[path], out[k].from + 1, EndOf(k))
    /\ EndOf(Len(out)) = Resumes

\* The file that is read, or will be when the relay starts again.
Open == IF tail.mode = "down" THEN path ELSE tail.inode

\* No gap is left in any file before a unit of it that was passed on, nor in the
\* open one before the point of resumption.
PassedOn ==
  /\ (start[Open] + 1) .. Resumes \subseteq Covered(Open)
  /\ \A i \in Inode : \A u \in Covered(i) : (start[i] + 1) .. u \subseteq Covered(i)

\* A source that reads from the beginning leaves no gap in what it passes on of a
\* file over kills, failed reads, rotations by rename and bookmarks that cannot be
\* written, unless its file is truncated or the parser ends before it.  What a
\* renamed file holds behind the last unit passed on is not spoken of: the source
\* looks at the path before it reads on, and loses it (log_tail.rs:77-166 and 264-288).
NothingSkipped ==
  fromBeginning /\ happened \cap {"parser ends", "truncate"} = {} => PassedOn

\* A kill or a failed read makes the next run repeat at most one bookmark interval
\* of events: no run gets further past the saved position than that (log_tail.rs:152-156).
ReplayIsBounded ==
  LET saved == IF bookmark # << >> /\ bookmark[1].inode = path
               THEN bookmark[1].position ELSE 0
  IN happened \cap {"disk full", "truncate"} = {} =>
       Cardinality({k \in DOMAIN out : /\ out[k].run = restarts
                                       /\ out[k].inode = path
                                       /\ out[k].from >= saved}) <= BookmarkEvery

NoneTwice ==
  \A k, l \in DOMAIN out :
    k < l /\ out[k].inode = out[l].inode => out[k].from # out[l].from

\* Where no run ended without its bookmark (by a kill, a failed read or a bookmark
\* that could not be written) and no file was truncated, nothing is passed on
\* twice: "events emitted before the restart are not re-emitted"
\* (log_tail.rs:14-15).
NotReemitted ==
  happened \cap {"crash", "read error", "disk full", "truncate"} = {} => NoneTwice

\* "This makes relay restarts continuous: ... events written during the down
\* period are delivered" (log_tail.rs:14-16): after an orderly exit nothing
\* before the point of resumption is missing.
RestartsAreContinuous ==
  fromBeginning /\ happened \subseteq {"stop", "parser ends"} => PassedOn

\* Whatever the rotation does, a source that is up always gets to the end of the
\* file that has the path (log_tail.rs:111-136 and 303-318).
CatchesUp ==
  []<>(\/ tail.mode = "down"
       \/ /\ tail.mode = "eof"
          /\ tail.inode = path
          /\ tail.position = Len(disk[path]))

\* The log is read: every unit of it once and in order over stops, without a gap
\* over kills, failed reads and rotations (log_tail.rs:77-166 and 264-288).
LogIsRead ==
  /\ TypeOK
  /\ ExactlyOnceInOrder
  /\ NothingSkipped

\* The source repeats itself only after a run that ended without its bookmark, or
\* in a truncated file, and after a kill or a failed read by at most one bookmark
\* interval (log_tail.rs:14-15 and 152-161).
RepeatsLittle ==
  /\ ReplayIsBounded
  /\ NotReemitted
=============================================================================
