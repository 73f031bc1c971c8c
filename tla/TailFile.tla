------------------------------- MODULE TailFile -------------------------------
(*****************************************************************************)
(* The life of one log file in apptail (instance.go): choosing where to      *)
(* start, following the file, moving the cursor and publishing, over any     *)
(* number of crashes and restarts, and by any number of tailing sessions of  *)
(* its container: main.go:64-69 forgets a session as soon as Tail has        *)
(* returned, so that a second one may tail the same file beside it.  The     *)
(* sessions share the file and its one cursor.                               *)
(*                                                                           *)
(* Lines are numbered from 1 and have length 1, so that an offset is the     *)
(* number of lines before it.  The tail package reads in a goroutine of its  *)
(* own and hands lines over on an unbuffered channel: while readFromTail     *)
(* works on one line, tail may have read the next one, and t.Tell() reports  *)
(* a position behind that line too.  The tracker is the pair cursor / saved: *)
(* its own steps are modelled in TailTracker.  The app only appends.         *)
(*****************************************************************************)
EXTENDS Naturals

CONSTANTS Sess,       \* the tailing sessions of the container in one life of apptail
          MaxLines,   \* bound: the app writes at most this many lines
          ReadLimit,  \* read_limit of etc/apptail.yml, in lines
          IOFaults,   \* the sessions in which stat, open, Tell and tail may fail
          Limited,    \* the sessions whose lines come fast enough to be rate limited
          Absent,     \* the container is registered, the file has no cursor
          Removed     \* the container is not registered

ASSUME TailFileBounds == MaxLines \in Nat /\ ReadLimit \in Nat \ {0}

NoLine == 0            \* nothing handed over, nothing in hand
ErrLine == MaxLines + 1  \* a line with Err set, made by tail and not by the app

VARIABLES
  size,     \* lines in the log file
  up,       \* apptail is running
  cursor,   \* the tracker's offset of the file, or Absent, or Removed
  saved,    \* the same in the state file
  ses,      \* the sessions
  covered   \* history: every line up to here was published or passed over when seeking

vars == <<size, up, cursor, saved, ses, covered>>

Offset == 0..MaxLines
Line == 0..(MaxLines + 1)
\* tail.SeekInfo: so far from the start of the file, or so far back from its end.
SeekInfo == [whence : {"set", "end"}, dist : Offset]

Entry == Offset \cup {Absent, Removed}

ASSUME TailFileMarks ==
  /\ IOFaults \subseteq Sess /\ Limited \subseteq Sess
  /\ Absent \notin Nat /\ Removed \notin Nat /\ Absent # Removed
  /\ Absent \notin SeekInfo

Session ==
  [pc       : {"off", "check", "stat", "large", "open", "init", "initfail", "select",
               "tell", "update", "publish", "failing", "done"},
                                          \* where tailFile and readFromTail are
   stop     : {"open", "closed", "removed"},
                                          \* stopCh is closed; tracker.Remove has been called
   loop     : {"delay", "range", "gone"}, \* the loop of pubchannel
   location : SeekInfo \cup {Absent},     \* where tail is told to start, till it has
   should   : BOOLEAN,                    \* shouldInitialize
   tl       : {"none", "seek", "follow", "cooloff", "dead"}, \* tail's goroutine
   rd       : Offset,                     \* how many lines tail has read
   ahead    : Line,                       \* the line tail is sending on t.Lines
   line     : Line,                       \* the line readFromTail has received
   offset   : Offset,                     \* currentOffset of readFromTail
   shared   : BOOLEAN]                    \* history: another session tailed meanwhile

NoSession ==
  [pc |-> "off", stop |-> "open", loop |-> "delay", location |-> Absent,
   should |-> FALSE, tl |-> "none", rd |-> 0, ahead |-> NoLine, line |-> NoLine,
   offset |-> 0, shared |-> FALSE]

TypeOK ==
  /\ size \in Offset
  /\ up \in BOOLEAN
  /\ cursor \in Entry
  /\ saved \in Entry
  /\ ses \in [Sess -> Session]
  /\ covered \in Offset

Init ==
  /\ size \in Offset
  /\ up = FALSE
  /\ cursor = Removed
  /\ saved = Removed
  /\ ses = [s \in Sess |-> NoSession]
  /\ covered = 0

Max2(a, b) == IF a > b THEN a ELSE b

-----------------------------------------------------------------------------
\* The app, the process and the tracker.

AppWrites ==
  /\ size < MaxLines
  /\ size' = size + 1
  /\ UNCHANGED <<up, cursor, saved, ses, covered>>

\* LoadTailers.
Start ==
  /\ ~up
  /\ up' = TRUE
  /\ cursor' = saved
  /\ UNCHANGED <<size, saved, ses, covered>>

\* The process dies; in the middle of a Commit it takes the state file with it.
Crash ==
  /\ up
  /\ up' = FALSE
  /\ cursor' = Removed
  /\ saved' \in {saved, Removed}
  /\ ses' = [s \in Sess |-> NoSession]
  /\ UNCHANGED <<size, covered>>

Commit ==
  /\ up
  /\ saved' = cursor
  /\ UNCHANGED <<size, up, cursor, ses, covered>>

\* The sessions other than s with a tailing goroutine.
Beside(s) == {r \in Sess \ {s} : ses[r].pc \notin {"off", "done"}}

\* Tail: RegisterInstance, and the goroutine of the file.
Tail(s) ==
  /\ up
  /\ ses[s].pc = "off"
  /\ cursor' = IF cursor = Removed THEN Absent ELSE cursor
  /\ ses' = [r \in Sess |->
               IF r = s
                 THEN [NoSession EXCEPT !.pc = "check", !.shared = Beside(s) # {}]
                 ELSE [ses[r] EXCEPT !.shared = @ \/ r \in Beside(s)]]
  /\ UNCHANGED <<size, up, saved, covered>>

\* The container exits, or an event of it says so: close(stopCh), then tracker.Remove
\* with its Commit.
CloseStop(s) ==
  /\ ses[s].pc # "off"
  /\ ses[s].stop = "open"
  /\ ses' = [ses EXCEPT ![s].stop = "closed"]
  /\ UNCHANGED <<size, up, cursor, saved, covered>>

Remove(s) ==
  /\ ses[s].stop = "closed"
  /\ ses' = [ses EXCEPT ![s].stop = "removed"]
  /\ cursor' = Removed
  /\ saved' = Removed
  /\ UNCHANGED <<size, up, covered>>

-----------------------------------------------------------------------------
\* The pubch of the session.  Its loop receives after 100 ms, unless the session has been
\* stopped by then; which of the two it is shows when the goroutine has something to send.

Sending(s) == ses[s].pc \in {"large", "failing"}

LoopReady(s) ==
  /\ ses[s].loop = "delay" /\ Sending(s)
  /\ ses' = [ses EXCEPT ![s].loop = "range"]
  /\ UNCHANGED <<size, up, cursor, saved, covered>>

LoopStopped(s) ==
  /\ ses[s].loop = "delay" /\ Sending(s)
  /\ ses[s].stop # "open"
  /\ ses' = [ses EXCEPT ![s].loop = "gone"]
  /\ UNCHANGED <<size, up, cursor, saved, covered>>

\* The goroutine returns; of its session only what others look at is left.
Over(x) == [NoSession EXCEPT !.pc = "done", !.stop = x.stop]

\* SendTimelineEvent: the send of a large file's notice goes on to TailFile, the others
\* are the last thing the goroutine does.
LoopPublishes(s) ==
  /\ ses[s].loop = "range"
  /\ \/ /\ ses[s].pc = "large"
        /\ ses' = [ses EXCEPT ![s].pc = "open"]
     \/ /\ ses[s].pc = "failing"
        /\ ses' = [ses EXCEPT ![s] = Over(ses[s])]
  /\ UNCHANGED <<size, up, cursor, saved, covered>>

-----------------------------------------------------------------------------
\* tailFile.

\* IsChildNodeInitialized, and GetFileCachedOffset when it is.
CheckCursor(s) ==
  /\ ses[s].pc = "check"
  /\ \/ /\ cursor \in Offset
        /\ ses' = [ses EXCEPT ![s].location = [whence |-> "set", dist |-> cursor],
                              ![s].pc = "open"]
     \/ /\ cursor \notin Offset
        /\ ses' = [ses EXCEPT ![s].pc = "stat"]
  /\ UNCHANGED <<size, up, cursor, saved, covered>>

\* Mutant: files shorter than the limit forgotten.
getReadLimitAlways == ReadLimit

\* The last ReadLimit lines at most, by the size the file has now.
getReadLimit == IF size > ReadLimit THEN ReadLimit ELSE size

Stat(s) ==
  /\ ses[s].pc = "stat"
  /\ \/ ses' = [ses EXCEPT ![s].location = [whence |-> "end", dist |-> getReadLimit],
                           ![s].should = TRUE,
                           ![s].pc = IF size > ReadLimit THEN "large" ELSE "open"]
     \/ s \in IOFaults /\ ses' = [ses EXCEPT ![s].pc = "failing"]
  /\ UNCHANGED <<size, up, cursor, saved, covered>>

\* tail.TailFile starts tail's goroutine, or fails.
TailFile(s) ==
  /\ ses[s].pc = "open"
  /\ \/ ses' = [ses EXCEPT ![s].tl = "seek", ![s].pc = "init"]
     \/ s \in IOFaults /\ ses' = [ses EXCEPT ![s].location = Absent, ![s].pc = "initfail"]
  /\ UNCHANGED <<size, up, cursor, saved, covered>>

\* Mutant: every start sets the cursor to INITIAL_OFFSET.
InitializeAlways(s) ==
  /\ ses[s].pc \in {"init", "initfail"}
  /\ cursor' = IF cursor # Removed THEN 0 ELSE cursor
  /\ ses' = [ses EXCEPT ![s].pc = IF @ = "init" THEN "select" ELSE "failing",
                        ![s].should = FALSE]
  /\ UNCHANGED <<size, up, saved, covered>>

\* shouldInitialize: a file without a cursor gets one with INITIAL_OFFSET, even
\* where TailFile has failed.
InitializeChildNode(s) ==
  /\ ses[s].pc \in {"init", "initfail"}
  /\ cursor' = IF ses[s].should /\ cursor = Absent THEN 0 ELSE cursor
  /\ ses' = [ses EXCEPT ![s].pc = IF @ = "init" THEN "select" ELSE "failing",
                        ![s].should = FALSE]
  /\ UNCHANGED <<size, up, saved, covered>>

-----------------------------------------------------------------------------
\* tail's goroutine.

SeekTo(l) == IF l.whence = "set" THEN l.dist ELSE size - l.dist

TailSeeks(s) ==
  /\ ses[s].tl = "seek"
  /\ ses' = [ses EXCEPT ![s].rd = SeekTo(ses[s].location), ![s].tl = "follow",
                        ![s].location = Absent]
  /\ covered' = Max2(covered, SeekTo(ses[s].location))
  /\ UNCHANGED <<size, up, cursor, saved>>

TailReads(s) ==
  /\ ses[s].tl = "follow"
  /\ ses[s].ahead = NoLine
  /\ ses[s].rd < size
  /\ ses' = [ses EXCEPT ![s].rd = @ + 1, ![s].ahead = ses[s].rd + 1]
  /\ UNCHANGED <<size, up, cursor, saved, covered>>

\* The leaky bucket is full: tail sends an error line, waits, and seeks to the end.
TailCoolsOff(s) ==
  /\ s \in Limited
  /\ ses[s].tl = "follow"
  /\ ses[s].ahead = NoLine
  /\ ses' = [ses EXCEPT ![s].ahead = ErrLine, ![s].tl = "cooloff"]
  /\ UNCHANGED <<size, up, cursor, saved, covered>>

TailResumes(s) ==
  /\ ses[s].tl = "cooloff"
  /\ ses[s].ahead = NoLine
  /\ ses' = [ses EXCEPT ![s].rd = size, ![s].tl = "follow"]
  /\ covered' = size
  /\ UNCHANGED <<size, up, cursor, saved>>

\* tail gives up, for an error or because the file was deleted, and closes t.Lines.
TailDies(s) ==
  /\ s \in IOFaults
  /\ ses[s].tl \in {"seek", "follow"}
  /\ ses[s].ahead = NoLine
  /\ ses' = [ses EXCEPT ![s].tl = "dead", ![s].location = Absent]
  /\ UNCHANGED <<size, up, cursor, saved, covered>>

-----------------------------------------------------------------------------
\* readFromTail.

\* Mutant: an error line taken for the end of the file.
ReceiveEndsOnError(s) ==
  /\ ses[s].pc = "select"
  /\ ses[s].ahead # NoLine
  /\ \/ /\ ses[s].ahead = ErrLine
        /\ ses' = [ses EXCEPT ![s].ahead = NoLine, ![s].pc = "failing"]
     \/ /\ ses[s].ahead # ErrLine
        /\ ses' = [ses EXCEPT ![s].line = ses[s].ahead, ![s].ahead = NoLine,
                              ![s].pc = "tell"]
  /\ UNCHANGED <<size, up, cursor, saved, covered>>

Receive(s) ==
  /\ ses[s].pc = "select"
  /\ ses[s].ahead # NoLine
  /\ ses' = [ses EXCEPT ![s].line = ses[s].ahead, ![s].ahead = NoLine, ![s].pc = "tell"]
  /\ UNCHANGED <<size, up, cursor, saved, covered>>

\* Mutant: the position of the file handle, with what tail has buffered counted in.
TellBuffered(s) ==
  /\ ses[s].pc = "tell"
  /\ ses' = [ses EXCEPT ![s].offset = size, ![s].pc = "update"]
  /\ UNCHANGED <<size, up, cursor, saved, covered>>

\* Mutant: the position before the last line read.
TellBefore(s) ==
  /\ ses[s].pc = "tell"
  /\ ses' = [ses EXCEPT ![s].offset = IF ses[s].rd = 0 THEN 0 ELSE ses[s].rd - 1,
                        ![s].pc = "update"]
  /\ UNCHANGED <<size, up, cursor, saved, covered>>

\* A failed Tell is logged and its zero is used.
Tell(s) ==
  /\ ses[s].pc = "tell"
  /\ \E o \in {ses[s].rd} \cup (IF s \in IOFaults THEN {0} ELSE {}) :
       ses' = [ses EXCEPT ![s].offset = o, ![s].pc = "update"]
  /\ UNCHANGED <<size, up, cursor, saved, covered>>

Update(s) ==
  /\ ses[s].pc = "update"
  /\ cursor' = IF cursor \in Offset THEN ses[s].offset ELSE cursor
  /\ ses' = [ses EXCEPT ![s].pc = "publish"]
  /\ UNCHANGED <<size, up, saved, covered>>

\* publishLine; currentOffset is local to the iteration that ends here.
PublishLine(s) ==
  /\ ses[s].pc = "publish"
  /\ covered' = IF ses[s].line = ErrLine THEN covered ELSE Max2(covered, ses[s].line)
  /\ ses' = [ses EXCEPT ![s].line = NoLine, ![s].offset = 0, ![s].pc = "select"]
  /\ UNCHANGED <<size, up, cursor, saved>>

\* t.Lines is closed because tail gave up: its error, if it has one, is sent to the
\* timeline; of a file that was deleted it has none.
LinesClosed(s) ==
  /\ ses[s].pc = "select"
  /\ ses[s].tl = "dead"
  /\ \/ ses' = [ses EXCEPT ![s].pc = "failing"]
     \/ ses' = [ses EXCEPT ![s] = Over(ses[s])]
  /\ UNCHANGED <<size, up, cursor, saved, covered>>

\* Mutant: stopCh is only looked at once tail is dead.
StopTailNever(s) ==
  /\ ses[s].pc = "select"
  /\ ses[s].stop # "open"
  /\ ses[s].tl = "dead"
  /\ ses' = [ses EXCEPT ![s] = Over(ses[s])]
  /\ UNCHANGED <<size, up, cursor, saved, covered>>

\* t.Stop: what tail has read and not handed over is dropped.  It returns the error
\* tail has died of, if it has.
StopTail(s) ==
  /\ ses[s].pc = "select"
  /\ ses[s].stop # "open"
  /\ \/ ses' = [ses EXCEPT ![s] = Over(ses[s])]
     \/ /\ ses[s].tl = "dead" \/ s \in IOFaults
        /\ ses' = [ses EXCEPT ![s].tl = "dead", ![s].location = Absent,
                              ![s].ahead = NoLine, ![s].pc = "failing"]
  /\ UNCHANGED <<size, up, cursor, saved, covered>>

Tailing(s) ==
  \/ CheckCursor(s) \/ Stat(s) \/ TailFile(s) \/ InitializeChildNode(s)
  \/ Receive(s) \/ Tell(s) \/ Update(s) \/ PublishLine(s) \/ LinesClosed(s) \/ StopTail(s)

Reading(s) ==
  TailSeeks(s) \/ TailReads(s) \/ TailCoolsOff(s) \/ TailResumes(s) \/ TailDies(s)

Stopping(s) ==
  \/ CloseStop(s) \/ Remove(s) \/ LoopReady(s) \/ LoopStopped(s) \/ LoopPublishes(s)

Next ==
  \/ AppWrites \/ Start \/ Crash \/ Commit
  \/ \E s \in Sess : Tail(s) \/ Stopping(s) \/ Reading(s) \/ Tailing(s)

Spec == Init /\ [][Next]_vars

\* The goroutines of a session run whenever they can, the loop of its pubch too.  select
\* takes one of its ready cases at random, so stopCh is not passed over for ever while
\* lines keep coming.
Fairness ==
  \A s \in Sess :
    /\ WF_vars(Tailing(s))
    /\ WF_vars(TailSeeks(s) \/ TailReads(s) \/ TailResumes(s))
    /\ WF_vars(LoopReady(s) \/ LoopStopped(s) \/ LoopPublishes(s))
    /\ SF_vars(StopTail(s))

-----------------------------------------------------------------------------
\* Properties.

\* A crash loses at most two lines: however the commits fall and however many sessions
\* store their positions, the offset in the state file is at most two lines beyond the
\* last line that was published (or passed over on purpose), namely the one readFromTail
\* is working on, whose cursor is updated before it is published, and the one tail has
\* read ahead.
LossBound == saved \in Offset => saved <= covered + 2

\* A cursor only moves forward while apptail runs, from the offset it was loaded or made
\* with.  InitializeChildNode never takes it back, however the sessions fall, and Update
\* does so in two cases only: Tell has failed for this session, and its zero is stored as
\* an offset; or another session of the container has been tailing the file at the same
\* time, and this one is behind it.
CursorAdvances ==
  [][(cursor \in Offset /\ cursor' \in Offset /\ cursor' < cursor)
       => \E s \in Sess : /\ ses[s].pc = "update" /\ ses'[s].pc = "publish"
                          /\ cursor' = ses[s].offset
                          /\ ses[s].offset = 0 \/ ses[s].shared]_vars

\* A line that is being published is behind the cursor already, so that a Commit at any
\* moment from then on keeps a restart from publishing it once more; unless Tell has
\* failed for this line, the container has been removed, or another session of the
\* container that tails the file at the same time has taken the cursor back.
PublishedNotReplayed ==
  \A s \in Sess :
    ses[s].pc = "publish" /\ ses[s].line # ErrLine /\ cursor \in Offset
      => ses[s].line <= cursor \/ ses[s].offset = 0 \/ ses[s].shared

\* A line in a file that tail follows is published by the session, or passed over by it
\* in a cool-off, unless apptail or the session is stopped first or tail gives up.
LinesGetPublished ==
  \A s \in Sess, k \in Offset \ {0} :
    ses[s].tl = "follow" /\ size >= k
      ~> \/ ses[s].rd >= k /\ ses[s].ahead \notin 1..k /\ ses[s].line \notin 1..k
         \/ ses[s].stop # "open" \/ ses[s].tl = "dead" \/ ~up

\* Once stopCh is closed the session's tailing of the file comes to its end, with one
\* exception: a session stopped in its first 100 ms has no loop any more that would
\* receive from pubch, and a timeline event the goroutine still has to send blocks it for
\* ever (a large file, a failed stat, a file that cannot be tailed or an error of tail).
StopEndsTailing ==
  \A s \in Sess :
    ses[s].stop # "open"
      ~> \/ ses[s].pc \in {"off", "done"}
         \/ Sending(s) /\ ses[s].loop = "gone"
=============================================================================
