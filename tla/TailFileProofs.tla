---------------------------- MODULE TailFileProofs ----------------------------
(****************************************************************************)
(* Proofs about TailFile for a log of any length, any read limit and any    *)
(* number of sessions that tail it at the same time: types, that a crash    *)
(* loses at most two lines, and when a cursor may be taken back.            *)
(*                                                                          *)
(* LossBound speaks of the state file only.  To carry it through a step one *)
(* has to know how far ahead of the published lines each of the places an   *)
(* offset passes through may be: tail's reader and currentOffset of every   *)
(* session, the cursor, the state file and the location of the next start.  *)
(****************************************************************************)
EXTENDS TailFile, TLAPS

\* 1 for a line of the app, 0 for none and for an error line.
Weight(l) == IF l = NoLine \/ l = ErrLine THEN 0 ELSE 1

HasLine(x) == x.pc \in {"tell", "update", "publish"}

\* The line in hand and the one read ahead are the last ones tail has read.
InFlight(x) ==
  /\ Weight(x.ahead) = 1 => x.ahead = x.rd
  /\ Weight(x.line) = 1 => x.rd = x.line + Weight(x.ahead)
  /\ x.line # NoLine <=> HasLine(x)
  /\ x.tl \in {"none", "seek"} => x.ahead = NoLine /\ x.line = NoLine
  /\ x.tl = "dead" => x.ahead = NoLine
  /\ x.tl = "cooloff" => Weight(x.ahead) = 0 /\ (x.ahead = NoLine => Weight(x.line) = 0)

\* No position of a session lies beyond the end of a file of sz lines.
Within(x, sz) ==
  /\ x.rd <= sz
  /\ x.offset <= sz
  /\ x.location # Absent => x.location.dist <= sz

\* How far ahead of cv, the published lines, each position of a session may be.
Ahead(x, cv) ==
  /\ x.pc # "failing" => x.rd <= cv + Weight(x.ahead) + Weight(x.line)
  /\ x.pc = "update" => x.offset <= cv + 2

\* tail's goroutine starts after tailFile's choice of a location.
Placed(x) ==
  /\ x.pc \in {"off", "check", "stat", "large", "open", "done"} => x.tl = "none"
  /\ x.pc \in {"large", "open"} \/ x.tl = "seek" => x.location # Absent

Sound(x, sz, cv) ==
  x \in Session /\ InFlight(x) /\ Within(x, sz) /\ Ahead(x, cv) /\ Placed(x)

\* No offset of the tracker lies beyond the end of the file or too far ahead.
Tracked(c, sz, cv) == c \in Offset => c <= sz /\ c <= cv + 2

FInv ==
  /\ TypeOK
  /\ covered <= size
  /\ Tracked(cursor, size, covered)
  /\ Tracked(saved, size, covered)
  /\ ~up => cursor = Removed /\ ses = [s \in Sess |-> NoSession]
  /\ \A s \in Sess : Sound(ses[s], size, covered)

-----------------------------------------------------------------------------

LEMMA Numbers ==
  /\ MaxLines \in Nat /\ ReadLimit \in Nat /\ ErrLine = MaxLines + 1 /\ NoLine = 0
  /\ Absent \notin Offset /\ Removed \notin Offset /\ Absent # Removed
  /\ Absent \notin SeekInfo
BY TailFileBounds, TailFileMarks DEF Offset, ErrLine, NoLine

USE Numbers DEF Offset

LEMMA NoSessionIsSound ==
  ASSUME NEW sz \in Nat, NEW cv \in Nat
  PROVE  Sound(NoSession, sz, cv)
<1>1. NoSession \in Session
  BY DEF NoSession, Session, Line
<1> QED
  BY <1>1 DEF Sound, NoSession, InFlight, Within, Ahead, Placed, Weight, HasLine

\* What a session that is over leaves behind.
LEMMA OverIsSound ==
  ASSUME NEW x \in Session, NEW sz \in Nat, NEW cv \in Nat
  PROVE  Sound(Over(x), sz, cv)
<1>1. Over(x) \in Session
  <2>1. NoSession \in Session
    BY NoSessionIsSound DEF Sound
  <2> QED
    BY <2>1, ZenonT(60) DEF Over, Session
<1> QED
  BY <1>1 DEF Sound, Over, NoSession, InFlight, Within, Ahead, Placed, Weight, HasLine

\* More lines in the file and more lines published do a session no harm.
LEMMA SoundGrows ==
  ASSUME NEW x, NEW sz \in Nat, NEW cv \in Nat, NEW sz2 \in Nat, NEW cv2 \in Nat,
         sz <= sz2, cv <= cv2, Sound(x, sz, cv)
  PROVE  Sound(x, sz2, cv2)
<1> USE DEF Sound
<1>1. x.rd \in Nat /\ x.offset \in Nat /\ Weight(x.ahead) \in 0..1 /\ Weight(x.line) \in 0..1
  BY DEF Session, Weight
<1>2. x.location # Absent => x.location.dist \in Nat
  BY DEF Session, SeekInfo
<1>3. Within(x, sz2)
  BY <1>1, <1>2 DEF Within
<1>4. Ahead(x, cv2)
  BY <1>1 DEF Ahead
<1> QED
  BY <1>3, <1>4

LEMMA TrackedGrows ==
  ASSUME NEW c, NEW sz \in Nat, NEW cv \in Nat, NEW sz2 \in Nat, NEW cv2 \in Nat,
         sz <= sz2, cv <= cv2, Tracked(c, sz, cv)
  PROVE  Tracked(c, sz2, cv2)
BY DEF Tracked

\* A step that moves one session on and neither the tracker nor the process.
LEMMA SessionMoves ==
  ASSUME FInv, NEW s \in Sess, NEW y,
         ses' = [ses EXCEPT ![s] = y],
         covered' \in Nat, covered <= covered', covered' <= size,
         Sound(y, size, covered'),
         Tracked(cursor', size, covered'), cursor' \in Entry, up,
         UNCHANGED <<size, up, saved>>
  PROVE  FInv'
<1> USE DEF FInv, TypeOK
<1>1. y \in Session /\ ses' \in [Sess -> Session]
  BY DEF Sound
<1>2. ASSUME NEW r \in Sess PROVE Sound(ses'[r], size, covered')
  <2>1. Sound(ses[r], size, covered')
    BY SoundGrows
  <2> QED
    BY <2>1
<1>3. Tracked(saved, size, covered')
  <2>1. size \in Nat /\ covered \in Nat /\ size <= size
    OBVIOUS
  <2> QED
    BY <2>1, TrackedGrows
<1> QED
  BY <1>1, <1>2, <1>3

LEMMA UpWhenActive == FInv => \A s \in Sess : ses[s].pc # "off" => up
BY DEF FInv, NoSession

LEMMA InitEstablishes == Init => FInv
<1> SUFFICES ASSUME Init PROVE FInv
  OBVIOUS
<1>1. TypeOK
  <2>1. NoSession \in Session
    BY NoSessionIsSound DEF Sound
  <2>2. Removed \in Entry /\ 0 \in Offset
    BY DEF Entry
  <2> QED
    BY <2>1, <2>2 DEF Init, TypeOK
<1>2. \A s \in Sess : Sound(ses[s], size, covered)
  <2>1. size \in Nat /\ covered \in Nat
    BY DEF Init
  <2> QED
    BY <2>1, NoSessionIsSound DEF Init
<1> QED
  BY <1>1, <1>2 DEF Init, FInv, Tracked

-----------------------------------------------------------------------------
\* The app, the process and the tracker.

LEMMA OutsidePreserves ==
  FInv /\ (AppWrites \/ Start \/ Crash \/ Commit) => FInv'
<1> SUFFICES ASSUME FInv, AppWrites \/ Start \/ Crash \/ Commit PROVE FInv'
  OBVIOUS
<1> USE DEF FInv, TypeOK
<1>1. CASE AppWrites
  <2>1. \A s \in Sess : Sound(ses[s], size', covered')
    BY <1>1, SoundGrows DEF AppWrites
  <2> QED
    BY <1>1, <2>1 DEF AppWrites, Tracked
<1>2. CASE Start
  BY <1>2 DEF Start
<1>3. CASE Crash
  <2>1. NoSession \in Session /\ Removed \in Entry
    BY NoSessionIsSound DEF Sound, Entry
  <2>2. \A s \in Sess : Sound(ses'[s], size', covered')
    BY <1>3, NoSessionIsSound DEF Crash
  <2> QED
    BY <1>3, <2>1, <2>2 DEF Crash, Tracked
<1>4. CASE Commit
  BY <1>4 DEF Commit
<1> QED
  BY <1>1, <1>2, <1>3, <1>4

\* A new session; the others learn that they are not alone.
LEMMA TailPreserves == ASSUME FInv, NEW s \in Sess, Tail(s) PROVE FInv'
<1>1. /\ size \in Nat /\ covered \in Nat /\ ses \in [Sess -> Session]
      /\ \A r \in Sess : Sound(ses[r], size, covered)
  BY DEF FInv, TypeOK
<1>2. /\ up /\ UNCHANGED <<size, up, saved, covered>>
      /\ cursor' = IF cursor = Removed THEN Absent ELSE cursor
      /\ ses' = [r \in Sess |->
                   IF r = s
                     THEN [NoSession EXCEPT !.pc = "check", !.shared = Beside(s) # {}]
                     ELSE [ses[r] EXCEPT !.shared = @ \/ r \in Beside(s)]]
  BY DEF Tail
<1>3. ASSUME NEW r \in Sess PROVE Sound(ses'[r], size, covered)
  <2>1. CASE r = s
    <3>1. PICK b \in BOOLEAN : ses'[r] = [NoSession EXCEPT !.pc = "check", !.shared = b]
      BY <1>2, <2>1
    <3>2. ses'[r] \in Session
      BY <1>1, <3>1, NoSessionIsSound, ZenonT(60) DEF Session, Sound
    <3>3. /\ ses'[r].pc = "check" /\ ses'[r].location = Absent /\ ses'[r].tl = "none"
          /\ ses'[r].rd = 0 /\ ses'[r].ahead = NoLine /\ ses'[r].line = NoLine
          /\ ses'[r].offset = 0
      BY <3>1 DEF NoSession
    <3> QED
      BY <1>1, <3>2, <3>3 DEF Sound, InFlight, Within, Ahead, Placed, Weight, HasLine
  <2>2. CASE r # s
    <3>1. PICK b \in BOOLEAN : ses'[r] = [ses[r] EXCEPT !.shared = b]
      <4>1. ses[r].shared \in BOOLEAN
        BY <1>1 DEF Session
      <4> QED
        BY <1>2, <2>2, <4>1
    <3>2. ses'[r] \in Session
      BY <1>1, <3>1 DEF Session
    <3>3. /\ ses'[r].pc = ses[r].pc /\ ses'[r].location = ses[r].location
          /\ ses'[r].tl = ses[r].tl /\ ses'[r].rd = ses[r].rd
          /\ ses'[r].ahead = ses[r].ahead /\ ses'[r].line = ses[r].line
          /\ ses'[r].offset = ses[r].offset
      BY <1>1, <3>1 DEF Session
    <3> QED
      BY <1>1, <3>2, <3>3 DEF Sound, InFlight, Within, Ahead, Placed, HasLine
  <2> QED
    BY <2>1, <2>2
<1>4. ses' \in [Sess -> Session]
  BY <1>2, <1>3 DEF Sound
<1>5. cursor' \in Entry /\ Tracked(cursor', size, covered)
  BY <1>2 DEF FInv, TypeOK, Entry, Tracked
<1> QED
  BY <1>2, <1>3, <1>4, <1>5 DEF FInv, TypeOK

LEMMA StoppingPreserves == ASSUME FInv, NEW s \in Sess, Stopping(s) PROVE FInv'
<1> DEFINE x == ses[s]
<1>1. Sound(x, size, covered) /\ x \in Session /\ ses \in [Sess -> Session]
      /\ size \in Nat /\ covered \in Nat
  BY DEF FInv, TypeOK, Sound
<1>2. CASE CloseStop(s) \/ LoopReady(s) \/ LoopStopped(s) \/ LoopPublishes(s)
  <2>1. PICK y : ses' = [ses EXCEPT ![s] = y] /\ Sound(y, size, covered)
    <3>1. CASE CloseStop(s)
      <4>1. Sound([x EXCEPT !.stop = "closed"], size, covered)
        BY <1>1 DEF Sound, Session, InFlight, Within, Ahead, Placed, HasLine
      <4> QED
        BY <1>1, <3>1, <4>1 DEF CloseStop
    <3>2. CASE LoopReady(s)
      <4>1. Sound([x EXCEPT !.loop = "range"], size, covered)
        BY <1>1 DEF Sound, Session, InFlight, Within, Ahead, Placed, HasLine
      <4> QED
        BY <1>1, <3>2, <4>1 DEF LoopReady
    <3>3. CASE LoopStopped(s)
      <4>1. Sound([x EXCEPT !.loop = "gone"], size, covered)
        BY <1>1 DEF Sound, Session, InFlight, Within, Ahead, Placed, HasLine
      <4> QED
        BY <1>1, <3>3, <4>1 DEF LoopStopped
    <3>4. CASE LoopPublishes(s)
      <4>1. CASE x.pc = "large"
        <5>1. Sound([x EXCEPT !.pc = "open"], size, covered)
          BY <1>1, <4>1 DEF Sound, Session, InFlight, Within, Ahead, Placed, HasLine
        <5> QED
          BY <1>1, <3>4, <4>1, <5>1 DEF LoopPublishes
      <4>2. CASE x.pc = "failing"
        BY <1>1, <3>4, <4>2, OverIsSound DEF LoopPublishes
      <4> QED
        BY <3>4, <4>1, <4>2 DEF LoopPublishes
    <3> QED
      BY <1>2, <3>1, <3>2, <3>3, <3>4
  <2>2. UNCHANGED <<size, up, cursor, saved, covered>> /\ up
    BY <1>2, UpWhenActive DEF CloseStop, LoopReady, LoopStopped, LoopPublishes, Sending
  <2>3. /\ covered' \in Nat /\ covered <= covered' /\ covered' <= size
        /\ cursor' \in Entry /\ Tracked(cursor', size, covered')
        /\ Sound(y, size, covered')
    BY <1>1, <2>1, <2>2 DEF FInv, TypeOK
  <2> QED
    BY <2>1, <2>2, <2>3, SessionMoves
<1>3. CASE Remove(s)
  <2>1. Sound([x EXCEPT !.stop = "removed"], size, covered)
    BY <1>1 DEF Sound, Session, InFlight, Within, Ahead, Placed, HasLine
  <2>2. \A r \in Sess : Sound(ses'[r], size, covered)
    BY <1>1, <1>3, <2>1 DEF Remove, FInv
  <2>3. ses' \in [Sess -> Session]
    BY <1>1, <1>3, <2>1 DEF Remove, Sound
  <2>4. up
    BY <1>3 DEF Remove, FInv, NoSession
  <2> QED
    BY <1>3, <2>2, <2>3, <2>4 DEF Remove, FInv, TypeOK, Tracked, Entry
<1> QED
  BY <1>2, <1>3 DEF Stopping

-----------------------------------------------------------------------------
\* tail's goroutine.

\* The facts about the acting session that every step below starts from.
LEMMA Acting ==
  ASSUME FInv, NEW s \in Sess
  PROVE  /\ Sound(ses[s], size, covered) /\ ses[s] \in Session /\ ses \in [Sess -> Session]
         /\ size \in Offset /\ covered \in Offset /\ covered <= size
         /\ cursor \in Entry /\ Tracked(cursor, size, covered)
         /\ ses[s].pc # "off" \/ ses[s].tl # "none" => up
<1>1. NoSession.pc = "off" /\ NoSession.tl = "none"
  BY DEF NoSession
<1> QED
  BY <1>1 DEF FInv, TypeOK, Sound

\* A step of session s alone: its new record is sound, and so is the state.
LEMMA OneMoves ==
  ASSUME FInv, NEW s \in Sess, NEW y,
         ses' = [ses EXCEPT ![s] = y],
         ses[s].pc # "off" \/ ses[s].tl # "none",
         Sound(y, size, covered),
         UNCHANGED <<size, up, cursor, saved, covered>>
  PROVE  FInv'
<1>1. /\ up /\ covered' \in Nat /\ covered <= covered' /\ covered' <= size
      /\ cursor' \in Entry /\ Tracked(cursor', size, covered') /\ Sound(y, size, covered')
  BY Acting DEF Sound
<1> QED
  BY <1>1, SessionMoves

LEMMA TailReadsPreserves == ASSUME FInv, NEW s \in Sess, TailReads(s) PROVE FInv'
<1> DEFINE x == ses[s]
           y == [x EXCEPT !.rd = x.rd + 1, !.ahead = x.rd + 1]
<1>1. Sound(y, size, covered)
  BY Acting DEF Sound, Session, InFlight, Within, Ahead, Placed, Weight, HasLine,
     TailReads, Line
<1>2. ses' = [ses EXCEPT ![s] = y]
  BY Acting DEF TailReads, Line
<1> QED
  BY <1>1, <1>2, OneMoves DEF TailReads

LEMMA TailCoolsOffPreserves == ASSUME FInv, NEW s \in Sess, TailCoolsOff(s) PROVE FInv'
<1> DEFINE x == ses[s]
           y == [x EXCEPT !.ahead = ErrLine, !.tl = "cooloff"]
<1>1. Sound(y, size, covered)
  BY Acting DEF Sound, Session, InFlight, Within, Ahead, Placed, Weight, HasLine,
     TailCoolsOff, Line
<1>2. ses' = [ses EXCEPT ![s] = y]
  BY Acting DEF TailCoolsOff, Line
<1> QED
  BY <1>1, <1>2, OneMoves DEF TailCoolsOff

LEMMA TailDiesPreserves == ASSUME FInv, NEW s \in Sess, TailDies(s) PROVE FInv'
<1> DEFINE x == ses[s]
           y == [x EXCEPT !.tl = "dead", !.location = Absent]
<1>1. Sound(y, size, covered)
  <2>1. y \in Session
    BY Acting, ZenonT(60) DEF Session, TailDies
  <2>2. /\ y.tl = "dead" /\ y.location = Absent /\ y.pc = x.pc /\ y.rd = x.rd
        /\ y.ahead = x.ahead /\ y.line = x.line /\ y.offset = x.offset
    BY Acting DEF Session, TailDies
  <2>3. InFlight(y)
    BY <2>2, Acting DEF Sound, InFlight, HasLine, Weight, TailDies
  <2>4. Within(y, size) /\ Ahead(y, covered) /\ Placed(y)
    BY <2>2, Acting DEF Sound, Session, Within, Ahead, Placed, Weight, InFlight, HasLine,
       TailDies
  <2> QED
    BY <2>1, <2>3, <2>4 DEF Sound
<1>2. ses' = [ses EXCEPT ![s] = y]
  BY Acting DEF TailDies
<1> QED
  BY <1>1, <1>2, OneMoves DEF TailDies

LEMMA TailSeeksPreserves == ASSUME FInv, NEW s \in Sess, TailSeeks(s) PROVE FInv'
<1> DEFINE x == ses[s]
           y == [x EXCEPT !.rd = SeekTo(x.location), !.tl = "follow", !.location = Absent]
<1>1. covered' \in Nat /\ covered <= covered' /\ covered' <= size
  BY Acting DEF Sound, Session, InFlight, Within, Ahead, Placed, Weight, HasLine,
     TailSeeks, Max2, SeekTo, SeekInfo
<1>2. Sound(y, size, covered')
  BY Acting DEF Sound, Session, InFlight, Within, Ahead, Placed, Weight, HasLine,
     TailSeeks, Max2, SeekTo, SeekInfo
<1>3. ses' = [ses EXCEPT ![s] = y]
  BY Acting DEF TailSeeks
<1>4. up /\ cursor' \in Entry /\ Tracked(cursor', size, covered')
  BY <1>1, Acting, TrackedGrows DEF TailSeeks
<1> QED
  BY <1>1, <1>2, <1>3, <1>4, SessionMoves DEF TailSeeks

LEMMA TailResumesPreserves == ASSUME FInv, NEW s \in Sess, TailResumes(s) PROVE FInv'
<1> DEFINE x == ses[s]
           y == [x EXCEPT !.rd = size, !.tl = "follow"]
<1>1. covered' \in Nat /\ covered <= covered' /\ covered' <= size
  BY Acting DEF Sound, Session, InFlight, Within, Ahead, Placed, Weight, HasLine,
     TailResumes, Max2
<1>2. Sound(y, size, covered')
  BY Acting DEF Sound, Session, InFlight, Within, Ahead, Placed, Weight, HasLine,
     TailResumes, Max2
<1>3. ses' = [ses EXCEPT ![s] = y]
  BY Acting DEF TailResumes
<1>4. up /\ cursor' \in Entry /\ Tracked(cursor', size, covered')
  BY <1>1, Acting, TrackedGrows DEF TailResumes
<1> QED
  BY <1>1, <1>2, <1>3, <1>4, SessionMoves DEF TailResumes

LEMMA ReadingPreserves == ASSUME FInv, NEW s \in Sess, Reading(s) PROVE FInv'
BY TailSeeksPreserves, TailReadsPreserves, TailCoolsOffPreserves, TailResumesPreserves,
   TailDiesPreserves DEF Reading

-----------------------------------------------------------------------------
\* tailFile and readFromTail.

LEMMA CheckCursorPreserves == ASSUME FInv, NEW s \in Sess, CheckCursor(s) PROVE FInv'
<1> DEFINE x == ses[s]
           y == [x EXCEPT !.location = [whence |-> "set", dist |-> cursor], !.pc = "open"]
           z == [x EXCEPT !.pc = "stat"]
<1>1. CASE cursor \in Offset
  <2>1. Sound(y, size, covered)
    BY <1>1, Acting DEF Sound, Session, InFlight, Within, Ahead, Placed, Weight, HasLine,
       CheckCursor, SeekInfo, Tracked
  <2>2. ses' = [ses EXCEPT ![s] = y]
    BY <1>1, Acting DEF CheckCursor
  <2> QED
    BY <2>1, <2>2, OneMoves DEF CheckCursor
<1>2. CASE cursor \notin Offset
  <2>1. Sound(z, size, covered)
    BY Acting DEF Sound, Session, InFlight, Within, Ahead, Placed, Weight, HasLine,
       CheckCursor
  <2>2. ses' = [ses EXCEPT ![s] = z]
    BY <1>2, Acting DEF CheckCursor
  <2> QED
    BY <2>1, <2>2, OneMoves DEF CheckCursor
<1> QED
  BY <1>1, <1>2

LEMMA StatPreserves == ASSUME FInv, NEW s \in Sess, Stat(s) PROVE FInv'
<1> DEFINE x == ses[s]
           y == [x EXCEPT !.location = [whence |-> "end", dist |-> getReadLimit],
                          !.should = TRUE,
                          !.pc = IF size > ReadLimit THEN "large" ELSE "open"]
           z == [x EXCEPT !.pc = "failing"]
<1>1. Sound(y, size, covered)
  <2>1. [whence |-> "end", dist |-> getReadLimit] \in SeekInfo /\ getReadLimit <= size
    BY Acting DEF SeekInfo, getReadLimit
  <2>2. y \in Session
    <3> DEFINE at == [whence |-> "end", dist |-> getReadLimit]
    <3>1. x \in Session
      BY Acting
    <3> HIDE DEF at
    <3>2. [x EXCEPT !.location = at, !.should = TRUE, !.pc = "large"] \in Session
      BY <2>1, <3>1 DEF Session, at
    <3>3. [x EXCEPT !.location = at, !.should = TRUE, !.pc = "open"] \in Session
      BY <2>1, <3>1 DEF Session, at
    <3> QED
      BY <3>2, <3>3 DEF at
  <2>3. /\ y.pc \in {"large", "open"} /\ y.location.dist = getReadLimit /\ y.location # Absent
        /\ y.tl = x.tl /\ y.rd = x.rd
        /\ y.ahead = x.ahead /\ y.line = x.line /\ y.offset = x.offset
    BY <2>1, Acting DEF Session
  <2>4. InFlight(y)
    BY <2>3, Acting DEF Sound, InFlight, HasLine, Stat
  <2>5. Within(y, size) /\ Ahead(y, covered) /\ Placed(y)
    BY <2>1, <2>3, Acting DEF Sound, Within, Ahead, Placed, Stat
  <2> QED
    BY <2>2, <2>4, <2>5 DEF Sound
<1>2. Sound(z, size, covered)
  BY Acting, SMTT(30) DEF Sound, Session, InFlight, Within, Ahead, Placed, Weight, HasLine, Stat
<1>3. ses' = [ses EXCEPT ![s] = y] \/ ses' = [ses EXCEPT ![s] = z]
  BY Acting DEF Stat
<1> QED
  BY <1>1, <1>2, <1>3, OneMoves DEF Stat

LEMMA TailFilePreserves == ASSUME FInv, NEW s \in Sess, TailFile(s) PROVE FInv'
<1> DEFINE x == ses[s]
           y == [x EXCEPT !.tl = "seek", !.pc = "init"]
           z == [x EXCEPT !.location = Absent, !.pc = "initfail"]
<1>1. Sound(y, size, covered) /\ Sound(z, size, covered)
  BY Acting DEF Sound, Session, InFlight, Within, Ahead, Placed, Weight, HasLine, TailFile
<1>2. ses' = [ses EXCEPT ![s] = y] \/ ses' = [ses EXCEPT ![s] = z]
  BY Acting DEF TailFile
<1> QED
  BY <1>1, <1>2, OneMoves DEF TailFile

LEMMA InitializePreserves ==
  ASSUME FInv, NEW s \in Sess, InitializeChildNode(s) PROVE FInv'
<1> DEFINE x == ses[s]
           y == [x EXCEPT !.pc = IF x.pc = "init" THEN "select" ELSE "failing",
                          !.should = FALSE]
<1>1. Sound(y, size, covered)
  <2>1. y \in Session
    <3>1. x \in Session
      BY Acting
    <3>2. [x EXCEPT !.pc = "select", !.should = FALSE] \in Session
      BY <3>1 DEF Session
    <3>3. [x EXCEPT !.pc = "failing", !.should = FALSE] \in Session
      BY <3>1 DEF Session
    <3> QED
      BY <3>2, <3>3
  <2>2. /\ y.pc \in {"select", "failing"} /\ (y.pc = "select" => x.pc = "init")
        /\ y.location = x.location /\ y.tl = x.tl /\ y.rd = x.rd
        /\ y.ahead = x.ahead /\ y.line = x.line /\ y.offset = x.offset
    BY Acting DEF Session, InitializeChildNode
  <2>3. InFlight(y)
    BY <2>2, Acting DEF Sound, InFlight, HasLine, Weight, InitializeChildNode
  <2>4. Within(y, size) /\ Ahead(y, covered) /\ Placed(y)
    BY <2>2, Acting DEF Sound, Session, Within, Ahead, Placed, Weight, InFlight, HasLine,
       InitializeChildNode
  <2> QED
    BY <2>1, <2>3, <2>4 DEF Sound
<1>2. ses' = [ses EXCEPT ![s] = y]
  BY Acting DEF InitializeChildNode
<1>3. /\ up /\ covered' \in Nat /\ covered <= covered' /\ covered' <= size
      /\ cursor' \in Entry /\ Tracked(cursor', size, covered') /\ Sound(y, size, covered')
  BY <1>1, Acting DEF InitializeChildNode, Entry, Tracked
<1> QED
  BY <1>2, <1>3, SessionMoves DEF InitializeChildNode

LEMMA ReceivePreserves == ASSUME FInv, NEW s \in Sess, Receive(s) PROVE FInv'
<1> DEFINE x == ses[s]
           y == [x EXCEPT !.line = x.ahead, !.ahead = NoLine, !.pc = "tell"]
<1>1. Sound(y, size, covered)
  BY Acting DEF Sound, Session, InFlight, Within, Ahead, Placed, Weight, HasLine, Receive,
     Line
<1>2. ses' = [ses EXCEPT ![s] = y]
  BY Acting DEF Receive, Line
<1> QED
  BY <1>1, <1>2, OneMoves DEF Receive

LEMMA TellPreserves == ASSUME FInv, NEW s \in Sess, Tell(s) PROVE FInv'
<1> DEFINE x == ses[s]
           y(o) == [x EXCEPT !.offset = o, !.pc = "update"]
<1>1. Sound(y(x.rd), size, covered) /\ Sound(y(0), size, covered)
  BY Acting DEF Sound, Session, InFlight, Within, Ahead, Placed, Weight, HasLine, Tell
<1>2. ses' = [ses EXCEPT ![s] = y(x.rd)] \/ ses' = [ses EXCEPT ![s] = y(0)]
  BY Acting DEF Tell
<1> QED
  BY <1>1, <1>2, OneMoves DEF Tell

LEMMA UpdatePreserves == ASSUME FInv, NEW s \in Sess, Update(s) PROVE FInv'
<1> DEFINE x == ses[s]
           y == [x EXCEPT !.pc = "publish"]
<1>1. Sound(y, size, covered)
  BY Acting DEF Sound, Session, InFlight, Within, Ahead, Placed, Weight, HasLine, Update
<1>2. ses' = [ses EXCEPT ![s] = y]
  BY Acting DEF Update
<1>3. /\ up /\ covered' \in Nat /\ covered <= covered' /\ covered' <= size
      /\ cursor' \in Entry /\ Tracked(cursor', size, covered') /\ Sound(y, size, covered')
  BY <1>1, Acting DEF Update, Entry, Tracked, Sound, Session, Within, Ahead
<1> QED
  BY <1>2, <1>3, SessionMoves DEF Update

LEMMA PublishLinePreserves == ASSUME FInv, NEW s \in Sess, PublishLine(s) PROVE FInv'
<1> DEFINE x == ses[s]
           y == [x EXCEPT !.line = NoLine, !.offset = 0, !.pc = "select"]
<1>1. covered' \in Nat /\ covered <= covered' /\ covered' <= size
  BY Acting DEF Sound, Session, InFlight, Within, Ahead, Placed, Weight, HasLine,
     PublishLine, Max2, Line
<1>2. Sound(y, size, covered')
  BY Acting DEF Sound, Session, InFlight, Within, Ahead, Placed, Weight, HasLine,
     PublishLine, Max2, Line
<1>3. ses' = [ses EXCEPT ![s] = y]
  BY Acting DEF PublishLine
<1>4. up /\ cursor' \in Entry /\ Tracked(cursor', size, covered')
  BY <1>1, Acting, TrackedGrows DEF PublishLine
<1> QED
  BY <1>1, <1>2, <1>3, <1>4, SessionMoves DEF PublishLine

LEMMA LinesClosedPreserves == ASSUME FInv, NEW s \in Sess, LinesClosed(s) PROVE FInv'
<1> DEFINE x == ses[s]
           y == [x EXCEPT !.pc = "failing"]
<1>1. Sound(y, size, covered)
  BY Acting DEF Sound, Session, InFlight, Within, Ahead, Placed, Weight, HasLine,
     LinesClosed
<1>2. Sound(Over(x), size, covered)
  BY Acting, OverIsSound
<1>3. ses' = [ses EXCEPT ![s] = y] \/ ses' = [ses EXCEPT ![s] = Over(x)]
  BY Acting DEF LinesClosed
<1> QED
  BY <1>1, <1>2, <1>3, OneMoves DEF LinesClosed

LEMMA StopTailPreserves == ASSUME FInv, NEW s \in Sess, StopTail(s) PROVE FInv'
<1> DEFINE x == ses[s]
           y == [x EXCEPT !.tl = "dead", !.location = Absent, !.ahead = NoLine, !.pc = "failing"]
<1>1. Sound(y, size, covered)
  <2>1. y \in Session
    <3>1. x \in Session /\ NoLine \in Line
      BY Acting DEF Line
    <3> QED
      BY <3>1 DEF Session
  <2>2. /\ y.pc = "failing" /\ y.tl = "dead" /\ y.ahead = NoLine
        /\ y.location = Absent /\ y.rd = x.rd /\ y.line = x.line /\ y.offset = x.offset
    BY Acting DEF Session, StopTail
  <2>3. InFlight(y)
    BY <2>2, Acting DEF Sound, InFlight, HasLine, Weight, StopTail
  <2>4. Within(y, size) /\ Ahead(y, covered) /\ Placed(y)
    BY <2>2, Acting DEF Sound, Session, Within, Ahead, Placed, Weight, InFlight, HasLine,
       StopTail
  <2> QED
    BY <2>1, <2>3, <2>4 DEF Sound
<1>2. Sound(Over(x), size, covered)
  BY Acting, OverIsSound
<1>3. ses' = [ses EXCEPT ![s] = y] \/ ses' = [ses EXCEPT ![s] = Over(x)]
  BY Acting DEF StopTail
<1> QED
  BY <1>1, <1>2, <1>3, OneMoves DEF StopTail

LEMMA TailingPreserves == ASSUME FInv, NEW s \in Sess, Tailing(s) PROVE FInv'
BY CheckCursorPreserves, StatPreserves, TailFilePreserves, InitializePreserves,
   ReceivePreserves, TellPreserves, UpdatePreserves, PublishLinePreserves,
   LinesClosedPreserves, StopTailPreserves DEF Tailing

LEMMA NextPreserves == FInv /\ [Next]_vars => FInv'
<1> SUFFICES ASSUME FInv, [Next]_vars PROVE FInv'
  OBVIOUS
<1>1. CASE UNCHANGED vars
  BY <1>1 DEF vars, FInv, TypeOK, Tracked
<1> QED
  BY <1>1, OutsidePreserves, TailPreserves, StoppingPreserves, ReadingPreserves,
     TailingPreserves DEF Next

THEOREM FInvariance == Spec => []FInv
  BY InitEstablishes, NextPreserves, PTL DEF Spec

\* Types: in particular no session's tail ever seeks to a negative position nor behind the
\* end of the file (getReadLimit and tailFile of instance.go).
THEOREM TailFileTypes == Spec => []TypeOK
<1>1. FInv => TypeOK
  BY DEF FInv
<1> QED
  BY <1>1, FInvariance, PTL

\* A crash at any moment loses at most two lines, for every file length and limit and
\* however many sessions tail the file.
THEOREM AtMostTwoLinesLost == Spec => []LossBound
<1>1. FInv => LossBound
  BY DEF FInv, Tracked, LossBound
<1> QED
  BY <1>1, FInvariance, PTL

-----------------------------------------------------------------------------
\* CursorAdvances is about the two steps that set a cursor that is there already:
\* InitializeChildNode and Update.  What keeps them from taking it back, as long as a
\* session has the file to itself, is that on its way through the goroutines the place
\* tail reads at is never behind the cursor.

Active(x) == x.pc \notin {"off", "done"}

UpTo(c, n) == c \in Offset => c <= n

\* From GetFileCachedOffset through the seek and tail's reader to currentOffset, a session
\* that is alone does not work with a position the cursor c has left behind, but for the
\* zero of a failed Tell; and once it publishes a line its offset is the cursor.
Follows(x, c) ==
  ~x.shared =>
    /\ x.pc \in {"stat", "large"} => c \notin Offset
    /\ x.location # Absent =>
         UpTo(c, IF x.location.whence = "set" THEN x.location.dist ELSE 0)
    /\ x.tl \in {"follow", "cooloff"} \/ HasLine(x) => UpTo(c, x.rd)
    /\ x.pc = "update" => x.offset <= x.rd /\ (x.offset = 0 \/ UpTo(c, x.offset))
    /\ x.pc = "publish" => c \notin Offset \/ c = x.offset

\* From Tell on currentOffset is not before the line in hand.
Recorded(x) ==
  /\ x.pc \in {"update", "publish"} /\ x.line # ErrLine => x.line <= x.offset \/ x.offset = 0
  /\ x.pc \in {"off", "check", "stat", "done"} \/ x.tl \in {"follow", "cooloff", "dead"}
       => x.location = Absent

\* Two sessions that tail at the same time both know of it.
Together ==
  \A s, r \in Sess : s # r /\ Active(ses[s]) /\ Active(ses[r]) => ses[s].shared

BInv ==
  FInv /\ Together /\ \A s \in Sess : Follows(ses[s], cursor) /\ Recorded(ses[s])

\* A session that does not tail, or does not tail alone, is bound to no cursor.
LEMMA IdleFollows ==
  ASSUME NEW x, NEW c, NEW sz, NEW cv, Sound(x, sz, cv), Recorded(x),
         ~Active(x) \/ x.shared
  PROVE  Follows(x, c)
BY DEF Follows, Sound, Recorded, Placed, Active, HasLine

LEMMA OthersFollow ==
  ASSUME BInv, NEW s \in Sess, Active(ses[s]), NEW r \in Sess, r # s, NEW c
  PROVE  Follows(ses[r], c)
<1>1. Sound(ses[r], size, covered) /\ Recorded(ses[r])
  BY DEF BInv, FInv
<1>2. ~Active(ses[r]) \/ ses[r].shared
  BY DEF BInv, Together
<1> QED
  BY <1>1, <1>2, IdleFollows

\* A step of a session that tails, with what it does to the cursor.
LEMMA ActiveMoves ==
  ASSUME BInv, FInv', NEW s \in Sess, NEW y, Active(ses[s]),
         ses' = [ses EXCEPT ![s] = y],
         Active(y) => y.shared = ses[s].shared,
         Follows(y, cursor'), Recorded(y)
  PROVE  BInv'
<1>1. ses \in [Sess -> Session]
  BY DEF BInv, FInv, TypeOK
<1>2. ses'[s] = y /\ \A r \in Sess \ {s} : ses'[r] = ses[r]
  BY <1>1
<1>3. ASSUME NEW r \in Sess PROVE Follows(ses'[r], cursor') /\ Recorded(ses'[r])
  <2>1. CASE r = s
    BY <1>2, <2>1
  <2>2. CASE r # s
    BY <1>2, <2>2, OthersFollow DEF BInv
  <2> QED
    BY <2>1, <2>2
<1>4. Together'
  <2> SUFFICES ASSUME NEW q \in Sess, NEW r \in Sess, q # r,
                      Active(ses'[q]), Active(ses'[r])
               PROVE  ses'[q].shared
    BY DEF Together
  <2>1. Active(ses[q]) /\ Active(ses[r])
    BY <1>2
  <2>2. ses[q].shared
    BY <2>1 DEF BInv, Together
  <2> QED
    BY <1>2, <2>2
<1> QED
  BY <1>3, <1>4 DEF BInv

\* What a step may assume of the session that takes it.
LEMMA Alone ==
  ASSUME BInv, NEW s \in Sess
  PROVE  /\ Sound(ses[s], size, covered) /\ ses[s] \in Session /\ ses \in [Sess -> Session]
         /\ Follows(ses[s], cursor) /\ Recorded(ses[s])
         /\ size \in Offset /\ cursor \in Entry
BY DEF BInv, FInv, TypeOK, Sound

LEMMA InitBehind == Init => BInv
<1> SUFFICES ASSUME Init PROVE BInv
  OBVIOUS
<1>1. FInv /\ \A s \in Sess : ses[s] = NoSession
  BY InitEstablishes DEF Init
<1>2. Follows(NoSession, cursor) /\ Recorded(NoSession) /\ ~Active(NoSession)
  BY DEF Follows, Recorded, Active, NoSession, HasLine
<1> QED
  BY <1>1, <1>2 DEF BInv, Together

LEMMA OutsideKeepsBInv ==
  ASSUME BInv, FInv', AppWrites \/ Start \/ Crash \/ Commit
  PROVE  BInv'
<1>1. CASE AppWrites \/ Commit
  BY <1>1 DEF AppWrites, Commit, BInv, Together
<1>2. CASE Start \/ Crash
  <2>1. \A s \in Sess : ses'[s] = NoSession
    BY <1>2 DEF Start, Crash, BInv, FInv
  <2>2. Follows(NoSession, cursor') /\ Recorded(NoSession) /\ ~Active(NoSession)
    BY DEF Follows, Recorded, Active, NoSession, HasLine
  <2> QED
    BY <2>1, <2>2 DEF BInv, Together
<1> QED
  BY <1>1, <1>2

\* A session that starts beside others makes all of them shared.
LEMMA TailKeepsBInv ==
  ASSUME BInv, FInv', NEW s \in Sess, Tail(s)
  PROVE  BInv'
<1>1. /\ ses \in [Sess -> Session] /\ Beside(s) \in SUBSET Sess
      /\ \A r \in Sess : Sound(ses[r], size, covered) /\ Follows(ses[r], cursor) /\ Recorded(ses[r])
  BY DEF BInv, FInv, TypeOK, Beside
<1>2. /\ cursor' = IF cursor = Removed THEN Absent ELSE cursor
      /\ ses' = [r \in Sess |->
                   IF r = s
                     THEN [NoSession EXCEPT !.pc = "check", !.shared = Beside(s) # {}]
                     ELSE [ses[r] EXCEPT !.shared = @ \/ r \in Beside(s)]]
  BY DEF Tail
<1>3. ses'[s] = [NoSession EXCEPT !.pc = "check", !.shared = Beside(s) # {}]
  BY <1>2
<1>4. Follows(ses'[s], cursor') /\ Recorded(ses'[s])
  BY <1>3 DEF NoSession, Follows, Recorded, HasLine
<1>5. ASSUME NEW r \in Sess, r # s
      PROVE  /\ ses'[r].pc = ses[r].pc /\ ses'[r].location = ses[r].location
             /\ ses'[r].tl = ses[r].tl /\ ses'[r].rd = ses[r].rd
             /\ ses'[r].line = ses[r].line /\ ses'[r].offset = ses[r].offset
             /\ ses'[r].shared = (ses[r].shared \/ r \in Beside(s))
  BY <1>1, <1>2, <1>5, ZenonT(60) DEF Session
<1>6. ASSUME NEW r \in Sess, r # s
      PROVE  Follows(ses'[r], cursor') /\ Recorded(ses'[r])
  <2>1. Recorded(ses'[r])
    BY <1>1, <1>5, <1>6 DEF Recorded
  <2>2. cursor' = cursor \/ cursor' \notin Offset
    BY <1>2
  <2>3. Follows(ses'[r], cursor')
    BY <1>1, <1>5, <1>6, <2>2, ZenonT(60) DEF Follows, HasLine, UpTo
  <2> QED
    BY <2>1, <2>3
<1>7. Together'
  <2> SUFFICES ASSUME NEW q \in Sess, NEW r \in Sess, q # r,
                      Active(ses'[q]), Active(ses'[r])
               PROVE  ses'[q].shared
    BY DEF Together
  <2>1. CASE q = s
    <3>1. r \in Beside(s)
      BY <1>5, <2>1 DEF Active, Beside
    <3> QED
      BY <1>3, <2>1, <3>1 DEF NoSession
  <2>2. CASE q # s
    <3>1. CASE r = s
      <4>1. q \in Beside(s)
        BY <1>5, <2>2, <3>1 DEF Active, Beside
      <4> QED
        BY <1>5, <2>2, <4>1
    <3>2. CASE r # s
      <4>1. Active(ses[q]) /\ Active(ses[r])
        BY <1>5, <2>2, <3>2 DEF Active
      <4>2. ses[q].shared
        BY <4>1 DEF BInv, Together
      <4> QED
        BY <1>5, <2>2, <4>2
    <3> QED
      BY <3>1, <3>2
  <2> QED
    BY <2>1, <2>2
<1> QED
  BY <1>4, <1>6, <1>7 DEF BInv

\* Closing stopCh and Remove: the cursor stays or goes away for everybody.
LEMMA StopKeepsBInv ==
  ASSUME BInv, FInv', NEW s \in Sess, CloseStop(s) \/ Remove(s)
  PROVE  BInv'
<1>1. PICK v : ses' = [ses EXCEPT ![s].stop = v]
  BY DEF CloseStop, Remove
<1>2. cursor' = cursor \/ cursor' \notin Offset
  BY DEF CloseStop, Remove
<1>3. ASSUME NEW r \in Sess
      PROVE  /\ ses'[r].pc = ses[r].pc /\ ses'[r].location = ses[r].location
             /\ ses'[r].tl = ses[r].tl /\ ses'[r].rd = ses[r].rd
             /\ ses'[r].line = ses[r].line /\ ses'[r].offset = ses[r].offset
             /\ ses'[r].shared = ses[r].shared
  BY <1>1, Alone DEF Session
<1>4. ASSUME NEW r \in Sess PROVE Follows(ses'[r], cursor') /\ Recorded(ses'[r])
  <2>1. Recorded(ses'[r])
    BY <1>3, Alone DEF Recorded
  <2>2. Follows(ses'[r], cursor')
    BY <1>2, <1>3, Alone DEF Follows, HasLine, UpTo
  <2> QED
    BY <2>1, <2>2
<1>5. Together'
  BY <1>3 DEF BInv, Together, Active
<1> QED
  BY <1>4, <1>5 DEF BInv

LEMMA LoopReadyKeepsBInv ==
  ASSUME BInv, FInv', NEW s \in Sess, LoopReady(s)
  PROVE  BInv'
<1> DEFINE x == ses[s]
           y == [x EXCEPT !.loop = "range"]
<1>1. Follows(y, cursor') /\ Recorded(y) /\ (Active(y) => y.shared = x.shared)
  BY Alone DEF Follows, Recorded, Active, UpTo, HasLine, Sound, Session, InFlight, Placed,
     LoopReady
<1>2. Active(x) /\ (ses' = [ses EXCEPT ![s] = y])
  BY Alone DEF LoopReady, Active, Sending, Sound, Placed
<1> QED
  BY <1>1, <1>2, ActiveMoves

LEMMA LoopStoppedKeepsBInv ==
  ASSUME BInv, FInv', NEW s \in Sess, LoopStopped(s)
  PROVE  BInv'
<1> DEFINE x == ses[s]
           y == [x EXCEPT !.loop = "gone"]
<1>1. Follows(y, cursor') /\ Recorded(y) /\ (Active(y) => y.shared = x.shared)
  BY Alone DEF Follows, Recorded, Active, UpTo, HasLine, Sound, Session, InFlight, Placed,
     LoopStopped
<1>2. Active(x) /\ (ses' = [ses EXCEPT ![s] = y])
  BY Alone DEF LoopStopped, Active, Sending, Sound, Placed
<1> QED
  BY <1>1, <1>2, ActiveMoves

LEMMA LoopPublishesKeepsBInv ==
  ASSUME BInv, FInv', NEW s \in Sess, LoopPublishes(s)
  PROVE  BInv'
<1> DEFINE x == ses[s]
           y == [x EXCEPT !.pc = "open"]
<1>1. CASE x.pc = "large"
  <2>1. Follows(y, cursor') /\ Recorded(y) /\ (Active(y) => y.shared = x.shared)
    BY <1>1, Alone DEF Follows, Recorded, Active, UpTo, HasLine, Sound, Session, InFlight,
       Placed, LoopPublishes
  <2>2. Active(x) /\ ses' = [ses EXCEPT ![s] = y]
    BY <1>1, Alone DEF LoopPublishes, Active
  <2> QED
    BY <2>1, <2>2, ActiveMoves
<1>2. CASE x.pc = "failing"
  <2>1. Follows(Over(x), cursor') /\ Recorded(Over(x)) /\ ~Active(Over(x))
    BY DEF Follows, Recorded, Active, UpTo, HasLine, Over, NoSession
  <2>2. Active(x) /\ ses' = [ses EXCEPT ![s] = Over(x)]
    BY <1>2, Alone DEF LoopPublishes, Active
  <2> QED
    BY <2>1, <2>2, ActiveMoves
<1> QED
  BY <1>1, <1>2 DEF LoopPublishes

LEMMA TailSeeksKeepsBInv ==
  ASSUME BInv, FInv', NEW s \in Sess, TailSeeks(s)
  PROVE  BInv'
<1> DEFINE x == ses[s]
           y == [x EXCEPT !.rd = SeekTo(x.location), !.tl = "follow", !.location = Absent]
<1>1. Follows(y, cursor') /\ Recorded(y) /\ (Active(y) => y.shared = x.shared)
  BY Alone DEF Follows, Recorded, Active, UpTo, HasLine, Sound, Session, InFlight, Placed,
     TailSeeks, SeekTo, SeekInfo, Within
<1>2. Active(x) /\ (ses' = [ses EXCEPT ![s] = y])
  BY Alone DEF TailSeeks, Active, Sending, Sound, Placed
<1> QED
  BY <1>1, <1>2, ActiveMoves

LEMMA TailReadsKeepsBInv ==
  ASSUME BInv, FInv', NEW s \in Sess, TailReads(s)
  PROVE  BInv'
<1> DEFINE x == ses[s]
           y == [x EXCEPT !.rd = x.rd + 1, !.ahead = x.rd + 1]
<1>1. Follows(y, cursor') /\ Recorded(y) /\ (Active(y) => y.shared = x.shared)
  BY Alone DEF Follows, Recorded, Active, UpTo, HasLine, Sound, Session, InFlight, Placed,
     TailReads
<1>2. Active(x) /\ (ses' = [ses EXCEPT ![s] = y])
  BY Alone DEF TailReads, Active, Sending, Sound, Placed
<1> QED
  BY <1>1, <1>2, ActiveMoves

LEMMA TailCoolsOffKeepsBInv ==
  ASSUME BInv, FInv', NEW s \in Sess, TailCoolsOff(s)
  PROVE  BInv'
<1> DEFINE x == ses[s]
           y == [x EXCEPT !.ahead = ErrLine, !.tl = "cooloff"]
<1>1. Follows(y, cursor') /\ Recorded(y) /\ (Active(y) => y.shared = x.shared)
  BY Alone DEF Follows, Recorded, Active, UpTo, HasLine, Sound, Session, InFlight, Placed,
     TailCoolsOff
<1>2. Active(x) /\ (ses' = [ses EXCEPT ![s] = y])
  BY Alone DEF TailCoolsOff, Active, Sending, Sound, Placed
<1> QED
  BY <1>1, <1>2, ActiveMoves

LEMMA TailResumesKeepsBInv ==
  ASSUME BInv, FInv', NEW s \in Sess, TailResumes(s)
  PROVE  BInv'
<1> DEFINE x == ses[s]
           y == [x EXCEPT !.rd = size, !.tl = "follow"]
<1>1. Follows(y, cursor') /\ Recorded(y) /\ (Active(y) => y.shared = x.shared)
  BY Alone DEF Follows, Recorded, Active, UpTo, HasLine, Sound, Session, InFlight, Placed,
     TailResumes, Within
<1>2. Active(x) /\ (ses' = [ses EXCEPT ![s] = y])
  BY Alone DEF TailResumes, Active, Sending, Sound, Placed
<1> QED
  BY <1>1, <1>2, ActiveMoves

LEMMA TailDiesKeepsBInv ==
  ASSUME BInv, FInv', NEW s \in Sess, TailDies(s)
  PROVE  BInv'
<1> DEFINE x == ses[s]
           y == [x EXCEPT !.tl = "dead", !.location = Absent]
<1>1. Follows(y, cursor') /\ Recorded(y) /\ (Active(y) => y.shared = x.shared)
  BY Alone DEF Follows, Recorded, Active, UpTo, HasLine, Sound, Session, InFlight, Placed,
     TailDies
<1>2. Active(x) /\ (ses' = [ses EXCEPT ![s] = y])
  BY Alone DEF TailDies, Active, Sending, Sound, Placed
<1> QED
  BY <1>1, <1>2, ActiveMoves

LEMMA CheckCursorKeepsBInv ==
  ASSUME BInv, FInv', NEW s \in Sess, CheckCursor(s)
  PROVE  BInv'
<1> DEFINE x == ses[s]
           y == [x EXCEPT !.location = [whence |-> "set", dist |-> cursor], !.pc = "open"]
           z == [x EXCEPT !.pc = "stat"]
<1>1. CASE cursor \in Offset
  <2>1. Follows(y, cursor') /\ Recorded(y) /\ (Active(y) => y.shared = x.shared)
    BY <1>1, Alone DEF Follows, Recorded, Active, UpTo, HasLine, Sound, Session, InFlight,
       Placed, CheckCursor
  <2>2. Active(x) /\ ses' = [ses EXCEPT ![s] = y]
    BY <1>1, Alone DEF CheckCursor, Active
  <2> QED
    BY <2>1, <2>2, ActiveMoves
<1>2. CASE cursor \notin Offset
  <2>1. Follows(z, cursor') /\ Recorded(z) /\ (Active(z) => z.shared = x.shared)
    BY <1>2, Alone DEF Follows, Recorded, Active, UpTo, HasLine, Sound, Session, InFlight,
       Placed, CheckCursor
  <2>2. Active(x) /\ ses' = [ses EXCEPT ![s] = z]
    BY <1>2, Alone DEF CheckCursor, Active
  <2> QED
    BY <2>1, <2>2, ActiveMoves
<1> QED
  BY <1>1, <1>2

LEMMA StatKeepsBInv ==
  ASSUME BInv, FInv', NEW s \in Sess, Stat(s)
  PROVE  BInv'
<1> DEFINE x == ses[s]
           y == [x EXCEPT !.location = [whence |-> "end", dist |-> getReadLimit],
                          !.should = TRUE,
                          !.pc = IF size > ReadLimit THEN "large" ELSE "open"]
           z == [x EXCEPT !.pc = "failing"]
<1>1. Follows(y, cursor') /\ Recorded(y) /\ (Active(y) => y.shared = x.shared)
  BY Alone DEF Follows, Recorded, Active, UpTo, HasLine, Sound, Session, InFlight, Placed,
     Stat
<1>2. Follows(z, cursor') /\ Recorded(z) /\ (Active(z) => z.shared = x.shared)
  BY Alone DEF Follows, Recorded, Active, UpTo, HasLine, Sound, Session, InFlight, Placed,
     Stat
<1>3. Active(x) /\ (ses' = [ses EXCEPT ![s] = y] \/ ses' = [ses EXCEPT ![s] = z])
  BY Alone DEF Stat, Active, Sending, Sound, Placed
<1> QED
  BY <1>1, <1>2, <1>3, ActiveMoves

LEMMA TailFileKeepsBInv ==
  ASSUME BInv, FInv', NEW s \in Sess, TailFile(s)
  PROVE  BInv'
<1> DEFINE x == ses[s]
           y == [x EXCEPT !.tl = "seek", !.pc = "init"]
           z == [x EXCEPT !.location = Absent, !.pc = "initfail"]
<1>1. Follows(y, cursor') /\ Recorded(y) /\ (Active(y) => y.shared = x.shared)
  BY Alone DEF Follows, Recorded, Active, UpTo, HasLine, Sound, Session, InFlight, Placed,
     TailFile
<1>2. Follows(z, cursor') /\ Recorded(z) /\ (Active(z) => z.shared = x.shared)
  BY Alone DEF Follows, Recorded, Active, UpTo, HasLine, Sound, Session, InFlight, Placed,
     TailFile
<1>3. Active(x) /\ (ses' = [ses EXCEPT ![s] = y] \/ ses' = [ses EXCEPT ![s] = z])
  BY Alone DEF TailFile, Active, Sending, Sound, Placed
<1> QED
  BY <1>1, <1>2, <1>3, ActiveMoves

LEMMA InitializeChildNodeKeepsBInv ==
  ASSUME BInv, FInv', NEW s \in Sess, InitializeChildNode(s)
  PROVE  BInv'
<1> DEFINE x == ses[s]
           y == [x EXCEPT !.pc = IF x.pc = "init" THEN "select" ELSE "failing",
                          !.should = FALSE]
<1>1. Follows(y, cursor') /\ Recorded(y) /\ (Active(y) => y.shared = x.shared)
  BY Alone DEF Follows, Recorded, Active, UpTo, HasLine, Sound, Session, InFlight, Placed,
     InitializeChildNode, SeekInfo
<1>2. Active(x) /\ (ses' = [ses EXCEPT ![s] = y])
  BY Alone DEF InitializeChildNode, Active, Sending, Sound, Placed
<1> QED
  BY <1>1, <1>2, ActiveMoves

LEMMA ReceiveKeepsBInv ==
  ASSUME BInv, FInv', NEW s \in Sess, Receive(s)
  PROVE  BInv'
<1> DEFINE x == ses[s]
           y == [x EXCEPT !.line = x.ahead, !.ahead = NoLine, !.pc = "tell"]
<1>1. Follows(y, cursor') /\ Recorded(y) /\ (Active(y) => y.shared = x.shared)
  BY Alone DEF Follows, Recorded, Active, UpTo, HasLine, Sound, Session, InFlight, Placed,
     Receive
<1>2. Active(x) /\ (ses' = [ses EXCEPT ![s] = y])
  BY Alone DEF Receive, Active, Sending, Sound, Placed
<1> QED
  BY <1>1, <1>2, ActiveMoves

LEMMA TellKeepsBInv ==
  ASSUME BInv, FInv', NEW s \in Sess, Tell(s)
  PROVE  BInv'
<1> DEFINE x == ses[s]
           y == [x EXCEPT !.offset = x.rd, !.pc = "update"]
           z == [x EXCEPT !.offset = 0, !.pc = "update"]
<1>1. Follows(y, cursor') /\ Recorded(y) /\ (Active(y) => y.shared = x.shared)
  BY Alone DEF Follows, Recorded, Active, UpTo, HasLine, Sound, Session, InFlight, Placed,
     Tell, Weight, Line
<1>2. Follows(z, cursor') /\ Recorded(z) /\ (Active(z) => z.shared = x.shared)
  BY Alone DEF Follows, Recorded, Active, UpTo, HasLine, Sound, Session, InFlight, Placed,
     Tell, Weight, Line
<1>3. Active(x) /\ (ses' = [ses EXCEPT ![s] = y] \/ ses' = [ses EXCEPT ![s] = z])
  BY Alone DEF Tell, Active, Sending, Sound, Placed
<1> QED
  BY <1>1, <1>2, <1>3, ActiveMoves

LEMMA UpdateKeepsBInv ==
  ASSUME BInv, FInv', NEW s \in Sess, Update(s)
  PROVE  BInv'
<1> DEFINE x == ses[s]
           y == [x EXCEPT !.pc = "publish"]
<1>1. Follows(y, cursor') /\ Recorded(y) /\ (Active(y) => y.shared = x.shared)
  BY Alone DEF Follows, Recorded, Active, UpTo, HasLine, Sound, Session, InFlight, Placed,
     Update
<1>2. Active(x) /\ (ses' = [ses EXCEPT ![s] = y])
  BY Alone DEF Update, Active, Sending, Sound, Placed
<1> QED
  BY <1>1, <1>2, ActiveMoves

LEMMA PublishLineKeepsBInv ==
  ASSUME BInv, FInv', NEW s \in Sess, PublishLine(s)
  PROVE  BInv'
<1> DEFINE x == ses[s]
           y == [x EXCEPT !.line = NoLine, !.offset = 0, !.pc = "select"]
<1>1. Follows(y, cursor') /\ Recorded(y) /\ (Active(y) => y.shared = x.shared)
  BY Alone DEF Follows, Recorded, Active, UpTo, HasLine, Sound, Session, InFlight, Placed,
     PublishLine
<1>2. Active(x) /\ (ses' = [ses EXCEPT ![s] = y])
  BY Alone DEF PublishLine, Active, Sending, Sound, Placed
<1> QED
  BY <1>1, <1>2, ActiveMoves

LEMMA LinesClosedKeepsBInv ==
  ASSUME BInv, FInv', NEW s \in Sess, LinesClosed(s)
  PROVE  BInv'
<1> DEFINE x == ses[s]
           y == [x EXCEPT !.pc = "failing"]
           z == Over(x)
<1>1. Follows(y, cursor') /\ Recorded(y) /\ (Active(y) => y.shared = x.shared)
  BY Alone DEF Follows, Recorded, Active, UpTo, HasLine, Sound, Session, InFlight, Placed,
     LinesClosed
<1>2. Follows(z, cursor') /\ Recorded(z) /\ (Active(z) => z.shared = x.shared)
  BY Alone DEF Follows, Recorded, Active, UpTo, HasLine, Sound, Session, InFlight, Placed,
     LinesClosed, Over, NoSession
<1>3. Active(x) /\ (ses' = [ses EXCEPT ![s] = y] \/ ses' = [ses EXCEPT ![s] = z])
  BY Alone DEF LinesClosed, Active, Sending, Sound, Placed
<1> QED
  BY <1>1, <1>2, <1>3, ActiveMoves

LEMMA StopTailKeepsBInv ==
  ASSUME BInv, FInv', NEW s \in Sess, StopTail(s)
  PROVE  BInv'
<1> DEFINE x == ses[s]
           y == [x EXCEPT !.tl = "dead", !.location = Absent, !.ahead = NoLine, !.pc = "failing"]
           z == Over(x)
<1>1. Follows(y, cursor') /\ Recorded(y) /\ (Active(y) => y.shared = x.shared)
  BY Alone DEF Follows, Recorded, Active, UpTo, HasLine, Sound, Session, InFlight, Placed,
     StopTail, Over, NoSession
<1>2. Follows(z, cursor') /\ Recorded(z) /\ (Active(z) => z.shared = x.shared)
  BY Alone DEF Follows, Recorded, Active, UpTo, HasLine, Sound, Session, InFlight, Placed,
     StopTail, Over, NoSession
<1>3. Active(x) /\ (ses' = [ses EXCEPT ![s] = y] \/ ses' = [ses EXCEPT ![s] = z])
  BY Alone DEF StopTail, Active, Sending, Sound, Placed
<1> QED
  BY <1>1, <1>2, <1>3, ActiveMoves

LEMMA NextKeepsBInv == BInv /\ [Next]_vars => BInv'
<1> SUFFICES ASSUME BInv, [Next]_vars PROVE BInv'
  OBVIOUS
<1>1. FInv'
  BY NextPreserves DEF BInv
<1>2. CASE UNCHANGED vars
  BY <1>1, <1>2 DEF BInv, Together, vars
<1>3. CASE \E s \in Sess : Stopping(s) \/ Reading(s)
  BY <1>1, <1>3, StopKeepsBInv, LoopReadyKeepsBInv, LoopStoppedKeepsBInv,
     LoopPublishesKeepsBInv, TailSeeksKeepsBInv, TailReadsKeepsBInv, TailCoolsOffKeepsBInv,
     TailResumesKeepsBInv, TailDiesKeepsBInv DEF Stopping, Reading
<1>4. CASE \E s \in Sess : Tailing(s)
  BY <1>1, <1>4, CheckCursorKeepsBInv, StatKeepsBInv, TailFileKeepsBInv,
     InitializeChildNodeKeepsBInv, ReceiveKeepsBInv, TellKeepsBInv, UpdateKeepsBInv,
     PublishLineKeepsBInv, LinesClosedKeepsBInv, StopTailKeepsBInv DEF Tailing
<1> QED
  BY <1>1, <1>2, <1>3, <1>4, OutsideKeepsBInv, TailKeepsBInv DEF Next

LEMMA BInvariance == Spec => []BInv
  BY InitBehind, NextKeepsBInv, PTL DEF Spec

\* A step that finds a cursor and leaves one takes it forward, or is the Update of a
\* session whose Tell failed or that is not alone.
LEMMA StepAdvances ==
  ASSUME BInv, [Next]_vars, cursor \in Offset, cursor' \in Offset, cursor' < cursor
  PROVE  \E s \in Sess : /\ ses[s].pc = "update" /\ ses'[s].pc = "publish"
                         /\ cursor' = ses[s].offset
                         /\ ses[s].offset = 0 \/ ses[s].shared
<1>1. cursor' # cursor
  OBVIOUS
<1>2. ~(Start \/ Crash)
  BY DEF Start, Crash, BInv, FInv
<1>3. ~(AppWrites \/ Commit) /\ ~UNCHANGED vars
  BY <1>1 DEF AppWrites, Commit, vars
<1>4. PICK s \in Sess : Tail(s) \/ Stopping(s) \/ Reading(s) \/ Tailing(s)
  BY <1>2, <1>3 DEF Next
<1>5. ~Tail(s) /\ ~Stopping(s) /\ ~Reading(s)
  BY <1>1 DEF Tail, Stopping, CloseStop, Remove, LoopReady, LoopStopped, LoopPublishes,
     Reading, TailSeeks, TailReads, TailCoolsOff, TailResumes, TailDies
<1>6. ~InitializeChildNode(s)
  BY <1>1 DEF InitializeChildNode
<1>7. Update(s)
  BY <1>1, <1>4, <1>5, <1>6 DEF Tailing, CheckCursor, Stat, TailFile, Receive, Tell,
     PublishLine, LinesClosed, StopTail
<1>8. ses[s].pc = "update" /\ ses'[s].pc = "publish" /\ cursor' = ses[s].offset
  BY <1>7, Alone DEF Update, Session
<1>9. ses[s].offset = 0 \/ ses[s].shared
  BY <1>8, Alone DEF Follows, UpTo
<1> QED
  BY <1>8, <1>9

\* While apptail runs no cursor is taken back, whatever the order in which sessions start
\* and stop, tail seeks, cools off or dies and the cursor is initialised, but by the Update
\* of a session whose Tell failed, or of one that tails the file beside another.
THEOREM CursorNeverTakenBack == Spec => CursorAdvances
<1>1. BInv /\ [Next]_vars =>
        [(cursor \in Offset /\ cursor' \in Offset /\ cursor' < cursor)
           => \E s \in Sess : /\ ses[s].pc = "update" /\ ses'[s].pc = "publish"
                              /\ cursor' = ses[s].offset
                              /\ ses[s].offset = 0 \/ ses[s].shared]_vars
  BY StepAdvances
<1> QED
  BY <1>1, BInvariance, PTL DEF Spec, CursorAdvances

\* No line is published before the cursor has passed it, unless Tell failed for it or the
\* session is not alone: whatever is committed after a line has been published, a restart
\* starts behind that line.
THEOREM PublishedLinesAreRecorded == Spec => []PublishedNotReplayed
<1>1. ASSUME BInv PROVE PublishedNotReplayed
  <2> SUFFICES ASSUME NEW s \in Sess, ses[s].pc = "publish", ses[s].line # ErrLine,
                      cursor \in Offset, ~ses[s].shared
               PROVE  ses[s].line <= cursor \/ ses[s].offset = 0
    BY DEF PublishedNotReplayed
  <2> QED
    BY <1>1, Alone DEF Follows, Recorded
<1> QED
  BY <1>1, BInvariance, PTL
=============================================================================
