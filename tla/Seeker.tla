-------------------------------- MODULE Seeker --------------------------------
(******************************************************************************)
(* util/seeker.go: ReadSeekCloseWrapper makes a docker log stream look like   *)
(* a file.  Its goroutine Drain copies the stream into a buffer; tail's       *)
(* goroutine calls Seek and Read.  Read takes the lock of the condition       *)
(* variable, Drain takes it only to Broadcast, and neither Drain's Write nor  *)
(* Seek takes it for the buffer: bytes.Buffer is not made for that.  A Write  *)
(* computes the length, moves the unread bytes to the front, sets the read    *)
(* offset to 0, makes room, which holds old bytes of the slice, and copies;   *)
(* a Read, Next or Reset in between may be undone, may skip bytes or read     *)
(* them again, may leave the offset behind the end, or find a slice that is   *)
(* too short and panic.  After such an overlap the buffer is spoilt: it holds *)
(* any number of bytes of which nothing is known (Junk), up to as many as     *)
(* were ever written to it.                                                   *)
(*                                                                            *)
(* Bytes are numbered from 1 in the order docker sends them.                  *)
(******************************************************************************)
EXTENDS Naturals, Sequences

CONSTANTS MaxBytes,  \* bound: docker sends at most this many bytes
          ChunkSize, \* most bytes one read of Drain returns
          ReadSize,  \* len(p) of tail's reads
          Junk       \* any byte: one before Write has copied it, or in a spoilt buffer

ASSUME SeekerBounds == MaxBytes \in Nat /\ ChunkSize \in Nat /\ ReadSize \in Nat \ {0}
ASSUME JunkIsNoByte == Junk \notin Nat

VARIABLES
  written,  \* bytes docker has sent
  stream,   \* "open", "ended" by docker, or "closed" by Close
  src,      \* bytes Drain has read
  dr,       \* where Drain is
  chunk,    \* what its last read returned
  err,      \* that read returned an error as well
  buf,      \* the unread part of r.buffer
  spoilt,   \* a call has overlapped with a Write since the buffer was last emptied
  rd,       \* where tail's goroutine is in Read
  p,        \* what its last Read returned, as far as tail has not used it
  crashed,  \* a panic has ended the process
  seen,     \* history: the bytes of the stream that Read has returned
  floor     \* history: how much of the stream the last Seek skipped

drainVars == <<src, dr, chunk, err>>
readVars  == <<rd, p, seen>>
seekerVars == <<written, stream, drainVars, buf, spoilt, readVars, crashed, floor>>

Bytes == 1..MaxBytes
\* Read holds the lock from Lock to Wait, and from the end of Wait to Unlock.
Locked == rd \in {"check", "sleep", "take"}
Writing == dr \in {"grow", "copy"}

SeekerTypeOK ==
  /\ written \in 0..MaxBytes
  /\ stream \in {"open", "ended", "closed"}
  /\ src \in 0..written
  /\ dr \in {"none", "read", "grow", "copy", "check", "broadcast", "done"}
  /\ chunk \in Seq(Bytes)
  /\ err \in BOOLEAN
  /\ buf \in Seq(Bytes \cup {Junk})
  /\ spoilt \in BOOLEAN
  /\ rd \in {"out", "lock", "check", "sleep", "wait", "take"}
  /\ p \in Seq(Bytes \cup {Junk})
  /\ crashed \in BOOLEAN
  /\ seen \subseteq Bytes
  /\ floor \in 0..MaxBytes

SeekerInit ==
  /\ written = 0
  /\ stream = "open"
  /\ src = 0
  /\ dr = "none"
  /\ chunk = <<>>
  /\ err = FALSE
  /\ buf = <<>>
  /\ spoilt = FALSE
  /\ rd = "out"
  /\ p = <<>>
  /\ crashed = FALSE
  /\ seen = {}
  /\ floor = 0

Least(m, n) == IF m < n THEN m ELSE n
\* n bytes of which nothing is known.
Junks(n) == [i \in 1..n |-> Junk]
\* The last n members of s.
LastOf(s, n) == SubSeq(s, Len(s) - n + 1, Len(s))

-----------------------------------------------------------------------------
\* docker.

StreamWrites ==
  /\ stream = "open"
  /\ written < MaxBytes
  /\ written' = written + 1
  /\ UNCHANGED <<stream, drainVars, buf, spoilt, readVars, crashed, floor>>

StreamEnds ==
  /\ stream = "open"
  /\ stream' = "ended"
  /\ UNCHANGED <<written, drainVars, buf, spoilt, readVars, crashed, floor>>

-----------------------------------------------------------------------------
\* Drain.

\* Mutant: Write gets the whole of buf instead of buf[:count].
DrainReadWholeBuf ==
  /\ dr = "read"
  /\ stream # "closed"
  /\ \E n \in 1..Least(ChunkSize, written - src) :
       /\ chunk' = [i \in 1..ChunkSize |-> src + i]
       /\ src' = src + n
  /\ err' \in {FALSE} \cup {stream = "ended" /\ src' = written}
  /\ dr' = "grow"
  /\ UNCHANGED <<written, stream, buf, spoilt, readVars, crashed, floor>>

\* r.reader.Read: some bytes, and with the last ones possibly EOF already.
DrainRead ==
  /\ dr = "read"
  /\ stream # "closed"
  /\ \E n \in 1..Least(ChunkSize, written - src) :
       /\ chunk' = [i \in 1..n |-> src + i]
       /\ src' = src + n
  /\ err' \in {FALSE} \cup {stream = "ended" /\ src' = written}
  /\ dr' = "grow"
  /\ UNCHANGED <<written, stream, buf, spoilt, readVars, crashed, floor>>

\* Mutant: only EOF ends the loop, not the error of a closed stream.
DrainEofOnly ==
  /\ dr = "read"
  /\ stream = "ended" /\ src = written
  /\ dr' = "done"
  /\ err' = TRUE
  /\ chunk' = <<>>
  /\ UNCHANGED <<written, stream, src, buf, spoilt, readVars, crashed, floor>>

\* No bytes and an error: the loop ends.
DrainEnds ==
  /\ dr = "read"
  /\ stream = "closed" \/ (stream = "ended" /\ src = written)
  /\ dr' = "done"
  /\ err' = TRUE
  /\ chunk' = <<>>
  /\ UNCHANGED <<written, stream, src, buf, spoilt, readVars, crashed, floor>>

\* r.buffer.Write makes room first, less than it should where the offset is behind the
\* end of a spoilt buffer ...
WriteGrow ==
  /\ dr = "grow"
  /\ \/ ~spoilt /\ buf' = buf \o Junks(Len(chunk))
     \/ spoilt /\ \E k \in 0..Least(src, Len(buf) + Len(chunk)) : buf' = Junks(k)
  /\ dr' = "copy"
  /\ UNCHANGED <<written, stream, src, chunk, err, spoilt, readVars, crashed, floor>>

\* ... and copies then, to where the room was.  An error ends the loop, without a
\* Broadcast.
WriteCopy ==
  /\ dr = "copy"
  /\ \/ /\ ~spoilt
        /\ LET left == Least(Len(buf), Len(chunk))
           IN  buf' = SubSeq(buf, 1, Len(buf) - left) \o LastOf(chunk, left)
     \/ spoilt /\ buf' = buf
  /\ dr' = IF err THEN "done" ELSE "check"
  /\ chunk' = IF err THEN chunk ELSE <<>>
  /\ UNCHANGED <<written, stream, src, err, spoilt, readVars, crashed, floor>>

WritePanics ==
  /\ Writing
  /\ spoilt
  /\ crashed' = TRUE
  /\ UNCHANGED <<written, stream, drainVars, buf, spoilt, readVars, floor>>

DrainCheck ==
  /\ dr = "check"
  /\ dr' = IF buf # <<>> THEN "broadcast" ELSE "read"
  /\ UNCHANGED <<written, stream, src, chunk, err, buf, spoilt, readVars, crashed, floor>>

\* Mutant: Broadcast without the lock.
BroadcastUnlocked ==
  /\ dr = "broadcast"
  /\ rd' = IF rd = "wait" THEN "lock" ELSE rd
  /\ dr' = "read"
  /\ UNCHANGED <<written, stream, src, chunk, err, buf, spoilt, p, seen, crashed, floor>>

\* Lock, Broadcast, Unlock.
Broadcast ==
  /\ dr = "broadcast"
  /\ ~Locked
  /\ rd' = IF rd = "wait" THEN "lock" ELSE rd
  /\ dr' = "read"
  /\ UNCHANGED <<written, stream, src, chunk, err, buf, spoilt, p, seen, crashed, floor>>

DrainStep ==
  DrainRead \/ DrainEnds \/ WriteGrow \/ WriteCopy \/ WritePanics \/ DrainCheck \/ Broadcast

-----------------------------------------------------------------------------
\* Read, called and awaited by tail's goroutine.

ReadCalled ==
  /\ rd = "out"
  /\ p = <<>>
  /\ rd' = "lock"
  /\ UNCHANGED <<written, stream, drainVars, buf, spoilt, p, seen, crashed, floor>>

ReadLocks ==
  /\ rd = "lock"
  /\ rd' = "check"
  /\ UNCHANGED <<written, stream, drainVars, buf, spoilt, p, seen, crashed, floor>>

ReadChecks ==
  /\ rd = "check"
  /\ rd' = IF Len(buf) < 1 THEN "sleep" ELSE "take"
  /\ UNCHANGED <<written, stream, drainVars, buf, spoilt, p, seen, crashed, floor>>

\* Wait lets go of the lock and sleeps in one step.
ReadWaits ==
  /\ rd = "sleep"
  /\ rd' = "wait"
  /\ UNCHANGED <<written, stream, drainVars, buf, spoilt, p, seen, crashed, floor>>

Real(s) == {s[i] : i \in DOMAIN s} \ {Junk}

\* r.buffer.Read, and Unlock.  Where a Write goes on at the same time it may return, and
\* leave, anything; nothing, with io.EOF, after which tail reads again.
ReadTakes ==
  /\ rd = "take"
  /\ \/ /\ ~Writing
        /\ LET n == Least(ReadSize, Len(buf))
           IN  p' = SubSeq(buf, 1, n) /\ buf' = SubSeq(buf, n + 1, Len(buf))
     \/ /\ Writing
        /\ \E n \in 0..Least(ReadSize, src) : p' = Junks(n)
        /\ \E k \in 0..src : buf' = Junks(k)
  /\ seen' = seen \cup Real(p')
  /\ spoilt' = (spoilt \/ Writing)
  /\ rd' = "out"
  /\ UNCHANGED <<written, stream, drainVars, crashed, floor>>

ReadStep == ReadLocks \/ ReadChecks \/ ReadWaits \/ ReadTakes

-----------------------------------------------------------------------------
\* Seek(-dist, SEEK_END): Reset for 0, else Next for all but the last dist bytes.
\* Other seeks return an error and do nothing.

\* How much of the stream a Seek skips that no Write disturbs: all but the last dist
\* bytes of what Drain has written.
Skipped(dist) ==
  IF Writing \/ spoilt' THEN floor
  ELSE IF src - Len(chunk) > dist THEN src - Len(chunk) - dist ELSE 0

\* Mutant: Next stops one byte short.
SeekShort(dist) ==
  /\ rd = "out" /\ p = <<>>
  /\ \/ dist > 0 /\ buf' = LastOf(buf, Least(dist + 1, Len(buf)))
     \/ dist = 0 /\ buf' = <<>>
  /\ spoilt' = (Writing \/ (spoilt /\ dist > 0))
  /\ floor' = Skipped(dist)
  /\ UNCHANGED <<written, stream, drainVars, readVars, crashed>>

\* A Seek that overlaps with a Write may do anything to the buffer; a Reset that does not
\* makes it good again.
Seek(dist) ==
  /\ rd = "out" /\ p = <<>>
  /\ \/ ~Writing /\ dist > 0 /\ buf' = LastOf(buf, Least(dist, Len(buf)))
     \/ ~Writing /\ dist = 0 /\ buf' = <<>>
     \/ Writing /\ \E k \in 0..src : buf' = Junks(k)
  /\ spoilt' = (Writing \/ (spoilt /\ dist > 0))
  /\ floor' = Skipped(dist)
  /\ UNCHANGED <<written, stream, drainVars, readVars, crashed>>

Close ==
  /\ stream' = "closed"
  /\ UNCHANGED <<written, drainVars, buf, spoilt, readVars, crashed, floor>>

-----------------------------------------------------------------------------
\* Properties.

\* Read never sleeps on bytes that nobody will wake it for: when it waits, or is about
\* to, and the buffer is not empty, Drain is on its way to a Broadcast.  The exception
\* is a last chunk that came together with an error, after which Drain just ends.
NoLostWakeup ==
  rd \in {"sleep", "wait"} /\ buf # <<>> =>
    dr \in {"copy", "check", "broadcast"} \/ (dr = "done" /\ chunk # <<>>)

\* Bytes are read in the order docker sent them, none twice and none before Write has
\* copied it, whatever comes between Drain's reads and Writes, for as long as no Read or
\* Seek falls into the middle of a Write; and again once a Seek(0) has emptied the buffer.
InOrder ==
  [][rd = "take" /\ rd' = "out" /\ ~spoilt' =>
       /\ \A b \in Real(p'), c \in seen : b > c
       /\ \A i \in DOMAIN p' : p'[i] # Junk
       /\ \A i, j \in DOMAIN p' : i < j => p'[i] < p'[j]
    ]_seekerVars

\* TestSeekEndNonZero and TestSeekEndZero: after Seek(-n, SEEK_END) nothing is read but
\* the last n bytes of what is in the buffer, and what comes later, as long as no Read or
\* Seek falls into the middle of a Write: then bytes that were skipped can come back.  What
\* Drain has read and not yet written counts as coming later.
SeekSkips == ~spoilt => \A b \in Real(p) : b > floor
===============================================================================
