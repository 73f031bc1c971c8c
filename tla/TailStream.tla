------------------------------ MODULE TailStream ------------------------------
(****************************************************************************)
(* A session of apptail whose container has docker streams (instance.go,    *)
(* pubchannel/): Tail with getLogFiles, the timeline channel its goroutines *)
(* report to, tailStream and readFromTail on top of Seeker, and the end of  *)
(* the container.  The tracker's part in it is Apptail's subject.           *)
(*                                                                          *)
(* pubch.Ch is unbuffered: who sends on it is stuck until PubChannel.loop   *)
(* takes the event.  tail and net/http are modelled by how this code uses   *)
(* them; tail.Stop waits for tail's goroutine, which may be inside Read.    *)
(****************************************************************************)
EXTENDS Seeker

CONSTANTS LogName,  \* names in LogFiles or $STACKATO_LOG_FILES
          STDOUT,   \* the one that is a docker stream
          Limits    \* what getReadLimit may return

ASSUME StdoutIsLogName == STDOUT \in LogName
ASSUME LimitsAreNats == Limits \subseteq Nat

VARIABLES
  dockerStreams, \* instance.DockerStreams
  tail,          \* where Tail is
  unchecked,     \* log files getLogFiles has still to look at
  logfiles,      \* logfilesSecure
  loop,          \* where PubChannel.loop is
  waiter,        \* the goroutine that waits for the container
  stop,          \* stopCh is closed
  ts,            \* where tailStream or its readFromTail is
  limit,         \* its limit
  tl             \* tail's goroutine

sessVars == <<dockerStreams, tail, unchecked, logfiles, loop, waiter, stop, ts, limit, tl>>
vars == <<seekerVars, sessVars>>

TypeOK ==
  /\ SeekerTypeOK
  /\ dockerStreams \in BOOLEAN
  /\ tail \in {"env", "large", "split", "files", "warn", "error", "spawn", "returned"}
  /\ unchecked \subseteq LogName
  /\ logfiles \subseteq LogName
  /\ loop \in {"delay", "range", "gone"}
  /\ waiter \in {"none", "blocked", "done"}
  /\ stop \in BOOLEAN
  /\ ts \in {"none", "limit", "skip", "get", "warn", "read", "publish", "stop", "done"}
  /\ limit \in Limits \cup {0}
  /\ tl \in {"none", "seek", "follow", "dead"}

\* Tail begins with pubchannel.New, which starts the loop.
Init ==
  /\ SeekerInit
  /\ dockerStreams \in BOOLEAN
  /\ tail = "env"
  /\ unchecked = {}
  /\ logfiles = {}
  /\ loop = "delay"
  /\ waiter = "none"
  /\ stop = FALSE
  /\ ts = "none"
  /\ limit = 0
  /\ tl = "none"

-----------------------------------------------------------------------------
\* getLogFiles, in Tail.

\* LogFiles or $STACKATO_LOG_FILES, which is worth an event if it is large.
ReadEnv ==
  /\ tail = "env"
  /\ tail' \in {"large", "split"}
  /\ UNCHANGED <<seekerVars, dockerStreams, unchecked, logfiles, loop, waiter, stop, ts, limit, tl>>

\* The names found in it: none if it can not be read.
SplitEntries ==
  /\ tail = "split"
  /\ tail' = "files"
  /\ unchecked' \in SUBSET LogName
  /\ UNCHANGED <<seekerVars, dockerStreams, logfiles, loop, waiter, stop, ts, limit, tl>>

\* An entry without "=": parts[1] is out of range.
BadEntry ==
  /\ tail = "split"
  /\ crashed' = TRUE
  /\ UNCHANGED <<written, stream, drainVars, buf, spoilt, readVars, floor, sessVars>>

\* The path of a log file is accepted, or rejected with a timeline event.
CheckPath(name) ==
  /\ tail = "files"
  /\ name \in unchecked
  /\ unchecked' = unchecked \ {name}
  /\ \/ logfiles' = logfiles \cup {name} /\ UNCHANGED tail
     \/ tail' = "warn" /\ UNCHANGED logfiles
  /\ UNCHANGED <<seekerVars, dockerStreams, loop, waiter, stop, ts, limit, tl>>

\* An instance that has nothing to tail gets another event.
PathsChecked ==
  /\ tail = "files"
  /\ unchecked = {}
  /\ tail' = IF logfiles = {} /\ ~dockerStreams THEN "error" ELSE "spawn"
  /\ UNCHANGED <<seekerVars, dockerStreams, unchecked, logfiles, loop, waiter, stop, ts, limit, tl>>

\* The go statements of Tail.
Spawn ==
  /\ tail = "spawn"
  /\ tail' = "returned"
  /\ ts' = IF dockerStreams /\ STDOUT \in logfiles THEN "limit" ELSE ts
  /\ waiter' = "blocked"
  /\ logfiles' = {}
  /\ UNCHANGED <<seekerVars, dockerStreams, unchecked, loop, stop, limit, tl>>

TailStep ==
  \/ ReadEnv \/ SplitEntries \/ BadEntry
  \/ \E name \in LogName : CheckPath(name)
  \/ PathsChecked \/ Spawn

-----------------------------------------------------------------------------
\* PubChannel.loop.

\* The 100 ms are over.
LoopReady ==
  /\ loop = "delay"
  /\ loop' = "range"
  /\ UNCHANGED <<seekerVars, dockerStreams, tail, unchecked, logfiles, waiter, stop, ts, limit, tl>>

LoopStopped ==
  /\ loop = "delay"
  /\ stop
  /\ loop' = "gone"
  /\ UNCHANGED <<seekerVars, dockerStreams, tail, unchecked, logfiles, waiter, stop, ts, limit, tl>>

\* It takes an event from a goroutine in SendTimelineEvent and publishes it.
LoopPublishes ==
  /\ loop = "range"
  /\ \/ tail = "large" /\ tail' = "split" /\ UNCHANGED ts
     \/ tail = "warn"  /\ tail' = "files" /\ UNCHANGED ts
     \/ tail = "error" /\ tail' = "spawn" /\ UNCHANGED ts
     \/ ts = "skip"    /\ ts' = "get"     /\ UNCHANGED tail
     \/ ts = "warn"    /\ ts' = "done"    /\ UNCHANGED tail
  /\ UNCHANGED <<seekerVars, dockerStreams, unchecked, logfiles, loop, waiter, stop, limit, tl>>

LoopStep == LoopReady \/ LoopStopped \/ LoopPublishes

-----------------------------------------------------------------------------
\* The container stops: BlockUntilContainerStops returns, close(stopCh).

\* Mutant: the goroutine that waits for the container started before getLogFiles.
ContainerStopsEarly ==
  /\ ~stop
  /\ waiter' = "done"
  /\ stop' = TRUE
  /\ UNCHANGED <<seekerVars, dockerStreams, tail, unchecked, logfiles, loop, ts, limit, tl>>

ContainerStops ==
  /\ waiter = "blocked"
  /\ waiter' = "done"
  /\ stop' = TRUE
  /\ UNCHANGED <<seekerVars, dockerStreams, tail, unchecked, logfiles, loop, ts, limit, tl>>

-----------------------------------------------------------------------------
\* tailStream.

\* Stat fails, or the file is large, which is worth an event, or it is not.
getReadLimit ==
  /\ ts = "limit"
  /\ ts' \in {"warn", "skip", "get"}
  /\ limit' \in Limits
  /\ UNCHANGED <<seekerVars, dockerStreams, tail, unchecked, logfiles, loop, waiter, stop, tl>>

\* http.Get fails, or the status is bad, which nobody is told.
GetFails ==
  /\ ts = "get"
  /\ ts' \in {"warn", "done"}
  /\ UNCHANGED <<seekerVars, dockerStreams, tail, unchecked, logfiles, loop, waiter, stop, limit, tl>>

\* WrapReadSeekClose starts Drain, and TailReader tail's goroutine.
WrapReadSeekClose ==
  /\ ts = "get"
  /\ dr' = "read"
  /\ tl' = "seek"
  /\ ts' = "read"
  /\ UNCHANGED <<written, stream, src, chunk, err, buf, spoilt, readVars, crashed, floor,
                 dockerStreams, tail, unchecked, logfiles, loop, waiter, stop, limit>>

-----------------------------------------------------------------------------
\* tail's goroutine.

TailSeeks ==
  /\ tl = "seek"
  /\ Seek(limit)
  /\ tl' = "follow"
  /\ UNCHANGED <<dockerStreams, tail, unchecked, logfiles, loop, waiter, stop, ts, limit>>

\* After a cool-off tail goes on at the end.
TailCoolsOff ==
  /\ tl = "follow"
  /\ Seek(0)
  /\ UNCHANGED sessVars

TailReads ==
  /\ tl = "follow"
  /\ ReadCalled \/ ReadStep
  /\ UNCHANGED sessVars

\* Between two reads tail sees that it is dying, and closes the stream.
TailEnds ==
  /\ tl \in {"seek", "follow"}
  /\ ts = "stop"
  /\ rd = "out"
  /\ Close
  /\ tl' = "dead"
  /\ UNCHANGED <<dockerStreams, tail, unchecked, logfiles, loop, waiter, stop, ts, limit>>

-----------------------------------------------------------------------------
\* readFromTail.

ReceiveLine ==
  /\ ts = "read"
  /\ rd = "out"
  /\ p # <<>>
  /\ p' = Tail(p)
  /\ ts' = "publish"
  /\ UNCHANGED <<written, stream, drainVars, buf, spoilt, rd, seen, crashed, floor,
                 dockerStreams, tail, unchecked, logfiles, loop, waiter, stop, limit, tl>>

\* Update has nothing to do: tailStream makes no cursor.
PublishLine ==
  /\ ts = "publish"
  /\ ts' = "read"
  /\ UNCHANGED <<seekerVars, dockerStreams, tail, unchecked, logfiles, loop, waiter, stop, limit, tl>>

\* Mutant: stopCh is only looked at when a line has come.
StopOnLine ==
  /\ ts = "read"
  /\ stop
  /\ rd = "out" /\ p # <<>>
  /\ ts' = "stop"
  /\ UNCHANGED <<seekerVars, dockerStreams, tail, unchecked, logfiles, loop, waiter, stop, limit, tl>>

\* t.Stop: Kill, then Wait.
Stop ==
  /\ ts = "read"
  /\ stop
  /\ ts' = "stop"
  /\ UNCHANGED <<seekerVars, dockerStreams, tail, unchecked, logfiles, loop, waiter, stop, limit, tl>>

StopReturns ==
  /\ ts = "stop"
  /\ tl = "dead"
  /\ ts' = "done"
  /\ UNCHANGED <<seekerVars, dockerStreams, tail, unchecked, logfiles, loop, waiter, stop, limit, tl>>

StreamStep ==
  getReadLimit \/ GetFails \/ WrapReadSeekClose \/ ReceiveLine \/ PublishLine \/ Stop \/ StopReturns

\* What docker had sent before Drain started is among what it sends after.
DockerStep == dr # "none" /\ (StreamWrites \/ StreamEnds)

Next ==
  /\ ~crashed
  /\ \/ TailStep \/ LoopStep \/ ContainerStops \/ StreamStep
     \/ TailSeeks \/ TailCoolsOff \/ TailReads \/ TailEnds
     \/ (DrainStep \/ DockerStep) /\ UNCHANGED sessVars

Spec == Init /\ [][Next]_vars

\* Every goroutine runs when it can, select takes its ready cases at random, and tail
\* looks between two reads whether it is to end.
Fairness ==
  /\ WF_vars(~crashed /\ TailStep)
  /\ WF_vars(~crashed /\ LoopStep)
  /\ WF_vars(~crashed /\ StreamStep)
  /\ SF_vars(~crashed /\ Stop)
  /\ WF_vars(~crashed /\ (TailSeeks \/ TailReads))
  /\ SF_vars(~crashed /\ TailEnds)
  /\ WF_vars(~crashed /\ DrainStep /\ UNCHANGED sessVars)

-----------------------------------------------------------------------------
\* Properties.

\* Tail returns, so that its container can be announced again: the events getLogFiles
\* sends are received, and it has no end of names to look at.
TailReturns == <>(tail = "returned" \/ crashed)

\* After stopCh is closed tailStream comes to its end, unless it sends an event to a
\* loop that was stopped in its first 100 ms, or t.Stop waits for a tail that sleeps for
\* good in a Read.
StopEndsStream ==
  stop /\ ts \notin {"none", "done"} ~>
    \/ ts = "done" \/ crashed
    \/ ts \in {"skip", "warn"} /\ loop = "gone"
    \/ ts = "stop" /\ [](rd = "wait")

\* When tailing has ended Drain does not go on reading the stream for nobody.
DrainFollows == ts = "done" ~> dr \in {"none", "done"} \/ crashed
===============================================================================
