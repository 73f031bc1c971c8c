------------------------------ MODULE LogTailing ------------------------------
(*****************************************************************************)
(* The two ways in which Tail has a log tailed (instance.go): a docker       *)
(* stream by tailStream (TailStream), any other log by tailFile (TailFile).  *)
(* A behaviour is about one log; the goroutines of different logs share only *)
(* the tracker and pubch.                                                    *)
(*****************************************************************************)
EXTENDS TailStream

CONSTANTS Sess, MaxLines, ReadLimit, IOFaults, Limited, Absent, Removed

VARIABLES kind,  \* how the log is tailed
          size, up, cursor, saved, ses, covered

File == INSTANCE TailFile

fileVars == <<size, up, cursor, saved, ses, covered>>
logVars == <<vars, kind, fileVars>>

\* Nothing of tailStream runs.
NoStream ==
  /\ SeekerInit
  /\ dockerStreams = FALSE
  /\ tail = "returned"
  /\ unchecked = {} /\ logfiles = {}
  /\ loop = "range"
  /\ waiter = "done"
  /\ stop = TRUE
  /\ ts = "none" /\ limit = 0 /\ tl = "none"

LogInit ==
  /\ File!Init
  /\ \/ kind = "stream" /\ Init /\ size = 0
     \/ kind = "file" /\ NoStream

LogNext ==
  /\ \/ kind = "stream" /\ Next /\ UNCHANGED fileVars
     \/ kind = "file" /\ File!Next /\ UNCHANGED vars
  /\ UNCHANGED kind

LogSpec ==
  /\ LogInit /\ [][LogNext]_logVars
  /\ Fairness
  /\ File!Fairness

-----------------------------------------------------------------------------
\* Properties.

\* A line in a file that tail follows is published by the session, or passed over by it
\* in a cool-off, unless apptail or the session is stopped first or tail gives up
\* (readFromTail of instance.go).
LinesGetPublished == File!LinesGetPublished

\* Once stopCh is closed the session's tailing of a file comes to its end, unless it has
\* a timeline event to send and the loop of its pubch was stopped in its first 100 ms
\* (readFromTail of instance.go, loop of pubchannel.go).
StopEndsTailing == File!StopEndsTailing
===============================================================================
