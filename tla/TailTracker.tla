------------------------------ MODULE TailTracker ------------------------------
(****************************************************************************)
(* The tail tracker of apptail (storage/tail_tracker.go) with its gob file  *)
(* storage (storage/gob_handler.go).                                        *)
(*                                                                          *)
(* Tracker methods run in many goroutines.  Those that hold tracker.mux     *)
(* for a single map access are one step; getBuffer holds it over the whole  *)
(* gob encoding, which reads one box after another.  Update takes no lock:  *)
(* it looks a TailNode up in one step and stores into one of its boxes in a *)
(* later one, so the TailNodes are objects of their own here, with an       *)
(* identity that survives their removal from the map.  Commit encodes       *)
(* under tracker.mux, lets go of it, and only then writes under             *)
(* FileStorage.writeLock.  The process may stop between any two steps.      *)
(****************************************************************************)
EXTENDS Cursors, FiniteSets

CONSTANTS Worker,    \* goroutines calling Update and Remove
          Timer,     \* the goroutine of StartSubmissionTimer
          Node,      \* identities of TailNode objects
          Empty,     \* a state file gob cannot decode: created, or cut short
          Missing,   \* no state file yet
          IOFaults   \* whether file operations may fail

Proc == Worker \cup {Timer}

ASSUME TimerIsNoWorker == Timer \notin Worker
ASSUME FileMarks == Empty # Missing /\ Empty \notin Tailer /\ Missing \notin Tailer
ASSUME IOFaultsIsBoolean == IOFaults \in BOOLEAN

VARIABLES
  up,         \* the process is running and has loaded its state file
  Instances,  \* t.Cached.Instances: container -> TailNode object, or Absent
  boxes,      \* the TailNode objects: log file -> V of its BoxedInt64, or Absent
  mux,        \* the goroutine encoding under tracker.mux, or Absent
  writeLock,  \* holder of FileStorage.writeLock, or Absent
  pc,         \* where each goroutine is
  upd,        \* a worker's locals inside Update, or Absent
  todo,       \* the boxes Encode has still to read
  buf,        \* the bytes a goroutine carries from getBuffer to Write, or Absent
  file        \* the state file

vars == <<up, Instances, boxes, mux, writeLock, pc, upd, todo, buf, file>>

Label == {"idle", "store", "commit", "encode", "write", "truncated", "written"}
Locals == [inst : Inst, node : Node, child : Child, val : Offset]

ASSUME AbsentIsNoId == Absent \notin Proc /\ Absent \notin Node /\ Absent \notin Locals

TypeOK ==
  /\ up \in BOOLEAN
  /\ Instances \in [Inst -> Node \cup {Absent}]
  /\ boxes \in [Node -> TailNode]
  /\ mux \in Proc \cup {Absent}
  /\ writeLock \in Proc \cup {Absent}
  /\ pc \in [Proc -> Label]
  /\ upd \in [Worker -> Locals \cup {Absent}]
  /\ todo \subseteq Inst \X Child
  /\ buf \in [Proc -> Tailer \cup {Absent}]
  /\ file \in Tailer \cup {Empty, Missing}

\* The map as its readers see it, containers to TailNode contents.
Cached == [i \in Inst |-> IF Instances[i] = Absent THEN Absent
                                                   ELSE boxes[Instances[i]]]

Registered == {i \in Inst : Instances[i] # Absent}

\* Objects a Go map literal may not return: still referenced from somewhere.
Reachable == {Instances[i] : i \in Registered}
               \cup {upd[w].node : w \in {v \in Worker : upd[v] # Absent}}

\* The memory of a process that is not running, and of one that just started.
NoMemory(Cached0, Boxes0) ==
  /\ Instances' = Cached0
  /\ boxes' = Boxes0
  /\ mux' = Absent
  /\ writeLock' = Absent
  /\ pc' = [p \in Proc |-> "idle"]
  /\ upd' = [w \in Worker |-> Absent]
  /\ todo' = {}
  /\ buf' = [p \in Proc |-> Absent]

Init ==
  /\ up = FALSE
  /\ Instances = EmptyTailer
  /\ boxes = [n \in Node |-> EmptyNode]
  /\ mux = Absent
  /\ writeLock = Absent
  /\ pc = [p \in Proc |-> "idle"]
  /\ upd = [w \in Worker |-> Absent]
  /\ todo = {}
  /\ buf = [p \in Proc |-> Absent]
  /\ file = Missing

-----------------------------------------------------------------------------
\* Starting: NewTracker, then LoadTailers.  Load creates a missing file; a
\* file it cannot read or decode is logged and leaves Cached empty.  LoadTailers
\* drops the error in every case.

Decoded(f) == IF f \in Tailer THEN f ELSE EmptyTailer

LoadTailers ==
  /\ ~up
  /\ up' = TRUE
  /\ file' \in IF file = Missing THEN {Empty} \cup (IF IOFaults THEN {Missing} ELSE {})
                                ELSE {file}
  /\ \E loaded \in {Decoded(file)} \cup (IF IOFaults THEN {EmptyTailer} ELSE {}),
        obj \in [Inst -> Node] :
       /\ \A i, j \in Inst : obj[i] = obj[j] => i = j
       /\ NoMemory([i \in Inst |-> IF loaded[i] = Absent THEN Absent ELSE obj[i]],
                   [n \in Node |-> IF \E i \in Inst : obj[i] = n /\ loaded[i] # Absent
                                   THEN loaded[CHOOSE i \in Inst : obj[i] = n]
                                   ELSE EmptyNode])

\* The process is killed, or calls log.Fatal: only the file is left.
Stop ==
  /\ up' = FALSE
  /\ NoMemory(EmptyTailer, [n \in Node |-> EmptyNode])

Crash == up /\ Stop /\ UNCHANGED file

-----------------------------------------------------------------------------
\* Operations under tracker.mux.

\* Mutants of RegisterInstance: the lock not taken; the existence check dropped;
\* one TailNode value shared by all containers.
RegisterInstanceNoLock(i) ==
  /\ up
  /\ Instances[i] = Absent
  /\ \E n \in Node \ Reachable :
       /\ Instances' = [Instances EXCEPT ![i] = n]
       /\ boxes' = [boxes EXCEPT ![n] = EmptyNode]
  /\ UNCHANGED <<up, mux, writeLock, pc, upd, todo, buf, file>>

RegisterInstanceOverwrites(i) ==
  /\ up
  /\ mux = Absent
  /\ \E n \in Node \ Reachable :
       /\ Instances' = [Instances EXCEPT ![i] = n]
       /\ boxes' = [boxes EXCEPT ![n] = EmptyNode]
  /\ UNCHANGED <<up, mux, writeLock, pc, upd, todo, buf, file>>

RegisterInstanceShares(i) ==
  /\ up
  /\ mux = Absent
  /\ Instances[i] = Absent
  /\ \E n \in Node :
       /\ Instances' = [Instances EXCEPT ![i] = n]
       /\ boxes' = [boxes EXCEPT ![n] = EmptyNode]
  /\ UNCHANGED <<up, mux, writeLock, pc, upd, todo, buf, file>>

RegisterInstance(i) ==
  /\ up
  /\ mux = Absent
  /\ Instances[i] = Absent
  /\ \E n \in Node \ Reachable :
       /\ Instances' = [Instances EXCEPT ![i] = n]
       /\ boxes' = [boxes EXCEPT ![n] = EmptyNode]
  /\ UNCHANGED <<up, mux, writeLock, pc, upd, todo, buf, file>>

InitializeChildNode(i, c, o) ==
  /\ up
  /\ mux = Absent
  /\ Instances[i] # Absent
  /\ boxes[Instances[i]][c] = Absent
  /\ boxes' = [boxes EXCEPT ![Instances[i]][c] = o]
  /\ UNCHANGED <<up, Instances, mux, writeLock, pc, upd, todo, buf, file>>

getInvalidInstances(dockerIds, allInstances) == dockerIds \ allInstances

CleanUp(validIds) ==
  /\ up
  /\ mux = Absent
  /\ Instances' = [i \in Inst |->
                     IF i \in getInvalidInstances(Registered, validIds)
                     THEN Absent ELSE Instances[i]]
  /\ UNCHANGED <<up, boxes, mux, writeLock, pc, upd, todo, buf, file>>

\* Remove deletes the container and goes on to Commit.
Remove(w, i) ==
  /\ up
  /\ pc[w] = "idle"
  /\ mux = Absent
  /\ Instances' = [Instances EXCEPT ![i] = Absent]
  /\ pc' = [pc EXCEPT ![w] = "commit"]
  /\ UNCHANGED <<up, boxes, mux, writeLock, upd, todo, buf, file>>

-----------------------------------------------------------------------------
\* Update, outside tracker.mux: the map lookups, then atomic.StoreInt64.  A child
\* never leaves its TailNode, so the lookups together are one step.  They race
\* with the writers of the maps: a lookup that misses the key is a call that
\* changes nothing, one the Go runtime aborts on is a Crash.

Update(w, i, c, o) ==
  /\ up
  /\ pc[w] = "idle"
  /\ Instances[i] # Absent
  /\ boxes[Instances[i]][c] # Absent
  /\ pc' = [pc EXCEPT ![w] = "store"]
  /\ upd' = [upd EXCEPT ![w] = [inst |-> i, node |-> Instances[i], child |-> c, val |-> o]]
  /\ UNCHANGED <<up, Instances, boxes, mux, writeLock, todo, buf, file>>

\* Mutant: the store goes through the map key and puts the container back.
StoreByKey(w) ==
  /\ up
  /\ pc[w] = "store"
  /\ Instances' = [Instances EXCEPT ![upd[w].inst] = upd[w].node]
  /\ boxes' = [boxes EXCEPT ![upd[w].node][upd[w].child] = upd[w].val]
  /\ pc' = [pc EXCEPT ![w] = "idle"]
  /\ upd' = [upd EXCEPT ![w] = Absent]
  /\ UNCHANGED <<up, mux, writeLock, todo, buf, file>>

StoreInt64(w) ==
  /\ up
  /\ pc[w] = "store"
  /\ boxes' = [boxes EXCEPT ![upd[w].node][upd[w].child] = upd[w].val]
  /\ pc' = [pc EXCEPT ![w] = "idle"]
  /\ upd' = [upd EXCEPT ![w] = Absent]
  /\ UNCHANGED <<up, Instances, mux, writeLock, todo, buf, file>>

-----------------------------------------------------------------------------
\* Commit: getBuffer (lock, Encode, unlock), then Write (lock, truncate, write,
\* chmod, unlock).

\* The ticker of StartSubmissionTimer fires.
TimerFires ==
  /\ up
  /\ pc[Timer] = "idle"
  /\ pc' = [pc EXCEPT ![Timer] = "commit"]
  /\ UNCHANGED <<up, Instances, boxes, mux, writeLock, upd, todo, buf, file>>

GetBuffer(p) ==
  /\ up
  /\ pc[p] = "commit"
  /\ mux = Absent
  /\ mux' = p
  /\ pc' = [pc EXCEPT ![p] = "encode"]
  /\ todo' = {ic \in Registered \X Child : Cached[ic[1]][ic[2]] # Absent}
  /\ buf' = [buf EXCEPT ![p] = [i \in Inst |-> IF i \in Registered THEN EmptyNode
                                                                  ELSE Absent]]
  /\ UNCHANGED <<up, Instances, boxes, writeLock, upd, file>>

EncodeBox(p, i, c) ==
  /\ up
  /\ pc[p] = "encode"
  /\ <<i, c>> \in todo
  /\ todo' = todo \ {<<i, c>>}
  /\ buf' = [buf EXCEPT ![p][i][c] = boxes[Instances[i]][c]]
  /\ UNCHANGED <<up, Instances, boxes, mux, writeLock, pc, upd, file>>

\* Mutant: Encode hands back no bytes and no error.
EncodeDoneNil(p) ==
  /\ up
  /\ pc[p] = "encode"
  /\ todo = {}
  /\ mux' = Absent
  /\ pc' = [pc EXCEPT ![p] = "write"]
  /\ buf' = [buf EXCEPT ![p] = Absent]
  /\ UNCHANGED <<up, Instances, boxes, writeLock, upd, todo, file>>

EncodeDone(p) ==
  /\ up
  /\ pc[p] = "encode"
  /\ todo = {}
  /\ mux' = Absent
  /\ pc' = [pc EXCEPT ![p] = "write"]
  /\ UNCHANGED <<up, Instances, boxes, writeLock, upd, todo, buf, file>>

\* Mutant: Write without the writeLock.
OpenTruncateNoLock(p) ==
  /\ up
  /\ pc[p] = "write"
  /\ file' = Empty
  /\ pc' = [pc EXCEPT ![p] = "truncated"]
  /\ UNCHANGED <<up, Instances, boxes, mux, writeLock, upd, todo, buf>>

\* ioutil.WriteFile opens with O_TRUNC; until the data is down the file holds
\* nothing gob can decode.
OpenTruncate(p) ==
  /\ up
  /\ pc[p] = "write"
  /\ writeLock = Absent
  /\ writeLock' = p
  /\ file' = Empty
  /\ pc' = [pc EXCEPT ![p] = "truncated"]
  /\ UNCHANGED <<up, Instances, boxes, mux, upd, todo, buf>>

WriteData(p) ==
  /\ up
  /\ pc[p] = "truncated"
  /\ file' = buf[p]
  /\ pc' = [pc EXCEPT ![p] = "written"]
  /\ UNCHANGED <<up, Instances, boxes, mux, writeLock, upd, todo, buf>>

\* Mutant: the writeLock is not released.
ChmodKeepsLock(p) ==
  /\ up
  /\ pc[p] = "written"
  /\ pc' = [pc EXCEPT ![p] = "idle"]
  /\ buf' = [buf EXCEPT ![p] = Absent]
  /\ UNCHANGED <<up, Instances, boxes, mux, writeLock, upd, todo, file>>

Chmod(p) ==
  /\ up
  /\ pc[p] = "written"
  /\ writeLock' = Absent
  /\ pc' = [pc EXCEPT ![p] = "idle"]
  /\ buf' = [buf EXCEPT ![p] = Absent]
  /\ UNCHANGED <<up, Instances, boxes, mux, upd, todo, file>>

\* An open, write or chmod that fails: Commit returns the error, and both its
\* callers pass it to log.Fatal.
WriteFails(p) ==
  /\ IOFaults
  /\ up
  /\ \/ pc[p] = "write" /\ writeLock = Absent
     \/ pc[p] \in {"truncated", "written"}
  /\ Stop
  /\ UNCHANGED file

CommitStep(p) ==
  \/ GetBuffer(p)
  \/ \E i \in Inst, c \in Child : EncodeBox(p, i, c)
  \/ EncodeDone(p)
  \/ OpenTruncate(p)
  \/ WriteData(p)
  \/ Chmod(p)

Next ==
  \/ LoadTailers
  \/ Crash
  \/ \E i \in Inst : RegisterInstance(i)
  \/ \E i \in Inst, c \in Child : InitializeChildNode(i, c, InitialOffset)
  \/ \E validIds \in SUBSET Inst : validIds # {} /\ CleanUp(validIds)
  \/ \E w \in Worker, i \in Inst : Remove(w, i)
  \/ \E w \in Worker, i \in Inst, c \in Child, o \in Offset : Update(w, i, c, o)
  \/ \E w \in Worker : StoreInt64(w)
  \/ TimerFires
  \/ \E p \in Proc : CommitStep(p)
  \/ \E p \in Proc : WriteFails(p)

Spec == Init /\ [][Next]_vars

\* The ticker keeps firing and the scheduler runs every goroutine that can run.
\* sync.Mutex queues its waiters, so a goroutine that finds a lock free again
\* and again gets it.
FairSpec ==
  /\ Spec
  /\ WF_vars(TimerFires)
  /\ \A p \in Proc :
       /\ WF_vars(\E i \in Inst, c \in Child : EncodeBox(p, i, c))
       /\ WF_vars(EncodeDone(p))
       /\ WF_vars(WriteData(p))
       /\ WF_vars(Chmod(p))
       /\ SF_vars(GetBuffer(p))
       /\ SF_vars(OpenTruncate(p))

-----------------------------------------------------------------------------
\* Properties.

InFile(i) == file \in Tailer /\ file[i] # Absent

InFlight(i) == \E p \in Proc : buf[p] # Absent /\ buf[p][i] # Absent

\* No two containers share a TailNode object, and no Update in flight holds the
\* object of another container: an offset is never stored for the wrong one.
NodesNotShared ==
  /\ \A i, j \in Registered : Instances[i] = Instances[j] => i = j
  /\ \A w \in Worker, i \in Registered :
       upd[w] # Absent /\ upd[w].node = Instances[i] => upd[w].inst = i

\* While gob walks the maps their keys do not change under it: what has been
\* encoded so far, and what is still to be, is exactly the set of containers and
\* files now in the map, although Update runs outside the mutex all the time.
EncodeSeesStableKeys ==
  \A p \in Proc : pc[p] = "encode" =>
    /\ mux = p
    /\ \A i \in Inst : buf[p][i] = Absent <=> i \notin Registered
    /\ \A i \in Registered, c \in Child :
         Cached[i][c] # Absent <=> (<<i, c>> \in todo \/ buf[p][i][c] # Absent)

\* Two commits never mix in the state file: from the moment a goroutine has
\* written its bytes until it lets go of the writeLock, the file holds them.
WriteIsolated ==
  \A p \in Proc : pc[p] = "written" => file = buf[p]

\* A container that is in neither the cache, the file nor a buffer on its way to
\* the file stays out, across late Updates, commits, crashes and restarts, until
\* RegisterInstance is called for it again.
Gone(i) == Instances[i] = Absent /\ ~InFlight(i) /\ ~InFile(i)

RemovedStaysGone ==
  [][\A i \in Inst : Gone(i) /\ ~Gone(i)' => RegisterInstance(i)]_vars

\* The tracker implements the atomic map, the lock-free Update included.
CM == INSTANCE CursorMap WITH running <- up, cache <- Cached

ImplementsCursorMap == CM!CMSpec

\* A container that stays removed disappears from the state file for good,
\* although a commit that encoded it earlier may first write it back.
RemovalReachesFile ==
  \A i \in Inst : <>[](up /\ Instances[i] = Absent) => <>[]~InFile(i)

\* A cursor that rests at an offset is persisted with that offset again and again.
CursorReachesFile ==
  \A i \in Inst, c \in Child, o \in Offset :
    <>[](up /\ Instances[i] # Absent /\ Cached[i][c] = o)
      => []<>(InFile(i) /\ file[i][c] = o)
=============================================================================
