------------------------------- MODULE CursorMap -------------------------------
(***************************************************************************)
(* What the tail tracker promises its callers: a two-level map from        *)
(* containers to log files to offsets on which every operation of the      *)
(* Tracker interface is one atomic step.  TailTracker is the               *)
(* implementation, with its mutexes, its lock-free Update and its state    *)
(* file; Apptail uses this module as its tracker.                          *)
(***************************************************************************)
EXTENDS Cursors

VARIABLES running,  \* the process is up and has loaded its cursors
          cache     \* t.Cached.Instances

cmVars == <<running, cache>>

CMTypeOK == running \in BOOLEAN /\ cache \in Tailer

IsInstanceRegistered(i) == cache[i] # Absent

IsChildNodeInitialized(i, c) == cache[i] # Absent /\ cache[i][c] # Absent

-----------------------------------------------------------------------------
\* The operations.  A call whose condition is false changes nothing.

RegisterInstance(i) ==
  /\ running
  /\ ~IsInstanceRegistered(i)
  /\ cache' = [cache EXCEPT ![i] = EmptyNode]
  /\ UNCHANGED running

InitializeChildNode(i, c, o) ==
  /\ running
  /\ IsInstanceRegistered(i)
  /\ ~IsChildNodeInitialized(i, c)
  /\ cache' = [cache EXCEPT ![i][c] = o]
  /\ UNCHANGED running

Update(i, c, o) ==
  /\ running
  /\ IsChildNodeInitialized(i, c)
  /\ cache' = [cache EXCEPT ![i][c] = o]
  /\ UNCHANGED running

\* Remove deletes one container, CleanUp every container that is not live.
Delete(S) ==
  /\ running
  /\ cache' = [i \in Inst |-> IF i \in S THEN Absent ELSE cache[i]]
  /\ UNCHANGED running

\* The process ends and its memory is gone; a new one loads some cursors.
Halt == running /\ running' = FALSE /\ cache' = EmptyTailer

LoadTailers == ~running /\ running' = TRUE /\ cache' \in Tailer

CMInit == running = FALSE /\ cache = EmptyTailer

CMNext ==
  \/ \E i \in Inst : RegisterInstance(i)
  \/ \E i \in Inst, c \in Child : InitializeChildNode(i, c, InitialOffset)
  \/ \E i \in Inst, c \in Child, o \in Offset : Update(i, c, o)
  \/ \E S \in SUBSET Inst : Delete(S)
  \/ Halt
  \/ LoadTailers

CMSpec == CMInit /\ [][CMNext]_cmVars
=============================================================================
