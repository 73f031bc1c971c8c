--------------------------- MODULE TailTrackerProofs ---------------------------
(****************************************************************************)
(* Machine-checked proofs about TailTracker, for any sets of containers,    *)
(* log files, offsets, goroutines and TailNode objects.                     *)
(*                                                                          *)
(* None of the safety properties is inductive alone.  That the file only    *)
(* ever holds cursors needs that a writer has a buffer; that gob sees       *)
(* stable keys needs that tracker.mux is held exactly while encoding and    *)
(* that an Update in flight stores into a box that already exists; that     *)
(* commits do not mix needs the writeLock discipline.  IInv collects these. *)
(****************************************************************************)
EXTENDS TailTracker, TLAPS

\* A worker has the locals of Update exactly between its lookup and its store,
\* and the box it will store into exists.
UpdateInFlight ==
  \A w \in Worker :
    /\ upd[w] # Absent <=> pc[w] = "store"
    /\ upd[w] # Absent => boxes[upd[w].node][upd[w].child] # Absent

\* Each mutex is held exactly by the goroutine inside its critical section.
LocksHeld ==
  \A p \in Proc :
    /\ mux = p <=> pc[p] = "encode"
    /\ writeLock = p <=> pc[p] \in {"truncated", "written"}

\* From getBuffer to the end of Write a goroutine carries the bytes of a Tailer.
BufferCarried ==
  \A p \in Proc :
    pc[p] \in {"encode", "write", "truncated", "written"} => buf[p] # Absent

\* What gob has still to encode is in the map.
TodoInMap ==
  \A p \in Proc : pc[p] = "encode" =>
    \A ic \in todo : ic[1] \in Registered /\ Cached[ic[1]][ic[2]] # Absent

IInv ==
  /\ TypeOK
  /\ UpdateInFlight
  /\ LocksHeld
  /\ BufferCarried
  /\ TodoInMap
  /\ NodesNotShared
  /\ EncodeSeesStableKeys
  /\ WriteIsolated

-----------------------------------------------------------------------------

LEMMA ConstantFacts ==
  /\ EmptyNode \in TailNode
  /\ EmptyTailer \in Tailer
  /\ Absent \notin Offset /\ Absent \notin TailNode /\ Absent \notin Tailer
  /\ Absent \notin Proc /\ Absent \notin Node /\ Absent \notin Locals
  /\ Empty # Missing /\ Empty \notin Tailer /\ Missing \notin Tailer
BY AbsentIsDistinct, AbsentIsNoId, FileMarks
   DEF EmptyNode, TailNode, EmptyTailer, Tailer

LEMMA InitEstablishes == Init => IInv
<1> SUFFICES ASSUME Init PROVE IInv
  OBVIOUS
<1>1. TypeOK
  BY ConstantFacts DEF Init, TypeOK, EmptyTailer, Label
<1>2. UpdateInFlight /\ LocksHeld /\ BufferCarried /\ TodoInMap
  BY ConstantFacts DEF Init, UpdateInFlight, LocksHeld, BufferCarried, TodoInMap, Proc
<1>3. NodesNotShared /\ EncodeSeesStableKeys /\ WriteIsolated
  BY ConstantFacts DEF Init, NodesNotShared, EncodeSeesStableKeys, WriteIsolated, Proc,
     Registered, EmptyTailer
<1> QED
  BY <1>1, <1>2, <1>3 DEF IInv

\* The memory of a fresh process.
LEMMA FreshMemory ==
  ASSUME NEW I, NEW B, I \in [Inst -> Node \cup {Absent}], B \in [Node -> TailNode],
         \A i, j \in Inst : I[i] # Absent /\ I[i] = I[j] => i = j,
         NoMemory(I, B), up' \in BOOLEAN, file' \in Tailer \cup {Empty, Missing}
  PROVE  IInv'
<1>1. TypeOK'
  BY DEF NoMemory, TypeOK, Label
<1>2. (UpdateInFlight /\ LocksHeld /\ BufferCarried /\ TodoInMap)'
  BY ConstantFacts DEF NoMemory, UpdateInFlight, LocksHeld, BufferCarried, TodoInMap, Proc
<1>3. (NodesNotShared /\ EncodeSeesStableKeys /\ WriteIsolated)'
  BY ConstantFacts DEF NoMemory, NodesNotShared, EncodeSeesStableKeys, WriteIsolated, Proc,
     Registered
<1> QED
  BY <1>1, <1>2, <1>3 DEF IInv

LEMMA LoadPreserves == IInv /\ LoadTailers => IInv'
<1> SUFFICES ASSUME IInv, LoadTailers PROVE IInv'
  OBVIOUS
<1> USE ConstantFacts
<1>1. up' \in BOOLEAN /\ file' \in Tailer \cup {Empty, Missing}
  BY DEF LoadTailers, IInv, TypeOK
<1>2. PICK loaded \in {Decoded(file)} \cup (IF IOFaults THEN {EmptyTailer} ELSE {}),
           obj \in [Inst -> Node] :
       /\ \A i, j \in Inst : obj[i] = obj[j] => i = j
       /\ NoMemory([i \in Inst |-> IF loaded[i] = Absent THEN Absent ELSE obj[i]],
                   [n \in Node |-> IF \E i \in Inst : obj[i] = n /\ loaded[i] # Absent
                                   THEN loaded[CHOOSE i \in Inst : obj[i] = n]
                                   ELSE EmptyNode])
  BY DEF LoadTailers
<1> DEFINE I == [i \in Inst |-> IF loaded[i] = Absent THEN Absent ELSE obj[i]]
           B == [n \in Node |-> IF \E i \in Inst : obj[i] = n /\ loaded[i] # Absent
                                THEN loaded[CHOOSE i \in Inst : obj[i] = n]
                                ELSE EmptyNode]
<1>3. loaded \in Tailer
  BY <1>2 DEF Decoded
<1>4. I \in [Inst -> Node \cup {Absent}]
  OBVIOUS
<1>5. B \in [Node -> TailNode]
  <2> SUFFICES ASSUME NEW n \in Node, NEW i \in Inst, obj[i] = n, loaded[i] # Absent
               PROVE  loaded[CHOOSE j \in Inst : obj[j] = n] \in TailNode
    OBVIOUS
  <2>1. (CHOOSE j \in Inst : obj[j] = n) = i
    BY <1>2
  <2> QED
    BY <2>1, <1>3 DEF Tailer
<1>6. \A i, j \in Inst : I[i] # Absent /\ I[i] = I[j] => i = j
  BY <1>2
<1> QED
  BY <1>1, <1>2, <1>4, <1>5, <1>6, FreshMemory

LEMMA StopPreserves == IInv /\ Stop /\ UNCHANGED file => IInv'
<1> SUFFICES ASSUME IInv, Stop, UNCHANGED file PROVE IInv'
  OBVIOUS
<1>1. EmptyTailer \in [Inst -> Node \cup {Absent}]
  BY DEF EmptyTailer
<1>2. [n \in Node |-> EmptyNode] \in [Node -> TailNode]
  BY ConstantFacts
<1>3. \A i, j \in Inst : EmptyTailer[i] # Absent /\ EmptyTailer[i] = EmptyTailer[j] => i = j
  BY DEF EmptyTailer
<1> QED
  BY <1>1, <1>2, <1>3, FreshMemory DEF Stop, IInv, TypeOK

-----------------------------------------------------------------------------
\* One lemma per action.  The parts of IInv whose variables an action leaves alone
\* are dealt with together.

LEMMA RegisterPreserves ==
  ASSUME NEW i \in Inst, IInv, RegisterInstance(i) PROVE IInv'
<1> USE ConstantFacts DEF IInv, RegisterInstance
<1>1. TypeOK'
  BY DEF TypeOK
<1>2. UpdateInFlight'
  BY DEF TypeOK, UpdateInFlight, Reachable
<1>3. NodesNotShared'
  BY DEF TypeOK, NodesNotShared, Registered, Reachable
<1>4. TodoInMap' /\ EncodeSeesStableKeys'
  BY DEF LocksHeld, TodoInMap, EncodeSeesStableKeys
<1>5. LocksHeld' /\ BufferCarried' /\ WriteIsolated'
  BY DEF LocksHeld, BufferCarried, WriteIsolated
<1> QED
  BY <1>1, <1>2, <1>3, <1>4, <1>5

LEMMA InitializePreserves ==
  ASSUME NEW i \in Inst, NEW c \in Child, IInv,
         InitializeChildNode(i, c, InitialOffset)
  PROVE  IInv'
<1> USE ConstantFacts DEF IInv, InitializeChildNode
<1>1. TypeOK'
  BY InitialOffsetIsOffset DEF TypeOK, TailNode
<1>2. UpdateInFlight'
  BY InitialOffsetIsOffset DEF TypeOK, TailNode, UpdateInFlight, Locals
<1>3. TodoInMap' /\ EncodeSeesStableKeys'
  BY DEF LocksHeld, TodoInMap, EncodeSeesStableKeys
<1>4. LocksHeld' /\ BufferCarried' /\ NodesNotShared' /\ WriteIsolated'
  BY DEF LocksHeld, BufferCarried, NodesNotShared, Registered, WriteIsolated
<1> QED
  BY <1>1, <1>2, <1>3, <1>4

LEMMA CleanUpPreserves ==
  ASSUME NEW validIds, IInv, CleanUp(validIds) PROVE IInv'
<1> USE ConstantFacts DEF IInv, CleanUp
<1>1. TypeOK'
  BY DEF TypeOK
<1>2. NodesNotShared'
  BY DEF TypeOK, NodesNotShared, Registered
<1>3. TodoInMap' /\ EncodeSeesStableKeys'
  BY DEF LocksHeld, TodoInMap, EncodeSeesStableKeys
<1>4. UpdateInFlight' /\ LocksHeld' /\ BufferCarried' /\ WriteIsolated'
  BY DEF UpdateInFlight, LocksHeld, BufferCarried, WriteIsolated
<1> QED
  BY <1>1, <1>2, <1>3, <1>4

LEMMA RemovePreserves ==
  ASSUME NEW w \in Worker, NEW i \in Inst, IInv, Remove(w, i) PROVE IInv'
<1> USE ConstantFacts DEF IInv, Remove
<1>1. TypeOK'
  BY DEF TypeOK, Label
<1>2. NodesNotShared'
  BY DEF TypeOK, NodesNotShared, Registered
<1>3. TodoInMap' /\ EncodeSeesStableKeys'
  BY DEF TypeOK, LocksHeld, TodoInMap, EncodeSeesStableKeys
<1>4. UpdateInFlight' /\ LocksHeld' /\ BufferCarried' /\ WriteIsolated'
  BY DEF TypeOK, Proc, UpdateInFlight, LocksHeld, BufferCarried, WriteIsolated
<1> QED
  BY <1>1, <1>2, <1>3, <1>4

LEMMA UpdatePreserves ==
  ASSUME NEW w \in Worker, NEW i \in Inst, NEW c \in Child, NEW o \in Offset,
         IInv, Update(w, i, c, o)
  PROVE  IInv'
<1> USE ConstantFacts DEF IInv, Update
<1> DEFINE l == [inst |-> i, node |-> Instances[i], child |-> c, val |-> o]
<1>1. l \in Locals /\ l # Absent
  BY AbsentIsNoId DEF TypeOK, Locals
<1>2. TypeOK'
  BY <1>1 DEF TypeOK, Label
<1>3. UpdateInFlight'
  BY <1>1 DEF TypeOK, UpdateInFlight, Proc
<1>4. NodesNotShared'
  BY DEF TypeOK, NodesNotShared, Registered
<1>5. TodoInMap' /\ EncodeSeesStableKeys'
  BY DEF TypeOK, Proc, TodoInMap, EncodeSeesStableKeys, Registered, Cached
<1>6. LocksHeld' /\ BufferCarried' /\ WriteIsolated'
  BY DEF TypeOK, Proc, LocksHeld, BufferCarried, WriteIsolated
<1> QED
  BY <1>2, <1>3, <1>4, <1>5, <1>6

\* The store changes the value of a box, never which boxes there are.
LEMMA StoreKeepsKeys ==
  ASSUME NEW w \in Worker, IInv, StoreInt64(w)
  PROVE  /\ boxes' \in [Node -> TailNode]
         /\ \A n \in Node, c \in Child : boxes'[n][c] # Absent <=> boxes[n][c] # Absent
<1>1. upd[w] \in Locals /\ boxes[upd[w].node][upd[w].child] # Absent
  BY DEF IInv, TypeOK, UpdateInFlight, StoreInt64
<1> QED
  BY <1>1, ConstantFacts DEF IInv, TypeOK, Locals, TailNode, StoreInt64

LEMMA StorePreserves ==
  ASSUME NEW w \in Worker, IInv, StoreInt64(w) PROVE IInv'
<1> USE ConstantFacts DEF IInv, StoreInt64
<1>1. TypeOK'
  BY StoreKeepsKeys DEF TypeOK, Label
<1>2. UpdateInFlight'
  BY StoreKeepsKeys DEF TypeOK, Proc, Locals, UpdateInFlight
<1>3. NodesNotShared'
  BY DEF TypeOK, NodesNotShared, Registered
<1>4. /\ Registered' = Registered
      /\ \A i \in Registered, c \in Child : Cached'[i][c] # Absent <=> Cached[i][c] # Absent
  BY StoreKeepsKeys DEF TypeOK, Registered, Cached
<1>5. TodoInMap' /\ EncodeSeesStableKeys'
  BY <1>4 DEF TypeOK, Proc, TodoInMap, EncodeSeesStableKeys
<1>6. LocksHeld' /\ BufferCarried' /\ WriteIsolated'
  BY DEF TypeOK, Proc, LocksHeld, BufferCarried, WriteIsolated
<1> QED
  BY <1>1, <1>2, <1>3, <1>5, <1>6

LEMMA TimerPreserves ==
  ASSUME IInv, TimerFires PROVE IInv'
<1> USE DEF IInv, TimerFires
<1>1. TypeOK'
  BY DEF TypeOK, Label
<1>2. UpdateInFlight' /\ NodesNotShared'
  BY TimerIsNoWorker DEF TypeOK, Proc, UpdateInFlight, NodesNotShared, Registered
<1>3. TodoInMap' /\ EncodeSeesStableKeys'
  BY DEF TypeOK, Proc, TodoInMap, EncodeSeesStableKeys, Registered, Cached
<1>4. LocksHeld' /\ BufferCarried' /\ WriteIsolated'
  BY DEF TypeOK, Proc, LocksHeld, BufferCarried, WriteIsolated
<1> QED
  BY <1>1, <1>2, <1>3, <1>4

LEMMA GetBufferPreserves ==
  ASSUME NEW p \in Proc, IInv, GetBuffer(p) PROVE IInv'
<1> USE ConstantFacts DEF IInv, GetBuffer
<1> DEFINE b == [i \in Inst |-> IF i \in Registered THEN EmptyNode ELSE Absent]
<1>1. b \in Tailer
  BY DEF Tailer
<1>2. TypeOK'
  BY <1>1 DEF TypeOK, Label, Registered
<1>3. UpdateInFlight' /\ NodesNotShared'
  BY DEF TypeOK, Proc, UpdateInFlight, NodesNotShared, Registered
<1>4. BufferCarried'
  BY <1>1 DEF TypeOK, BufferCarried
<1>5. LocksHeld' /\ WriteIsolated'
  BY DEF TypeOK, LocksHeld, WriteIsolated
<1>6. TodoInMap'
  BY DEF TypeOK, LocksHeld, TodoInMap, Registered, Cached
<1>7. EncodeSeesStableKeys'
  BY DEF TypeOK, LocksHeld, EncodeSeesStableKeys, Registered, Cached, EmptyNode
<1> QED
  BY <1>2, <1>3, <1>4, <1>5, <1>6, <1>7

LEMMA EncodeBoxPreserves ==
  ASSUME NEW p \in Proc, NEW i \in Inst, NEW c \in Child, IInv, EncodeBox(p, i, c)
  PROVE  IInv'
<1> USE ConstantFacts DEF IInv, EncodeBox
<1>1. /\ buf[p] \in Tailer
      /\ buf[p][i] \in TailNode
      /\ Instances[i] \in Node
      /\ boxes[Instances[i]][c] \in Offset
  <2>1. buf[p] \in Tailer
    BY DEF TypeOK, BufferCarried
  <2>2. i \in Registered /\ Cached[i][c] # Absent
    BY DEF TodoInMap
  <2>3. Instances[i] \in Node /\ boxes[Instances[i]][c] \in Offset
    BY <2>2 DEF TypeOK, Registered, Cached, TailNode
  <2>4. buf[p][i] \in TailNode
    BY <2>1, <2>2 DEF EncodeSeesStableKeys, Tailer
  <2> QED
    BY <2>1, <2>3, <2>4
<1> DEFINE n == [buf[p][i] EXCEPT ![c] = boxes[Instances[i]][c]]
           b == [buf[p] EXCEPT ![i] = n]
<1>2. n \in TailNode /\ n[c] # Absent /\ \A d \in Child \ {c} : n[d] = buf[p][i][d]
  BY <1>1 DEF TailNode
<1>3. buf' = [buf EXCEPT ![p] = b]
  OBVIOUS
<1> HIDE DEF n
<1>4. /\ b \in Tailer
      /\ b # Absent
      /\ b[i] = n
      /\ \A j \in Inst \ {i} : b[j] = buf[p][j]
  <2>1. b \in Tailer
    BY <1>1, <1>2 DEF Tailer
  <2> QED
    BY <2>1, <1>1 DEF Tailer
<1> HIDE DEF b
<1>5. TypeOK'
  <2>1. todo' \subseteq Inst \X Child
    BY DEF TypeOK
  <2>2. buf' \in [Proc -> Tailer \cup {Absent}]
    BY <1>3, <1>4 DEF TypeOK
  <2> QED
    BY <2>1, <2>2 DEF TypeOK
<1>6. BufferCarried' /\ WriteIsolated'
  BY <1>3, <1>4 DEF TypeOK, BufferCarried, WriteIsolated
<1>7. TodoInMap'
  BY DEF TodoInMap, Registered, Cached
<1>8. EncodeSeesStableKeys'
  <2> SUFFICES ASSUME NEW q \in Proc, pc[q] = "encode"
               PROVE  /\ mux = q
                      /\ \A j \in Inst : buf'[q][j] = Absent <=> j \notin Registered
                      /\ \A j \in Registered, d \in Child :
                           Cached[j][d] # Absent
                             <=> (<<j, d>> \in todo' \/ buf'[q][j][d] # Absent)
    BY DEF EncodeSeesStableKeys, Registered, Cached
  <2>1. q = p /\ mux = q
    BY DEF LocksHeld
  <2>2. buf'[q] = b
    BY <1>3, <2>1 DEF TypeOK
  <2>3. ASSUME NEW j \in Inst PROVE buf'[q][j] = Absent <=> j \notin Registered
    BY <1>2, <1>4, <2>1, <2>2, <1>1 DEF EncodeSeesStableKeys
  <2>4. ASSUME NEW j \in Registered, NEW d \in Child
        PROVE  Cached[j][d] # Absent <=> (<<j, d>> \in todo' \/ buf'[q][j][d] # Absent)
    <3>1. j \in Inst /\ (Cached[j][d] # Absent <=> (<<j, d>> \in todo \/ buf[p][j][d] # Absent))
      BY <2>1 DEF EncodeSeesStableKeys, Registered
    <3>2. CASE j = i /\ d = c
      <4>1. <<j, d>> \in todo
        BY <3>2
      <4> QED
        BY <1>2, <1>4, <2>2, <3>1, <3>2, <4>1
    <3>3. CASE ~(j = i /\ d = c)
      <4>1. <<j, d>> \in todo' <=> <<j, d>> \in todo
        BY <3>3
      <4>2. buf'[q][j][d] = buf[p][j][d]
        BY <1>2, <1>4, <2>2, <3>1, <3>3
      <4> QED
        BY <3>1, <4>1, <4>2
    <3> QED
      BY <3>2, <3>3
  <2> QED
    BY <2>1, <2>3, <2>4
<1>9. UpdateInFlight' /\ LocksHeld' /\ NodesNotShared'
  BY DEF UpdateInFlight, LocksHeld, NodesNotShared, Registered
<1> QED
  BY <1>5, <1>6, <1>7, <1>8, <1>9

LEMMA EncodeDonePreserves ==
  ASSUME NEW p \in Proc, IInv, EncodeDone(p) PROVE IInv'
<1> USE ConstantFacts DEF IInv, EncodeDone
<1>1. TypeOK'
  BY DEF TypeOK, Label
<1>2. UpdateInFlight' /\ NodesNotShared'
  BY DEF TypeOK, Proc, UpdateInFlight, NodesNotShared, Registered
<1>3. LocksHeld' /\ BufferCarried' /\ WriteIsolated'
  BY DEF TypeOK, LocksHeld, BufferCarried, WriteIsolated
<1>4. TodoInMap' /\ EncodeSeesStableKeys'
  BY DEF TypeOK, LocksHeld, TodoInMap, EncodeSeesStableKeys, Registered, Cached
<1> QED
  BY <1>1, <1>2, <1>3, <1>4

LEMMA OpenTruncatePreserves ==
  ASSUME NEW p \in Proc, IInv, OpenTruncate(p) PROVE IInv'
<1> USE ConstantFacts DEF IInv, OpenTruncate
<1>1. TypeOK'
  BY DEF TypeOK, Label
<1>2. UpdateInFlight' /\ NodesNotShared'
  BY DEF TypeOK, Proc, UpdateInFlight, NodesNotShared, Registered
<1>3. LocksHeld' /\ BufferCarried' /\ WriteIsolated'
  BY DEF TypeOK, LocksHeld, BufferCarried, WriteIsolated
<1>4. TodoInMap' /\ EncodeSeesStableKeys'
  BY DEF TypeOK, LocksHeld, TodoInMap, EncodeSeesStableKeys, Registered, Cached
<1> QED
  BY <1>1, <1>2, <1>3, <1>4

LEMMA WriteDataPreserves ==
  ASSUME NEW p \in Proc, IInv, WriteData(p) PROVE IInv'
<1> USE ConstantFacts DEF IInv, WriteData
<1>1. TypeOK'
  BY DEF TypeOK, Label, BufferCarried
<1>2. UpdateInFlight' /\ NodesNotShared'
  BY DEF TypeOK, Proc, UpdateInFlight, NodesNotShared, Registered
<1>3. LocksHeld' /\ BufferCarried' /\ WriteIsolated'
  BY DEF TypeOK, LocksHeld, BufferCarried, WriteIsolated
<1>4. TodoInMap' /\ EncodeSeesStableKeys'
  BY DEF TypeOK, LocksHeld, TodoInMap, EncodeSeesStableKeys, Registered, Cached
<1> QED
  BY <1>1, <1>2, <1>3, <1>4

LEMMA ChmodPreserves ==
  ASSUME NEW p \in Proc, IInv, Chmod(p) PROVE IInv'
<1> USE ConstantFacts DEF IInv, Chmod
<1>1. TypeOK'
  BY DEF TypeOK, Label
<1>2. UpdateInFlight' /\ NodesNotShared'
  BY DEF TypeOK, Proc, UpdateInFlight, NodesNotShared, Registered
<1>3. LocksHeld' /\ BufferCarried' /\ WriteIsolated'
  BY DEF TypeOK, LocksHeld, BufferCarried, WriteIsolated
<1>4. TodoInMap' /\ EncodeSeesStableKeys'
  BY DEF TypeOK, LocksHeld, TodoInMap, EncodeSeesStableKeys, Registered, Cached
<1> QED
  BY <1>1, <1>2, <1>3, <1>4

-----------------------------------------------------------------------------
\* The inductive step, and the safety theorems.

LEMMA NextPreserves == IInv /\ [Next]_vars => IInv'
<1> SUFFICES ASSUME IInv, [Next]_vars PROVE IInv'
  OBVIOUS
<1>1. CASE LoadTailers
  BY <1>1, LoadPreserves
<1>2. CASE Crash
  BY <1>2, StopPreserves DEF Crash
<1>3. CASE \E i \in Inst : RegisterInstance(i)
  BY <1>3, RegisterPreserves
<1>4. CASE \E i \in Inst, c \in Child : InitializeChildNode(i, c, InitialOffset)
  BY <1>4, InitializePreserves
<1>5. CASE \E validIds \in SUBSET Inst : validIds # {} /\ CleanUp(validIds)
  BY <1>5, CleanUpPreserves
<1>6. CASE \E w \in Worker, i \in Inst : Remove(w, i)
  BY <1>6, RemovePreserves
<1>7. CASE \E w \in Worker, i \in Inst, c \in Child, o \in Offset : Update(w, i, c, o)
  BY <1>7, UpdatePreserves
<1>8. CASE \E w \in Worker : StoreInt64(w)
  BY <1>8, StorePreserves
<1>9. CASE TimerFires
  BY <1>9, TimerPreserves
<1>10. CASE \E p \in Proc : CommitStep(p)
  BY <1>10, GetBufferPreserves, EncodeBoxPreserves, EncodeDonePreserves,
     OpenTruncatePreserves, WriteDataPreserves, ChmodPreserves DEF CommitStep
<1>11. CASE \E p \in Proc : WriteFails(p)
  BY <1>11, StopPreserves DEF WriteFails
<1>12. CASE UNCHANGED vars
  <2> USE <1>12 DEF IInv, vars
  <2>1. TypeOK'
    BY DEF TypeOK
  <2>2. UpdateInFlight' /\ LocksHeld' /\ BufferCarried' /\ NodesNotShared' /\ WriteIsolated'
    BY DEF UpdateInFlight, LocksHeld, BufferCarried, NodesNotShared, Registered, WriteIsolated
  <2>3. TodoInMap' /\ EncodeSeesStableKeys'
    BY DEF TodoInMap, EncodeSeesStableKeys, Registered, Cached
  <2> QED
    BY <2>1, <2>2, <2>3
<1> QED
  BY <1>1, <1>2, <1>3, <1>4, <1>5, <1>6, <1>7, <1>8, <1>9, <1>10, <1>11, <1>12 DEF Next

\* IInv holds in every reachable state of the tracker.
THEOREM Invariance == Spec => []IInv
  BY InitEstablishes, NextPreserves, PTL DEF Spec

\* Every variable of the tracker keeps its type; in particular what lies in the
\* state file is always a whole Tailer or nothing gob can decode, whatever the
\* interleaving of commits, crashes and failing writes.
THEOREM TypeCorrect == Spec => []TypeOK
<1>1. IInv => TypeOK
  BY DEF IInv
<1> QED
  BY <1>1, Invariance, PTL

\* Update, which runs without the mutex, never stores an offset into the TailNode
\* of another container.
THEOREM NoCrossTalk == Spec => []NodesNotShared
<1>1. IInv => NodesNotShared
  BY DEF IInv
<1> QED
  BY <1>1, Invariance, PTL

\* gob never walks a map whose keys change under it, so the unlocked Update can
\* not upset Encode.
THEOREM StableKeys == Spec => []EncodeSeesStableKeys
<1>1. IInv => EncodeSeesStableKeys
  BY DEF IInv
<1> QED
  BY <1>1, Invariance, PTL

\* Commits of different goroutines never mix in the state file.
THEOREM IsolatedWrites == Spec => []WriteIsolated
<1>1. IInv => WriteIsolated
  BY DEF IInv
<1> QED
  BY <1>1, Invariance, PTL

-----------------------------------------------------------------------------
\* A container that is gone stays gone.

LEMMA GoneStep ==
  ASSUME NEW i \in Inst, IInv, [Next]_vars, Gone(i), ~Gone(i)'
  PROVE  RegisterInstance(i)
<1> USE ConstantFacts
<1>1. /\ Instances[i] = Absent
      /\ \A p \in Proc : buf[p] # Absent => buf[p][i] = Absent
      /\ file \in Tailer => file[i] = Absent
  BY DEF Gone, InFlight, InFile
<1> SUFFICES ASSUME ~RegisterInstance(i)
             PROVE  /\ Instances'[i] = Absent
                    /\ \A p \in Proc : buf'[p] # Absent => buf'[p][i] = Absent
                    /\ file' \in Tailer => file'[i] = Absent
  BY DEF Gone, InFlight, InFile
<1>2. CASE LoadTailers
  <2>1. PICK loaded \in {Decoded(file)} \cup (IF IOFaults THEN {EmptyTailer} ELSE {}),
             obj \in [Inst -> Node] :
          NoMemory([j \in Inst |-> IF loaded[j] = Absent THEN Absent ELSE obj[j]],
                   [n \in Node |-> IF \E j \in Inst : obj[j] = n /\ loaded[j] # Absent
                                   THEN loaded[CHOOSE j \in Inst : obj[j] = n]
                                   ELSE EmptyNode])
    BY <1>2, ZenonT(60) DEF LoadTailers
  <2>2. loaded[i] = Absent
    BY <2>1, <1>1 DEF Decoded, EmptyTailer
  <2>3. file' \in Tailer => file'[i] = Absent
    BY <1>1, <1>2 DEF LoadTailers
  <2> QED
    BY <2>1, <2>2, <2>3 DEF NoMemory
<1>3. CASE Stop /\ UNCHANGED file
  BY <1>1, <1>3 DEF Stop, NoMemory, EmptyTailer
<1>4. CASE \E j \in Inst : RegisterInstance(j)
  <2>1. PICK j \in Inst : RegisterInstance(j)
    BY <1>4
  <2> QED
    BY <2>1, <1>1 DEF RegisterInstance, IInv, TypeOK
<1>5. CASE \E j \in Inst, c \in Child : InitializeChildNode(j, c, InitialOffset)
  BY <1>1, <1>5 DEF InitializeChildNode
<1>6. CASE \E validIds \in SUBSET Inst : validIds # {} /\ CleanUp(validIds)
  BY <1>1, <1>6 DEF CleanUp
<1>7. CASE \E w \in Worker, j \in Inst : Remove(w, j)
  BY <1>1, <1>7 DEF Remove, IInv, TypeOK
<1>8. CASE \E w \in Worker, j \in Inst, c \in Child, o \in Offset : Update(w, j, c, o)
  BY <1>1, <1>8 DEF Update
<1>9. CASE \E w \in Worker : StoreInt64(w)
  BY <1>1, <1>9 DEF StoreInt64
<1>10. CASE TimerFires
  BY <1>1, <1>10 DEF TimerFires
<1>11. ASSUME NEW p \in Proc, CommitStep(p)
       PROVE  /\ Instances'[i] = Absent
              /\ \A q \in Proc : buf'[q] # Absent => buf'[q][i] = Absent
              /\ file' \in Tailer => file'[i] = Absent
  <2>1. CASE GetBuffer(p)
    BY <1>1, <2>1 DEF GetBuffer, Registered, IInv, TypeOK
  <2>2. CASE \E j \in Inst, c \in Child : EncodeBox(p, j, c)
    <3>1. PICK j \in Inst, c \in Child : EncodeBox(p, j, c)
      BY <2>2
    <3>2. j # i /\ buf[p] \in Tailer
      BY <3>1, <1>1 DEF EncodeBox, IInv, TypeOK, TodoInMap, Registered, BufferCarried
    <3>3. buf'[p][i] = buf[p][i] /\ \A q \in Proc \ {p} : buf'[q] = buf[q]
      BY <3>1, <3>2 DEF EncodeBox, IInv, TypeOK, Tailer
    <3> QED
      BY <1>1, <3>1, <3>2, <3>3 DEF EncodeBox
  <2>3. CASE EncodeDone(p)
    BY <1>1, <2>3 DEF EncodeDone
  <2>4. CASE OpenTruncate(p)
    BY <1>1, <2>4 DEF OpenTruncate
  <2>5. CASE WriteData(p)
    BY <1>1, <2>5 DEF WriteData, IInv, BufferCarried
  <2>6. CASE Chmod(p)
    BY <1>1, <2>6 DEF Chmod, IInv, TypeOK
  <2> QED
    BY <1>11, <2>1, <2>2, <2>3, <2>4, <2>5, <2>6 DEF CommitStep
<1>12. CASE UNCHANGED vars
  BY <1>1, <1>12 DEF vars
<1> QED
  BY <1>2, <1>3, <1>4, <1>5, <1>6, <1>7, <1>8, <1>9, <1>10, <1>11, <1>12
     DEF Next, Crash, WriteFails

\* No late Update, no commit and no restart brings a removed container back.
THEOREM RemovalIsFinal == Spec => RemovedStaysGone
<1>1. IInv /\ [Next]_vars
        => [\A i \in Inst : Gone(i) /\ ~Gone(i)' => RegisterInstance(i)]_vars
  BY GoneStep
<1> QED
  BY <1>1, Invariance, PTL DEF Spec, RemovedStaysGone

-----------------------------------------------------------------------------
\* The tracker implements the atomic map.

LEMMA RefinesInit == Init => CM!CMInit
BY DEF Init, CM!CMInit, Cached, EmptyTailer, CM!EmptyTailer

\* What the abstract map sees of a step that leaves its variables alone.
LEMMA Stutter ==
  ASSUME UNCHANGED <<up, Instances, boxes>> PROVE UNCHANGED CM!cmVars
BY DEF CM!cmVars, Cached

LEMMA RefinesStore ==
  ASSUME NEW w \in Worker, IInv, StoreInt64(w) PROVE [CM!CMNext]_(CM!cmVars)
<1> USE ConstantFacts
<1> DEFINE l == upd[w]
<1>1. /\ l \in Locals
      /\ l.inst \in Inst /\ l.node \in Node /\ l.child \in Child /\ l.val \in Offset
      /\ boxes[l.node][l.child] # Absent
      /\ boxes' = [boxes EXCEPT ![l.node][l.child] = l.val]
      /\ up /\ up' = up /\ Instances' = Instances
  BY DEF StoreInt64, IInv, TypeOK, UpdateInFlight, Locals
<1>2. \A i \in Registered : Instances[i] = l.node => i = l.inst
  BY <1>1 DEF IInv, NodesNotShared
<1>3. CASE Instances[l.inst] = l.node
  <2>1. CM!Update(l.inst, l.child, l.val)
    <3>1. CM!IsChildNodeInitialized(l.inst, l.child)
      BY <1>1, <1>3 DEF CM!IsChildNodeInitialized, Cached, IInv, TypeOK
    <3>2. Cached' = [Cached EXCEPT ![l.inst][l.child] = l.val]
      BY <1>1, <1>2, <1>3 DEF Cached, IInv, TypeOK, Registered, TailNode
    <3> QED
      BY <1>1, <3>1, <3>2 DEF CM!Update
  <2> QED
    BY <1>1, <2>1 DEF CM!CMNext
<1>4. CASE Instances[l.inst] # l.node
  <2>1. Cached' = Cached
    BY <1>1, <1>2, <1>4 DEF Cached, IInv, TypeOK, Registered
  <2> QED
    BY <1>1, <2>1 DEF CM!cmVars
<1> QED
  BY <1>3, <1>4

LEMMA RefinesNext ==
  ASSUME IInv, [Next]_vars PROVE [CM!CMNext]_(CM!cmVars)
<1> USE ConstantFacts
<1>1. CASE LoadTailers
  <2>1. ~up /\ up' = TRUE /\ TypeOK'
    BY <1>1, LoadPreserves DEF LoadTailers, IInv
  <2>2. Cached' \in CM!Tailer
    BY <2>1 DEF TypeOK, Cached, CM!Tailer, CM!TailNode, TailNode
  <2> QED
    BY <2>1, <2>2 DEF CM!CMNext, CM!LoadTailers
<1>2. CASE up /\ Stop
  <2>1. Cached' = EmptyTailer
    BY <1>2 DEF Stop, NoMemory, Cached, EmptyTailer
  <2> QED
    BY <1>2, <2>1 DEF Stop, CM!CMNext, CM!Halt, EmptyTailer, CM!EmptyTailer
<1>3. ASSUME NEW i \in Inst, RegisterInstance(i) PROVE CM!CMNext
  <2>1. PICK n \in Node \ Reachable :
          /\ Instances' = [Instances EXCEPT ![i] = n]
          /\ boxes' = [boxes EXCEPT ![n] = EmptyNode]
    BY <1>3 DEF RegisterInstance
  <2>2. \A j \in Registered : Instances[j] # n
    BY <2>1 DEF Reachable
  <2>3. Cached' = [Cached EXCEPT ![i] = CM!EmptyNode]
    BY <2>1, <2>2 DEF Cached, IInv, TypeOK, Registered, EmptyNode, CM!EmptyNode
  <2>4. ~CM!IsInstanceRegistered(i)
    BY <1>3 DEF RegisterInstance, CM!IsInstanceRegistered, Cached
  <2> QED
    BY <1>3, <2>3, <2>4 DEF RegisterInstance, CM!CMNext, CM!RegisterInstance
<1>4. ASSUME NEW i \in Inst, NEW c \in Child, InitializeChildNode(i, c, InitialOffset)
      PROVE  CM!CMNext
  <2>1. \A j \in Registered : Instances[j] = Instances[i] => j = i
    BY <1>4 DEF InitializeChildNode, IInv, NodesNotShared, Registered
  <2>2. Cached' = [Cached EXCEPT ![i][c] = InitialOffset]
    BY <1>4, <2>1, ZenonT(60) DEF InitializeChildNode, Cached, IInv, TypeOK, Registered, TailNode
  <2>3. CM!IsInstanceRegistered(i) /\ ~CM!IsChildNodeInitialized(i, c)
    BY <1>4 DEF InitializeChildNode, CM!IsInstanceRegistered, CM!IsChildNodeInitialized,
                Cached, IInv, TypeOK
  <2> QED
    BY <1>4, <2>2, <2>3 DEF InitializeChildNode, CM!CMNext, CM!InitializeChildNode
<1>5. ASSUME NEW S \in SUBSET Inst, up, up' = up, boxes' = boxes,
             Instances' = [i \in Inst |-> IF i \in S THEN Absent ELSE Instances[i]]
      PROVE  CM!CMNext
  <2>1. Cached' = [i \in Inst |-> IF i \in S THEN Absent ELSE Cached[i]]
    BY <1>5 DEF Cached
  <2> QED
    BY <1>5, <2>1 DEF CM!CMNext, CM!Delete
<1>6. ASSUME NEW validIds \in SUBSET Inst, CleanUp(validIds) PROVE CM!CMNext
  <2>1. getInvalidInstances(Registered, validIds) \in SUBSET Inst
    BY DEF getInvalidInstances, Registered
  <2> QED
    BY <1>5, <1>6, <2>1 DEF CleanUp
<1>7. ASSUME NEW w \in Worker, NEW i \in Inst, Remove(w, i) PROVE CM!CMNext
  <2>1. Instances' = [j \in Inst |-> IF j \in {i} THEN Absent ELSE Instances[j]]
    BY <1>7 DEF Remove, IInv, TypeOK
  <2> QED
    BY <1>5, <1>7, <2>1 DEF Remove
<1>8. CASE \E w \in Worker, i \in Inst, c \in Child, o \in Offset : Update(w, i, c, o)
  BY <1>8, Stutter DEF Update
<1>9. CASE \E w \in Worker : StoreInt64(w)
  BY <1>9, RefinesStore
<1>10. CASE TimerFires
  BY <1>10, Stutter DEF TimerFires
<1>11. CASE \E p \in Proc : CommitStep(p)
  BY <1>11, Stutter DEF CommitStep, GetBuffer, EncodeBox, EncodeDone, OpenTruncate,
                        WriteData, Chmod
<1>12. CASE UNCHANGED vars
  BY <1>12, Stutter DEF vars
<1> QED
  BY <1>1, <1>2, <1>3, <1>4, <1>6, <1>7, <1>8, <1>9, <1>10, <1>11, <1>12
     DEF Next, Crash, WriteFails

\* Callers may think of the tracker as a map whose operations are atomic, although
\* Update runs in two unlocked steps and a TailNode may leave the map in between.
THEOREM Refinement == Spec => ImplementsCursorMap
<1>1. Init => CM!CMInit
  BY RefinesInit
<1>2. IInv /\ [Next]_vars => [CM!CMNext]_(CM!cmVars)
  BY RefinesNext
<1> QED
  BY <1>1, <1>2, Invariance, PTL DEF Spec, ImplementsCursorMap, CM!CMSpec
=============================================================================
