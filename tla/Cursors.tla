-------------------------------- MODULE Cursors --------------------------------
(***************************************************************************)
(* The data apptail's tail tracker keeps: for every container a table of   *)
(* its log files and the offset up to which each one has been tailed.      *)
(***************************************************************************)

CONSTANTS Inst,           \* short docker ids, the instKey of every operation
          Child,          \* log file names, the childKey
          Offset,         \* tail offsets
          InitialOffset,  \* INITIAL_OFFSET, what InitializeChildNode is given
          Absent          \* "no such key" in a Go map

\* type TailNode map[string]*BoxedInt64: log file -> offset.
TailNode == [Child -> Offset \cup {Absent}]

\* type Tailer struct { Instances map[string]TailNode }.
Tailer == [Inst -> TailNode \cup {Absent}]

EmptyNode   == [c \in Child |-> Absent]
EmptyTailer == [i \in Inst |-> Absent]

ASSUME InitialOffsetIsOffset == InitialOffset \in Offset

\* Absent is a value of its own, none of the data.
ASSUME AbsentIsDistinct ==
  Absent \notin Offset /\ Absent \notin TailNode /\ Absent \notin Tailer
=============================================================================
