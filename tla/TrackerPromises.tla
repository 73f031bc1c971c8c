---------------------------- MODULE TrackerPromises ----------------------------
(***************************************************************************)
(* TailTracker with history variables, to state what the repository        *)
(* promises about the state file to those who call Commit and Remove.      *)
(***************************************************************************)
EXTENDS TailTracker

VARIABLES saved,    \* a Commit has returned with success, in this process or an earlier one
          target,   \* the container a worker's last Remove took out, Absent once it is registered anew
          removed   \* containers whose Remove has returned, and not registered since

historyVars == <<vars, saved, target, removed>>

HInit ==
  /\ Init
  /\ saved = FALSE
  /\ target = [w \in Worker |-> Absent]
  /\ removed = {}

\* The goroutine whose Commit returns with success in this step.
Returns(p) == Chmod(p)

\* The container is not registered by this step, which is no restart either.
StaysAway(i) == up' /\ Instances'[i] = Absent

HNext ==
  /\ Next
  /\ saved' = (saved \/ \E p \in Proc : Returns(p))
  /\ target' = [w \in Worker |->
                  CASE \E i \in Inst : Remove(w, i) -> CHOOSE i \in Inst : Remove(w, i)
                    [] target[w] # Absent /\ ~StaysAway(target[w]) -> Absent
                    [] OTHER -> target[w]]
  /\ removed' = {i \in removed \cup {target[w] : w \in {v \in Worker : Returns(v)}} :
                   i # Absent /\ StaysAway(i)}

HSpec == HInit /\ [][HNext]_historyVars

\* etc/apptail.yml: persisting the position "allows to retain the position of
\* cursor in tail while restarting apptail/crashing": once a Commit has succeeded,
\* whatever process starts next finds a state file it can decode.
PositionRetained == saved /\ ~up => file \in Tailer

\* TestRemove_CalledWithCorrectKey_ItShouldAlsoRemoveFromFile: after Remove has
\* returned the container is not in the state file, unless it is registered anew.
RemoveAlsoRemovesFromFile == \A i \in removed : ~InFile(i)
=============================================================================
