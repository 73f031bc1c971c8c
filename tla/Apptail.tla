-------------------------------- MODULE Apptail --------------------------------
(****************************************************************************)
(* One life of the apptail process, from LoadTailers on: how containers are *)
(* announced, tailed and let go (cmd/apptail/main.go, instance.go,          *)
(* docker/listener.go, docker_events.go).  A restart is another behaviour:  *)
(* the cursors LoadTailers finds and the state of the containers are        *)
(* arbitrary.                                                               *)
(*                                                                          *)
(* Every call of Instance.Tail is a session with three goroutines: the one  *)
(* that runs Tail and then deletes the entry in started_instances, one that *)
(* tails the log file, if there is a valid one, and one that waits for the  *)
(* container to exit; and with the loop of its pubch, which takes the       *)
(* timeline events the second one sends.  The tracker they share is         *)
(* CursorMap, whose operations are atomic steps.                            *)
(* The DEA, NATS and docker are modelled by how this code uses them.        *)
(****************************************************************************)
EXTENDS CursorMap, Naturals

CONSTANTS Sess,       \* sessions: bounds the number of calls of Tail
          File,       \* the log file of each container, the only member of Child
          IOFaults,   \* the sessions whose log file may be large, missing or fail
          RETRY,      \* GETs of GetLiveDockerContainers
          MaxEvents   \* bound: undelivered stop events of a container that count

ASSUME FileIsChild == File \in Child
ASSUME FaultsOfSessions == IOFaults \subseteq Sess
ASSUME SessBounds == RETRY \in Nat /\ MaxEvents \in Nat

VARIABLES
  boot,      \* how far main has come
  gets,      \* GETs done by GetLiveDockerContainers
  allIds,    \* allDockerIds, what they returned
  life,      \* docker: each container is "created", "running" or "dead"
  msgs,      \* NATS: undelivered newinstance messages of each container
  stream,    \* the docker event stream
  events,    \* stop events (die, kill) in it, for each container
  started,   \* started_instances
  waiters,   \* dockerListener.waiters: the session whose channel is there, or Absent
  sess       \* the sessions, or Absent

bootVars   == <<boot, gets, allIds>>
dockerVars == <<life, stream, events>>
vars == <<cmVars, bootVars, dockerVars, msgs, started, waiters, sess>>

Session == [cont : Inst,
            main : {"register", "spawn", "delete", "done"},
            tail : {"none", "check", "get", "large", "init", "read", "failing", "ended"},
            loop : {"delay", "range", "gone"},
            wait : {"none", "add", "blocked", "close", "remove", "done"}]

ASSUME AbsentIsNoSession == Absent \notin Sess /\ Absent \notin Session

TypeOK ==
  /\ CMTypeOK
  /\ boot \in {"load", "subscribe", "start", "listen", "list", "done"}
  /\ gets \in 0..RETRY
  /\ allIds \subseteq Inst
  /\ life \in [Inst -> {"created", "running", "dead"}]
  /\ msgs \in [Inst -> 0..2]
  /\ stream \in {"none", "connecting", "open", "closed"}
  /\ events \in [Inst -> 0..MaxEvents]
  /\ started \subseteq Inst
  /\ waiters \in [Inst -> Sess \cup {Absent}]
  /\ sess \in [Sess -> Session \cup {Absent}]

Init ==
  /\ CMInit
  /\ boot = "load"
  /\ gets = 0
  /\ allIds = {}
  /\ life \in [Inst -> {"created", "running", "dead"}]
  /\ msgs = [c \in Inst |-> 0]
  /\ stream = "none"
  /\ events = [c \in Inst |-> 0]
  /\ started = {}
  /\ waiters = [c \in Inst |-> Absent]
  /\ sess = [s \in Sess |-> Absent]

Running == {c \in Inst : life[c] = "running"}
Sessions(c) == {s \in Sess : sess[s] # Absent /\ sess[s].cont = c}
Subscribed == boot \notin {"load", "subscribe"}

\* A step of one of the three goroutines of session s.
Main(s, v) == sess' = [sess EXCEPT ![s].main = v]
Tail(s, v) == sess' = [sess EXCEPT ![s].tail = v]
Wait(s, v) == sess' = [sess EXCEPT ![s].wait = v]

-----------------------------------------------------------------------------
\* main.

Load ==
  /\ boot = "load"
  /\ LoadTailers
  /\ boot' = "subscribe"
  /\ UNCHANGED <<gets, allIds, dockerVars, msgs, started, waiters, sess>>

Subscribe ==
  /\ boot = "subscribe"
  /\ boot' = "start"
  /\ UNCHANGED <<cmVars, gets, allIds, dockerVars, msgs, started, waiters, sess>>

\* The DEA answers the start message with one newinstance per running container.
PublishStart ==
  /\ running
  /\ boot = "start"
  /\ msgs' = [c \in Inst |-> IF c \in Running THEN msgs[c] + 1 ELSE msgs[c]]
  /\ boot' = "listen"
  /\ UNCHANGED <<cmVars, gets, allIds, dockerVars, started, waiters, sess>>

GoListen ==
  /\ running
  /\ boot = "listen"
  /\ stream' = "connecting"
  /\ boot' = "list"
  /\ UNCHANGED <<cmVars, gets, allIds, life, msgs, events, started, waiters, sess>>

\* Mutant: one request too many.
GetLiveTooOften ==
  /\ running
  /\ boot = "list"
  /\ gets <= RETRY
  /\ gets' = gets + 1
  /\ allIds' = allIds \cup Running
  /\ UNCHANGED <<cmVars, boot, dockerVars, msgs, started, waiters, sess>>

\* All RETRY requests are made, also after one has succeeded.
GetLiveDockerContainers ==
  /\ running
  /\ boot = "list"
  /\ gets < RETRY
  /\ gets' = gets + 1
  /\ allIds' = allIds \cup Running
  /\ UNCHANGED <<cmVars, boot, dockerVars, msgs, started, waiters, sess>>

TrackerCleanUp ==
  /\ running
  /\ boot = "list"
  /\ gets = RETRY
  /\ boot' = "done"
  /\ \/ allIds # {} /\ Delete(Inst \ allIds)
     \/ allIds = {} /\ UNCHANGED cmVars
  /\ UNCHANGED <<gets, allIds, dockerVars, msgs, started, waiters, sess>>

\* The process ends, and its goroutines and their data with it.
Exit ==
  /\ Halt
  /\ started' = {}
  /\ waiters' = [c \in Inst |-> Absent]
  /\ sess' = [s \in Sess |-> Absent]
  /\ UNCHANGED <<bootVars, dockerVars, msgs>>

\* A request to docker fails for good: log.Fatal, or the panic on a nil response.
DockerFails ==
  /\ \/ boot = "list" /\ gets < RETRY
     \/ stream \in {"connecting", "open"}
  /\ Exit

-----------------------------------------------------------------------------
\* The subscription, and Instance.Tail.

\* Mutant: the answer of checkInstanceAndUpdate ignored.
NewInstanceAlways(c, s) ==
  /\ running
  /\ Subscribed
  /\ msgs[c] > 0
  /\ sess[s] = Absent
  /\ msgs' = [msgs EXCEPT ![c] = @ - 1]
  /\ started' = started \cup {c}
  /\ sess' = [sess EXCEPT ![s] = [cont |-> c, main |-> "register",
                                  tail |-> "none", loop |-> "delay", wait |-> "none"]]
  /\ UNCHANGED <<cmVars, bootVars, dockerVars, waiters>>

\* The callback: checkInstanceAndUpdate, and a goroutine for Tail if it says so.
NewInstance(c, s) ==
  /\ running
  /\ Subscribed
  /\ msgs[c] > 0
  /\ sess[s] = Absent
  /\ msgs' = [msgs EXCEPT ![c] = @ - 1]
  /\ \/ /\ c \notin started
        /\ started' = started \cup {c}
        /\ sess' = [sess EXCEPT ![s] = [cont |-> c, main |-> "register",
                                        tail |-> "none", loop |-> "delay", wait |-> "none"]]
     \/ c \in started /\ UNCHANGED <<started, sess>>
  /\ UNCHANGED <<cmVars, bootVars, dockerVars, waiters>>

\* A call of RegisterInstance or InitializeChildNode may have nothing to do.
CallRegister(c) == RegisterInstance(c) \/ (IsInstanceRegistered(c) /\ UNCHANGED cmVars)

CallInitialize(c) ==
  \/ InitializeChildNode(c, File, InitialOffset)
  \/ /\ ~IsInstanceRegistered(c) \/ IsChildNodeInitialized(c, File)
     /\ UNCHANGED cmVars

\* Mutant: a container that is registered is taken for one that is being tailed.
RegisterSkipsKnown(s) ==
  /\ running
  /\ sess[s].main = "register"
  /\ CallRegister(sess[s].cont)
  /\ Main(s, IF IsInstanceRegistered(sess[s].cont) THEN "delete" ELSE "spawn")
  /\ UNCHANGED <<bootVars, dockerVars, msgs, started, waiters>>

Register(s) ==
  /\ running
  /\ sess[s].main = "register"
  /\ CallRegister(sess[s].cont)
  /\ Main(s, "spawn")
  /\ UNCHANGED <<bootVars, dockerVars, msgs, started, waiters>>

\* The go statements of Tail: none for the log file where getLogFiles has found no valid one.
Spawn(s) ==
  /\ running
  /\ sess[s].main = "spawn"
  /\ \E first \in {"check", "none"} :
       sess' = [sess EXCEPT ![s].main = "delete", ![s].tail = first, ![s].wait = "add"]
  /\ UNCHANGED <<cmVars, bootVars, dockerVars, msgs, started, waiters>>

DeleteStarted(s) ==
  /\ running
  /\ sess[s].main = "delete"
  /\ started' = started \ {sess[s].cont}
  /\ Main(s, "done")
  /\ UNCHANGED <<cmVars, bootVars, dockerVars, msgs, waiters>>

-----------------------------------------------------------------------------
\* tailFile and readFromTail; the reading itself is TailFile's subject.

\* The goroutine goes on, or has an event to send.
OrSends(s, next, sends) == {next} \cup (IF s \in IOFaults THEN sends ELSE {})

\* Without a cursor getReadLimit looks at the file: it may be large or not to be found.
CheckCursor(s) ==
  /\ running
  /\ sess[s].tail = "check"
  /\ \/ IsChildNodeInitialized(sess[s].cont, File) /\ Tail(s, "get")
     \/ ~IsChildNodeInitialized(sess[s].cont, File)
          /\ \E next \in OrSends(s, "init", {"large", "failing"}) : Tail(s, next)
  /\ UNCHANGED <<cmVars, bootVars, dockerVars, msgs, started, waiters>>

\* GetFileCachedOffset dereferences the box of a registered container unseen.
GetCursor(s) ==
  /\ running
  /\ sess[s].tail = "get"
  /\ LET c == sess[s].cont
     IN  \/ /\ ~IsInstanceRegistered(c) \/ IsChildNodeInitialized(c, File)
            /\ \E next \in OrSends(s, "read", {"failing"}) : Tail(s, next)
            /\ UNCHANGED <<cmVars, bootVars, dockerVars, msgs, started, waiters>>
         \/ /\ IsInstanceRegistered(c) /\ ~IsChildNodeInitialized(c, File)
            /\ Exit

\* Mutant: InitializeChildNode registers a container it does not know.
InitCursorAnyway(s) ==
  /\ running
  /\ sess[s].tail = "init"
  /\ cache' = [cache EXCEPT ![sess[s].cont] = [f \in Child |-> InitialOffset]]
  /\ \E next \in OrSends(s, "read", {"failing"}) : Tail(s, next)
  /\ UNCHANGED <<running, bootVars, dockerVars, msgs, started, waiters>>

InitCursor(s) ==
  /\ running
  /\ sess[s].tail = "init"
  /\ CallInitialize(sess[s].cont)
  /\ \E next \in OrSends(s, "read", {"failing"}) : Tail(s, next)
  /\ UNCHANGED <<bootVars, dockerVars, msgs, started, waiters>>

\* stopCh is closed once the waiting goroutine is past its close.
Stopped(s) == sess[s].wait \in {"remove", "done"}

\* tail gives up, with an error or, as its file was deleted, without one.
TailDies(s) ==
  /\ running
  /\ sess[s].tail = "read"
  /\ \E next \in OrSends(s, "ended", {"failing"}) : Tail(s, next)
  /\ UNCHANGED <<cmVars, bootVars, dockerVars, msgs, started, waiters>>

\* t.Stop returns the error tail has died of, if it has.
StopRead(s) ==
  /\ running
  /\ sess[s].tail = "read"
  /\ Stopped(s)
  /\ \E next \in OrSends(s, "ended", {"failing"}) : Tail(s, next)
  /\ UNCHANGED <<cmVars, bootVars, dockerVars, msgs, started, waiters>>

\* SendTimelineEvent, on the unbuffered pubch.Ch: of a large file, after which tailFile
\* goes on, or of an error, after which it returns.
Sending(s) == sess[s].tail \in {"large", "failing"}

\* The loop receives once its first 100 ms are over ...
LoopPublishes(s) ==
  /\ running
  /\ Sending(s)
  /\ sess[s].loop # "gone"
  /\ sess' = [sess EXCEPT ![s].tail = IF @ = "large" THEN "init" ELSE "ended",
                          ![s].loop = "range"]
  /\ UNCHANGED <<cmVars, bootVars, dockerVars, msgs, started, waiters>>

\* ... unless the session is stopped before: then it returns.
LoopStopped(s) ==
  /\ running
  /\ Sending(s)
  /\ sess[s].loop = "delay"
  /\ Stopped(s)
  /\ sess' = [sess EXCEPT ![s].loop = "gone"]
  /\ UNCHANGED <<cmVars, bootVars, dockerVars, msgs, started, waiters>>

-----------------------------------------------------------------------------
\* The waiting goroutine: BlockUntilContainerStops, close(stopCh), Remove.

\* A second waiter for a container is not entered, and blocks all the same.
AddWaiter(s) ==
  /\ running
  /\ sess[s].wait = "add"
  /\ LET c == sess[s].cont
     IN  waiters' = IF waiters[c] = Absent THEN [waiters EXCEPT ![c] = s] ELSE waiters
  /\ Wait(s, "blocked")
  /\ UNCHANGED <<cmVars, bootVars, dockerVars, msgs, started>>

CloseStop(s) ==
  /\ running
  /\ sess[s].wait = "close"
  /\ Wait(s, "remove")
  /\ UNCHANGED <<cmVars, bootVars, dockerVars, msgs, started, waiters>>

Remove(s) ==
  /\ running
  /\ sess[s].wait = "remove"
  /\ Delete({sess[s].cont})
  /\ Wait(s, "done")
  /\ UNCHANGED <<bootVars, dockerVars, msgs, started, waiters>>

-----------------------------------------------------------------------------
\* The docker event stream and dockerListener.Listen.

Connect ==
  /\ running
  /\ stream = "connecting"
  /\ stream' = "open"
  /\ UNCHANGED <<cmVars, bootVars, life, msgs, events, started, waiters, sess>>

\* The stream ends: Listen returns and nobody notices.
StreamEnds ==
  /\ running
  /\ stream = "open"
  /\ \A c \in Inst : events[c] = 0
  /\ stream' = "closed"
  /\ UNCHANGED <<cmVars, bootVars, life, msgs, events, started, waiters, sess>>

\* Mutant: the waiter's entry is not deleted.
ListenKeepsWaiter(c) ==
  /\ running
  /\ stream = "open"
  /\ events[c] > 0
  /\ events' = [events EXCEPT ![c] = @ - 1]
  /\ sess' = IF waiters[c] = Absent THEN sess
             ELSE [sess EXCEPT ![waiters[c]].wait = "close"]
  /\ UNCHANGED <<cmVars, bootVars, life, msgs, stream, started, waiters>>

\* Mutant: the channel is not closed.
ListenKeepsQuiet(c) ==
  /\ running
  /\ stream = "open"
  /\ events[c] > 0
  /\ events' = [events EXCEPT ![c] = @ - 1]
  /\ waiters' = [waiters EXCEPT ![c] = Absent]
  /\ UNCHANGED <<cmVars, bootVars, life, msgs, stream, started, sess>>

\* A die or kill event: close the channel of the waiter, if there is one.
Listen(c) ==
  /\ running
  /\ stream = "open"
  /\ events[c] > 0
  /\ events' = [events EXCEPT ![c] = @ - 1]
  /\ waiters' = [waiters EXCEPT ![c] = Absent]
  /\ sess' = IF waiters[c] = Absent THEN sess
             ELSE [sess EXCEPT ![waiters[c]].wait = "close"]
  /\ UNCHANGED <<cmVars, bootVars, life, msgs, stream, started>>

-----------------------------------------------------------------------------
\* The containers: only those who listen hear of them.

StartContainer(c) ==
  /\ running
  /\ life[c] = "created"
  /\ life' = [life EXCEPT ![c] = "running"]
  /\ msgs' = IF Subscribed THEN [msgs EXCEPT ![c] = @ + 1] ELSE msgs
  /\ UNCHANGED <<cmVars, bootVars, stream, events, started, waiters, sess>>

\* Undelivered events beyond MaxEvents are not told apart.
EmitStop(c) ==
  events' = IF stream = "open" /\ events[c] < MaxEvents
            THEN [events EXCEPT ![c] = @ + 1] ELSE events

KillContainer(c) ==
  /\ running
  /\ life[c] = "running"
  /\ EmitStop(c)
  /\ UNCHANGED <<cmVars, bootVars, life, msgs, stream, started, waiters, sess>>

ContainerDies(c) ==
  /\ running
  /\ life[c] = "running"
  /\ life' = [life EXCEPT ![c] = "dead"]
  /\ EmitStop(c)
  /\ UNCHANGED <<cmVars, bootVars, msgs, stream, started, waiters, sess>>

-----------------------------------------------------------------------------
MainStep == Load \/ Subscribe \/ PublishStart \/ GoListen \/ GetLiveDockerContainers
              \/ TrackerCleanUp

SetupStep(s) == Register(s) \/ Spawn(s) \/ DeleteStarted(s)
TailStep(s)  == CheckCursor(s) \/ GetCursor(s) \/ InitCursor(s) \/ StopRead(s)
LoopStep(s)  == LoopPublishes(s) \/ LoopStopped(s)
WaitStep(s)  == AddWaiter(s) \/ CloseStop(s) \/ Remove(s)

SessionStep(s) ==
  /\ sess[s] # Absent
  /\ SetupStep(s) \/ TailStep(s) \/ TailDies(s) \/ LoopStep(s) \/ WaitStep(s)

Next ==
  \/ MainStep
  \/ DockerFails
  \/ \E c \in Inst, s \in Sess : NewInstance(c, s)
  \/ \E s \in Sess : SessionStep(s)
  \/ Connect \/ StreamEnds
  \/ \E c \in Inst : Listen(c)
  \/ \E c \in Inst : StartContainer(c) \/ KillContainer(c) \/ ContainerDies(c)

Spec == Init /\ [][Next]_vars

\* The Go scheduler runs every goroutine that can run, NATS and docker deliver.
FairSpec ==
  /\ Spec
  /\ WF_vars(MainStep)
  /\ WF_vars(Connect)
  /\ \A c \in Inst : WF_vars(Listen(c)) /\ WF_vars(\E s \in Sess : NewInstance(c, s))
  /\ \A s \in Sess :
       /\ WF_vars(sess[s] # Absent /\ SetupStep(s))
       /\ WF_vars(sess[s] # Absent /\ TailStep(s))
       /\ WF_vars(sess[s] # Absent /\ LoopStep(s))
       /\ WF_vars(sess[s] # Absent /\ WaitStep(s))

-----------------------------------------------------------------------------
\* Properties.

InSetup(c) == {s \in Sessions(c) : sess[s].main # "done"}

\* started_instances is exact: while a container is in it one call of Tail is setting
\* up its tailing, never two, and a container that is not in it can be tailed again.
OneSetupPerContainer ==
  \A c \in Inst :
    /\ c \in started <=> InSetup(c) # {}
    /\ \A s, t \in InSetup(c) : s = t

\* The channel in waiters belongs to a goroutine that is still blocked on it: Listen
\* never closes a channel twice, which would end apptail with a panic.
ChannelClosedOnce ==
  \A c \in Inst : waiters[c] # Absent =>
    waiters[c] \in Sessions(c) /\ sess[waiters[c]].wait = "blocked"

\* When the last session of a container has let go of it, its cursor is gone, however
\* late its tailing goroutine gets to InitializeChildNode.
CursorGoneAfterLastSession ==
  \A c \in Inst :
    Sessions(c) # {} /\ (\A s \in Sessions(c) : sess[s].wait = "done")
      => ~IsInstanceRegistered(c)

HasStopped(s) == sess[s] # Absent /\ sess[s].wait = "done"

\* The tailing goroutine sends an event that nobody will receive: the session was stopped
\* in the first 100 ms of its pubch.
Stuck(s) == Sending(s) /\ sess[s].loop = "gone"

\* A stop event that finds the container's waiter in place ends that session: its cursor
\* is removed and its tailing goroutine stops, if it has one, but for one that is stuck in
\* SendTimelineEvent because the session was stopped in the first 100 ms of its pubch.
NotifiedSessionEnds ==
  \A c \in Inst, s \in Sess :
    waiters[c] = s /\ events[c] > 0
      ~> ~running \/ (HasStopped(s) /\ (sess[s].tail \in {"none", "ended"} \/ Stuck(s)))

\* A container that is announced gets a session that comes to read its log file or to
\* find that it can not be read, or has no valid log file; unless the session is stopped
\* in its first 100 ms and its tailing goroutine stuck in SendTimelineEvent.
AnnouncedIsTailed ==
  \A c \in Inst :
    Subscribed /\ msgs[c] > 0
      ~> \/ ~running
         \/ \E s \in Sessions(c) :
              \/ sess[s].tail \in {"read", "ended"} \/ Stuck(s)
              \/ sess[s].tail = "none" /\ sess[s].wait # "none"

\* etc/apptail.yml promises "to retain the position of cursor in tail while restarting
\* apptail/crashing": a log file of a running container that is being tailed has a
\* cursor to retain.
CursorWhileTailing ==
  \A s \in Sess :
    running /\ sess[s] # Absent /\ sess[s].tail = "read" /\ life[sess[s].cont] = "running"
      => IsChildNodeInitialized(sess[s].cont, File)

\* docker/listener.go: "Notify container stop events by closing the appropriate ch":
\* a stop event in the stream ends the session its container has.
StopIsNotified ==
  \A s \in Sess :
    sess[s] # Absent /\ events[sess[s].cont] > 0 ~> ~running \/ HasStopped(s)
=============================================================================
