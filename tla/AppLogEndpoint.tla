---------------------------- MODULE AppLogEndpoint ----------------------------
(****************************************************************************)
(* applog_endpoint: websocket clients tail the log of an app through a      *)
(* temporary logyard drain (server.go, drain/, wsutil/).                    *)
(*                                                                          *)
(* A session is one request: the goroutine that runs tailHandlerWs or       *)
(* recentHandlerWs, the line server whose port the drain points at, the     *)
(* goroutine that stops the drain after its lifetime, and the connection.   *)
(* A port is identified with the session that has bound it.  Drains live in *)
(* logyard's configuration, under a name made of the app alone, and survive *)
(* a crash of this process.  logyard, lineserver and the websocket library  *)
(* are modelled by how this code uses them.                                 *)
(****************************************************************************)
CONSTANTS App,     \* app GUIDs
          Sess,    \* requests: bounds their number in one life of the process
          Absent,  \* no drain
          Orphan   \* a drain that points at a port of an earlier process

ASSUME DrainMarks == Absent \notin Sess /\ Orphan \notin Sess /\ Absent # Orphan

VARIABLES
  boot,      \* "down", "purge" (RemoveOrphanedDrains), "serve"
  drains,    \* logyard's drains by app: the session they point at
  app,       \* args.GUID of each request
  handler,   \* where its handler is
  fwd,       \* Forward reads the server's channel (TRUE) or a nil one
  timer,     \* its lifetime goroutine
  srv,       \* its line server
  conn,      \* its websocket connection is open
  undeleted  \* history: sessions whose DeleteDrain has failed

vars == <<boot, drains, app, handler, fwd, timer, srv, conn, undeleted>>

\* Where the handler is in a Send: the recent lines, a Fatalf that is followed by the
\* return, the Fatalf of a failed Start, and a line of Forward.
Sending == {"history", "fatal", "unstarted", "sending"}
Handler == {"idle", "args", "recent", "new", "start", "add", "forward", "remove", "kill",
            "wait", "done"} \cup Sending
Timer   == {"none", "waiting", "remove", "kill", "done"}
Server  == {"none", "bound", "up", "dying", "dead", "failed"}

TypeOK ==
  /\ boot \in {"down", "purge", "serve"}
  /\ drains \in [App -> Sess \cup {Absent, Orphan}]
  /\ app \in [Sess -> App]
  /\ handler \in [Sess -> Handler]
  /\ fwd \in [Sess -> BOOLEAN]
  /\ timer \in [Sess -> Timer]
  /\ srv \in [Sess -> Server]
  /\ conn \in [Sess -> BOOLEAN]
  /\ undeleted \subseteq Sess

Init ==
  /\ boot = "down"
  /\ drains = [a \in App |-> Absent]
  /\ app \in [Sess -> App]
  /\ handler = [s \in Sess |-> "idle"]
  /\ fwd = [s \in Sess |-> FALSE]
  /\ timer = [s \in Sess |-> "none"]
  /\ srv = [s \in Sess |-> "none"]
  /\ conn = [s \in Sess |-> FALSE]
  /\ undeleted = {}

At(s, v) == handler[s] = v
Goto(s, v) == handler' = [handler EXCEPT ![s] = v]

\* tomb.Kill: the first reason counts.
Kill(s) == srv' = [srv EXCEPT ![s] = IF @ = "up" THEN "dying" ELSE @]

\* DeleteDrain may fail, which is logged; the name it deletes is the app's.
removeDrain(s) ==
  \/ drains' = [drains EXCEPT ![app[s]] = Absent] /\ UNCHANGED undeleted
  \/ undeleted' = undeleted \cup {s} /\ UNCHANGED drains

-----------------------------------------------------------------------------
\* The process.

LoadConfig ==
  /\ boot = "down"
  /\ boot' = "purge"
  /\ UNCHANGED <<drains, app, handler, fwd, timer, srv, conn, undeleted>>

\* The drains that can not be deleted are left alone, with a warning.
RemoveOrphanedDrains ==
  /\ boot = "purge"
  /\ \E failing \in SUBSET App :
       drains' = [a \in App |-> IF a \in failing THEN drains[a] ELSE Absent]
  /\ boot' = "serve"
  /\ UNCHANGED <<app, handler, fwd, timer, srv, conn, undeleted>>

Crash ==
  /\ boot # "down"
  /\ boot' = "down"
  /\ drains' = [a \in App |-> IF drains[a] \in Sess THEN Orphan ELSE drains[a]]
  /\ app' \in [Sess -> App]
  /\ handler' = [s \in Sess |-> "idle"]
  /\ fwd' = [s \in Sess |-> FALSE]
  /\ timer' = [s \in Sess |-> "none"]
  /\ srv' = [s \in Sess |-> "none"]
  /\ conn' = [s \in Sess |-> FALSE]
  /\ undeleted' = {}

-----------------------------------------------------------------------------
\* The handlers.

\* An Upgrade that fails leaves no trace.
ServeHTTP(s) ==
  /\ boot = "serve"
  /\ At(s, "idle")
  /\ Goto(s, "args")
  /\ conn' = [conn EXCEPT ![s] = TRUE]
  /\ UNCHANGED <<boot, drains, app, fwd, timer, srv, undeleted>>

\* The return to ServeHTTP, which closes the connection.
Finish(s) == Goto(s, "done") /\ conn' = [conn EXCEPT ![s] = FALSE]

ParseArguments(s) ==
  /\ At(s, "args")
  /\ Goto(s, "recent") \/ Goto(s, "fatal")
  /\ UNCHANGED <<boot, drains, app, fwd, timer, srv, conn, undeleted>>

\* sendRecent is over: recentHandlerWs returns, tailHandlerWs goes on.
Served(s) == (Goto(s, "new") /\ UNCHANGED conn) \/ Finish(s)

\* The answer to the request for recent logs, which has no timeout: an error, lines to
\* send, or nothing to send.
recentLogs(s) ==
  /\ At(s, "recent")
  /\ \/ Goto(s, "fatal") /\ UNCHANGED conn
     \/ Goto(s, "history") /\ UNCHANGED conn
     \/ Served(s)
  /\ UNCHANGED <<boot, drains, app, fwd, timer, srv, undeleted>>

\* The Sends of the recent lines have returned.
sendRecent(s) ==
  /\ At(s, "history")
  /\ IF conn[s] THEN Served(s) ELSE Goto(s, "fatal") /\ UNCHANGED conn
  /\ UNCHANGED <<boot, drains, app, fwd, timer, srv, undeleted>>

\* The Send of Fatalf has returned, whatever came of it.  After a failed Start the handler
\* goes on to Forward, with a nil channel and a closed connection.
Fatalf(s) ==
  /\ \/ At(s, "fatal") /\ Finish(s)
     \/ At(s, "unstarted") /\ Goto(s, "forward") /\ conn' = [conn EXCEPT ![s] = FALSE]
  /\ UNCHANGED <<boot, drains, app, fwd, timer, srv, undeleted>>

\* A failure after NewLineServer (no address, bad lifetime) leaves the port bound.
NewAppLogDrain(s) ==
  /\ At(s, "new")
  /\ \/ Goto(s, "start") /\ srv' = [srv EXCEPT ![s] = "bound"]
     \/ Goto(s, "fatal") /\ \E v \in {"none", "bound"} : srv' = [srv EXCEPT ![s] = v]
  /\ UNCHANGED <<boot, drains, app, fwd, timer, conn, undeleted>>

\* go d.srv.Start()
StartServer(s) ==
  /\ At(s, "start")
  /\ srv' = [srv EXCEPT ![s] = "up"]
  /\ Goto(s, "add")
  /\ UNCHANGED <<boot, drains, app, fwd, timer, conn, undeleted>>

\* Mutant: the drain's URI made of the app's GUID instead of the port.
addDrainToApp(s) ==
  /\ At(s, "add")
  /\ drains' = [drains EXCEPT ![app[s]] = app[s]]
  /\ timer' = [timer EXCEPT ![s] = "waiting"]
  /\ fwd' = [fwd EXCEPT ![s] = TRUE]
  /\ Goto(s, "forward")
  /\ UNCHANGED <<boot, app, srv, conn, undeleted>>

\* addDrain takes the app's name, whoever had it.  When it fails there is no lifetime
\* goroutine and no channel.
addDrain(s) ==
  /\ At(s, "add")
  /\ \/ /\ drains' = [drains EXCEPT ![app[s]] = s]
        /\ timer' = [timer EXCEPT ![s] = "waiting"]
        /\ fwd' = [fwd EXCEPT ![s] = TRUE]
        /\ Goto(s, "forward")
     \/ Goto(s, "unstarted") /\ UNCHANGED <<drains, timer, fwd>>
  /\ UNCHANGED <<boot, app, srv, conn, undeleted>>

\* Forward: a line comes out of the server's channel and goes into Send.
ForwardLine(s) ==
  /\ At(s, "forward")
  /\ fwd[s]
  /\ srv[s] \in {"up", "dying"}
  /\ Goto(s, "sending")
  /\ UNCHANGED <<boot, drains, app, fwd, timer, srv, conn, undeleted>>

\* Forward: the Send of a line has returned.
ForwardSent(s) ==
  /\ At(s, "sending")
  /\ Goto(s, IF conn[s] THEN "forward" ELSE "remove")
  /\ UNCHANGED <<boot, drains, app, fwd, timer, srv, conn, undeleted>>

\* Forward: a ping on a closed connection.
ForwardFails(s) ==
  /\ At(s, "forward")
  /\ ~conn[s]
  /\ Goto(s, "remove")
  /\ UNCHANGED <<boot, drains, app, fwd, timer, srv, conn, undeleted>>

\* Forward: a ping that a client who does not read leaves no room for; it has a deadline
\* of a second.
PingTimesOut(s) ==
  /\ At(s, "forward")
  /\ conn[s]
  /\ Goto(s, "remove")
  /\ UNCHANGED <<boot, drains, app, fwd, timer, srv, conn, undeleted>>

\* Forward: the line server has closed its channel.  Stop is not called.
ForwardDone(s) ==
  /\ At(s, "forward")
  /\ fwd[s]
  /\ srv[s] \in {"dead", "failed"}
  /\ Goto(s, "wait")
  /\ UNCHANGED <<boot, drains, app, fwd, timer, srv, conn, undeleted>>

\* Mutant: the server is killed first.
StopRemoveLate(s) ==
  /\ At(s, "remove")
  /\ Kill(s)
  /\ Goto(s, "kill")
  /\ UNCHANGED <<boot, drains, app, fwd, timer, conn, undeleted>>

\* Stop, as the handler calls it: removeDrain, then Kill.
StopRemove(s) ==
  /\ At(s, "remove")
  /\ removeDrain(s)
  /\ Goto(s, "kill")
  /\ UNCHANGED <<boot, app, fwd, timer, srv, conn>>

\* Mutant: the server is only killed where the drain could be removed.
StopKillUnlessError(s) ==
  /\ At(s, "kill")
  /\ IF s \in undeleted THEN UNCHANGED srv ELSE Kill(s)
  /\ Goto(s, "wait")
  /\ UNCHANGED <<boot, drains, app, fwd, timer, conn, undeleted>>

StopKill(s) ==
  /\ At(s, "kill")
  /\ Kill(s)
  /\ Goto(s, "wait")
  /\ UNCHANGED <<boot, drains, app, fwd, timer, conn, undeleted>>

Wait(s) ==
  /\ At(s, "wait")
  /\ srv[s] \in {"dead", "failed"}
  /\ Finish(s)
  /\ UNCHANGED <<boot, drains, app, fwd, timer, srv, undeleted>>

-----------------------------------------------------------------------------
\* The lifetime goroutine of Start.

Move(s, v) == timer' = [timer EXCEPT ![s] = v]

\* Mutant: the lifetime of a drain is not watched.
LifetimeNever(s) ==
  /\ timer[s] = "waiting"
  /\ srv[s] = "dying"
  /\ Move(s, "remove")
  /\ UNCHANGED <<boot, drains, app, handler, fwd, srv, conn, undeleted>>

LifetimeOver(s) ==
  /\ timer[s] = "waiting"
  /\ Move(s, "remove")
  /\ UNCHANGED <<boot, drains, app, handler, fwd, srv, conn, undeleted>>

SeesDying(s) ==
  /\ timer[s] = "waiting"
  /\ srv[s] \in {"dying", "dead", "failed"}
  /\ Move(s, "done")
  /\ UNCHANGED <<boot, drains, app, handler, fwd, srv, conn, undeleted>>

LifetimeRemove(s) ==
  /\ timer[s] = "remove"
  /\ removeDrain(s)
  /\ Move(s, "kill")
  /\ UNCHANGED <<boot, app, handler, fwd, srv, conn>>

LifetimeKill(s) ==
  /\ timer[s] = "kill"
  /\ Kill(s)
  /\ Move(s, "done")
  /\ UNCHANGED <<boot, drains, app, handler, fwd, conn, undeleted>>

-----------------------------------------------------------------------------
\* The line server and the client.

ServerExits(s) ==
  /\ srv[s] = "dying"
  /\ srv' = [srv EXCEPT ![s] = "dead"]
  /\ UNCHANGED <<boot, drains, app, handler, fwd, timer, conn, undeleted>>

\* The server ends with an error of its own.
ServerFails(s) ==
  /\ srv[s] = "up"
  /\ srv' = [srv EXCEPT ![s] = "failed"]
  /\ UNCHANGED <<boot, drains, app, handler, fwd, timer, conn, undeleted>>

ClientLeaves(s) ==
  /\ conn[s]
  /\ conn' = [conn EXCEPT ![s] = FALSE]
  /\ UNCHANGED <<boot, drains, app, handler, fwd, timer, srv, undeleted>>

-----------------------------------------------------------------------------
HandlerStep(s) ==
  \/ ParseArguments(s) \/ recentLogs(s) \/ sendRecent(s) \/ Fatalf(s)
  \/ NewAppLogDrain(s) \/ StartServer(s) \/ addDrain(s)
  \/ ForwardSent(s) \/ ForwardFails(s) \/ ForwardDone(s)
  \/ StopRemove(s) \/ StopKill(s) \/ Wait(s)

TimerStep(s) == LifetimeOver(s) \/ SeesDying(s) \/ LifetimeRemove(s) \/ LifetimeKill(s)

Next ==
  \/ LoadConfig \/ RemoveOrphanedDrains \/ Crash
  \/ \E s \in Sess :
       \/ ServeHTTP(s) \/ HandlerStep(s) \/ TimerStep(s)
       \/ ForwardLine(s) \/ PingTimesOut(s)
       \/ ServerExits(s) \/ ServerFails(s) \/ ClientLeaves(s)

Spec == Init /\ [][Next]_vars

\* The handler waits for someone else: for the answer to its request for recent logs, or in
\* a Send for a connected client to read.  Neither has a deadline.
Held(s) == At(s, "recent") \/ (handler[s] \in Sending /\ conn[s])

\* Goroutines that can run do, the lifetime passes, and a killed server exits.
\* Forward pings every second, so it notices a closed connection.
FairSpec ==
  /\ Spec
  /\ \A s \in Sess :
       WF_vars(~Held(s) /\ HandlerStep(s)) /\ WF_vars(TimerStep(s)) /\ WF_vars(ServerExits(s))

-----------------------------------------------------------------------------
\* Properties.

\* A drain never points at a port whose server is gone, which the next server may get
\* for another app: Stop removes the drain before it kills the server, whichever of the
\* two goroutines calls it and however often.  Left aside are servers that fail by
\* themselves and removals that fail.
DrainHasServer ==
  \A a \in App : drains[a] \in Sess =>
    \/ srv[drains[a]] = "up"
    \/ srv[drains[a]] = "failed"
    \/ drains[a] \in undeleted

\* server.go: "We expect drain.Wait to not block at this point": when the handler gets
\* to Wait, its server has been killed or has died, on the path of a failed Start too.
WaitDoesNotBlock ==
  \A s \in Sess : At(s, "wait") => srv[s] \in {"dying", "dead", "failed"}

\* Every request ends, at the latest after the lifetime of its drain, even with a client
\* that never leaves.  Two waits have no deadline and may hold it for ever: the request for
\* recent logs, and a Send to a connected client that does not read.
SessionsEnd ==
  \A s \in Sess :
    \/ handler[s] \notin {"idle", "done"} ~> handler[s] \in {"idle", "done"}
    \/ <>[]Held(s)

\* drain/app_log_drain.go: "Keep the drain alive for this long": a drain is gone some
\* time after it has been added, also with a client that stays, provided it can be
\* deleted.  Left aside is a server that fails by itself: Forward then ends without
\* Stop, the lifetime goroutine sees Dying, and the drain stays.
DrainLifetimeEnds ==
  \A a \in App, s \in Sess :
    drains[a] = s ~> drains[a] # s \/ s \in undeleted \/ srv[s] = "failed"
=============================================================================
