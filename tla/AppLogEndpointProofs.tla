------------------------- MODULE AppLogEndpointProofs -------------------------
(*****************************************************************************)
(* Proofs about AppLogEndpoint for any number of apps and requests: types,   *)
(* no drain points at a port that has been given up, the handler never waits *)
(* for a server nobody has stopped, and every drain has a lifetime goroutine *)
(* that is going to remove it.                                               *)
(*****************************************************************************)
EXTENDS AppLogEndpoint, TLAPS

Early == {"idle", "args", "recent", "history", "fatal", "new", "start", "add"}

\* A request has a drain and a lifetime goroutine only after addDrain, and its drain
\* bears the name of its app.
DrainIsOwn ==
  /\ \A a \in App, s \in Sess : drains[a] = s => app[s] = a /\ handler[s] \notin Early
  /\ \A s \in Sess : handler[s] \in Early => timer[s] = "none"

\* Whoever is about to kill the server has removed the drain, or failed to.
RemovedBeforeKill ==
  \A s \in Sess : (handler[s] = "kill" \/ timer[s] = "kill") =>
    s \in undeleted \/ \A a \in App : drains[a] # s

\* From addDrain to Wait there is a server: started, killed or dead.
ServerStarted ==
  \A s \in Sess :
    /\ handler[s] \in {"unstarted", "forward", "sending", "remove", "kill", "wait"}
         => srv[s] \in {"up", "dying", "dead", "failed"}
    /\ handler[s] = "add" => srv[s] \in {"up", "failed"}

EInv ==
  /\ TypeOK
  /\ DrainIsOwn
  /\ RemovedBeforeKill
  /\ ServerStarted
  /\ DrainHasServer
  /\ WaitDoesNotBlock

-----------------------------------------------------------------------------
LEMMA InitEstablishes == Init => EInv
BY DrainMarks DEF Init, EInv, TypeOK, Handler, Sending, Timer, Server, DrainIsOwn, Early,
   RemovedBeforeKill, ServerStarted, DrainHasServer, WaitDoesNotBlock, At

LEMMA ProcessPreserves ==
  ASSUME EInv, LoadConfig \/ RemoveOrphanedDrains \/ Crash
  PROVE  EInv'
<1> USE DrainMarks DEF EInv, TypeOK, DrainIsOwn, Early, RemovedBeforeKill, ServerStarted,
        DrainHasServer, WaitDoesNotBlock, At
<1>1. CASE LoadConfig
  BY <1>1 DEF LoadConfig
<1>2. CASE RemoveOrphanedDrains
  BY <1>2 DEF RemoveOrphanedDrains
<1>3. CASE Crash
  BY <1>3 DEF Crash, Handler, Sending, Timer, Server
<1> QED
  BY <1>1, <1>2, <1>3

\* removeDrain: what it leaves in logyard's configuration.
LEMMA RemovedDrain ==
  ASSUME EInv, NEW s \in Sess, removeDrain(s)
  PROVE  /\ drains' \in [App -> Sess \cup {Absent, Orphan}]
         /\ undeleted' \subseteq Sess /\ undeleted \subseteq undeleted'
         /\ \A a \in App : drains'[a] \in Sess => drains'[a] = drains[a]
         /\ s \in undeleted' \/ \A a \in App : drains'[a] # s
BY DrainMarks DEF removeDrain, EInv, TypeOK, DrainIsOwn

\* A step of the handler before it has a drain.
LEMMA SetupPreserves ==
  ASSUME EInv, NEW s \in Sess,
         \/ ServeHTTP(s) \/ ParseArguments(s) \/ recentLogs(s) \/ sendRecent(s)
         \/ (At(s, "fatal") /\ Fatalf(s)) \/ NewAppLogDrain(s) \/ StartServer(s)
  PROVE  EInv'
<1>1. /\ handler' \in [Sess -> Handler] /\ handler[s] \in Early \ {"add"}
      /\ \A t \in Sess \ {s} : handler'[t] = handler[t] /\ srv'[t] = srv[t]
      /\ handler'[s] \in {"args", "recent", "history", "fatal", "new", "start", "add", "done"}
      /\ srv' \in [Sess -> Server] /\ conn' \in [Sess -> BOOLEAN]
      /\ handler'[s] = "add" => srv'[s] = "up"
      /\ UNCHANGED <<boot, drains, app, fwd, timer, undeleted>>
  BY DEF ServeHTTP, ParseArguments, recentLogs, sendRecent, Served, Fatalf, NewAppLogDrain,
     StartServer, Finish, Goto, At, EInv, TypeOK, Handler, Sending, Server, Early
<1>2. TypeOK'
  BY <1>1 DEF EInv, TypeOK
<1>3. DrainIsOwn' /\ RemovedBeforeKill' /\ ServerStarted'
  BY <1>1 DEF EInv, TypeOK, DrainIsOwn, Early, RemovedBeforeKill, ServerStarted
<1>4. DrainHasServer' /\ WaitDoesNotBlock'
  BY <1>1 DEF EInv, TypeOK, DrainIsOwn, Early, DrainHasServer, WaitDoesNotBlock, At
<1> QED
  BY <1>2, <1>3, <1>4 DEF EInv

LEMMA addDrainPreserves ==
  ASSUME EInv, NEW s \in Sess, addDrain(s)
  PROVE  EInv'
<1>1. TypeOK'
  <2>1. fwd' \in [Sess -> BOOLEAN] /\ conn' \in [Sess -> BOOLEAN]
    BY DEF addDrain, EInv, TypeOK
  <2>2. drains' \in [App -> Sess \cup {Absent, Orphan}]
    BY DEF addDrain, EInv, TypeOK
  <2>3. handler' \in [Sess -> Handler] /\ timer' \in [Sess -> Timer]
    BY DEF addDrain, Goto, EInv, TypeOK, Handler, Sending, Timer
  <2> QED
    BY <2>1, <2>2, <2>3 DEF addDrain, EInv, TypeOK
<1>2. DrainIsOwn' /\ RemovedBeforeKill' /\ ServerStarted'
  BY DrainMarks DEF addDrain, Goto, At, EInv, TypeOK, DrainIsOwn, Early, RemovedBeforeKill,
     ServerStarted
<1>3. DrainHasServer' /\ WaitDoesNotBlock'
  BY DrainMarks DEF addDrain, Goto, At, EInv, TypeOK, DrainHasServer, WaitDoesNotBlock,
     ServerStarted
<1> QED
  BY <1>1, <1>2, <1>3 DEF EInv

\* Forward, Stop and Wait.
LEMMA ServicePreserves ==
  ASSUME EInv, NEW s \in Sess,
         \/ (At(s, "unstarted") /\ Fatalf(s))
         \/ ForwardLine(s) \/ ForwardSent(s) \/ ForwardFails(s) \/ PingTimesOut(s)
         \/ ForwardDone(s) \/ StopRemove(s) \/ StopKill(s) \/ Wait(s)
  PROVE  EInv'
<1>1. CASE \/ (At(s, "unstarted") /\ Fatalf(s))
           \/ ForwardLine(s) \/ ForwardSent(s) \/ ForwardFails(s) \/ PingTimesOut(s)
           \/ ForwardDone(s) \/ Wait(s)
  <2>1. /\ handler' \in [Sess -> Handler] /\ conn' \in [Sess -> BOOLEAN]
        /\ handler[s] \in {"unstarted", "forward", "sending", "wait"}
        /\ handler'[s] \in {"forward", "sending", "remove", "wait", "done"}
        /\ handler'[s] = "wait" => srv[s] \in {"dead", "failed"}
        /\ \A t \in Sess \ {s} : handler'[t] = handler[t]
        /\ UNCHANGED <<boot, drains, app, fwd, timer, srv, undeleted>>
    BY <1>1 DEF Fatalf, ForwardLine, ForwardSent, ForwardFails, PingTimesOut, ForwardDone,
       Wait, Finish, Goto, At, EInv, TypeOK, Handler, Sending
  <2> QED
    BY <2>1 DEF At, EInv, TypeOK, DrainIsOwn, Early, RemovedBeforeKill, ServerStarted,
       DrainHasServer, WaitDoesNotBlock
<1>2. CASE StopRemove(s)
  BY <1>2, RemovedDrain DEF StopRemove, Goto, At, EInv, TypeOK, Handler,
     DrainIsOwn, Early, RemovedBeforeKill, ServerStarted, DrainHasServer, WaitDoesNotBlock
<1>3. CASE StopKill(s)
  BY <1>3 DEF StopKill, Kill, Goto, At, EInv, TypeOK, Handler, Sending, Server,
     DrainIsOwn, Early, RemovedBeforeKill, ServerStarted, DrainHasServer, WaitDoesNotBlock
<1> QED
  BY <1>1, <1>2, <1>3

LEMMA TimerPreserves ==
  ASSUME EInv, NEW s \in Sess, TimerStep(s)
  PROVE  EInv'
<1>1. CASE LifetimeOver(s) \/ SeesDying(s)
  BY <1>1 DEF LifetimeOver, SeesDying, Move, At, EInv, TypeOK, Timer,
     DrainIsOwn, Early, RemovedBeforeKill, ServerStarted, DrainHasServer, WaitDoesNotBlock
<1>2. CASE LifetimeRemove(s)
  BY <1>2, RemovedDrain DEF LifetimeRemove, Move, At, EInv, TypeOK, Timer,
     DrainIsOwn, Early, RemovedBeforeKill, ServerStarted, DrainHasServer, WaitDoesNotBlock
<1>3. CASE LifetimeKill(s)
  BY <1>3 DEF LifetimeKill, Kill, Move, At, EInv, TypeOK, Timer, Server,
     DrainIsOwn, Early, RemovedBeforeKill, ServerStarted, DrainHasServer, WaitDoesNotBlock
<1> QED
  BY <1>1, <1>2, <1>3 DEF TimerStep

LEMMA OutsidePreserves ==
  ASSUME EInv, NEW s \in Sess, ServerExits(s) \/ ServerFails(s) \/ ClientLeaves(s)
  PROVE  EInv'
<1>1. CASE ServerExits(s) \/ ServerFails(s)
  BY <1>1 DEF ServerExits, ServerFails, At, EInv, TypeOK, Server, DrainIsOwn, Early,
     RemovedBeforeKill, ServerStarted, DrainHasServer, WaitDoesNotBlock
<1>2. CASE ClientLeaves(s)
  BY <1>2 DEF ClientLeaves, At, EInv, TypeOK, DrainIsOwn, RemovedBeforeKill,
     ServerStarted, DrainHasServer, WaitDoesNotBlock
<1> QED
  BY <1>1, <1>2

LEMMA NextPreserves == EInv /\ [Next]_vars => EInv'
<1> SUFFICES ASSUME EInv, [Next]_vars PROVE EInv'
  OBVIOUS
<1>1. CASE LoadConfig \/ RemoveOrphanedDrains \/ Crash
  BY <1>1, ProcessPreserves
<1>2. ASSUME NEW s \in Sess,
             \/ ServeHTTP(s) \/ HandlerStep(s) \/ TimerStep(s)
             \/ ForwardLine(s) \/ PingTimesOut(s)
      PROVE  EInv'
  <2>1. Fatalf(s) => At(s, "fatal") \/ At(s, "unstarted")
    BY DEF Fatalf
  <2> QED
    BY <1>2, <2>1, SetupPreserves, addDrainPreserves, ServicePreserves, TimerPreserves
       DEF HandlerStep
<1>3. ASSUME NEW s \in Sess, ServerExits(s) \/ ServerFails(s) \/ ClientLeaves(s)
      PROVE  EInv'
  BY <1>3, OutsidePreserves
<1>4. CASE UNCHANGED vars
  BY <1>4 DEF vars, At, EInv, TypeOK, DrainIsOwn, Early, RemovedBeforeKill, ServerStarted,
     DrainHasServer, WaitDoesNotBlock
<1> QED
  BY <1>1, <1>2, <1>3, <1>4 DEF Next

-----------------------------------------------------------------------------
\* The theorems.

\* The inductive invariant of the requests: which stage has a server, a lifetime
\* goroutine and a drain, and who has removed it.
THEOREM EInvariance == Spec => []EInv
<1> QED
  BY InitEstablishes, NextPreserves, PTL DEF Spec

\* The endpoint's variables keep their types.
THEOREM EndpointTypes == Spec => []TypeOK
<1>1. EInv => TypeOK
  BY DEF EInv
<1> QED
  BY <1>1, EInvariance, PTL

\* Stop removes a drain before it kills the server behind it: for any number of apps
\* and requests no drain is left pointing at a port that was given up.
THEOREM NoDanglingDrain == Spec => []DrainHasServer
<1>1. EInv => DrainHasServer
  BY DEF EInv
<1> QED
  BY <1>1, EInvariance, PTL

\* The handler only waits for a server that has been killed or has died.
THEOREM WaitIsShort == Spec => []WaitDoesNotBlock
<1>1. EInv => WaitDoesNotBlock
  BY DEF EInv
<1> QED
  BY <1>1, EInvariance, PTL

-----------------------------------------------------------------------------
\* A drain that its request has not tried in vain to delete, and whose server runs, is still
\* watched by its lifetime goroutine: the Dying that ends the watch is never seen before
\* the drain is gone, whichever request of the app removed it and whoever stopped the
\* server.
DrainIsWatched ==
  \A a \in App : \A s \in Sess \ undeleted :
    drains[a] = s /\ srv[s] # "failed" => timer[s] \in {"waiting", "remove"}

\* Every drain is watched.  The watch of another request is not touched by a step of s,
\* and a drain only ever passes to the request that adds it.

LEMMA HandlerKeepsWatch ==
  ASSUME EInv, DrainIsWatched, NEW s \in Sess,
         ServeHTTP(s) \/ HandlerStep(s) \/ ForwardLine(s) \/ PingTimesOut(s)
  PROVE  DrainIsWatched'
<1>1. CASE \/ ServeHTTP(s) \/ ParseArguments(s) \/ recentLogs(s) \/ sendRecent(s)
           \/ NewAppLogDrain(s) \/ StartServer(s)
  <2>1. /\ \A a \in App : drains[a] # s
        /\ \A t \in Sess \ {s} : srv'[t] = srv[t]
        /\ UNCHANGED <<drains, timer, undeleted>>
    BY <1>1 DEF ServeHTTP, ParseArguments, recentLogs, sendRecent, NewAppLogDrain,
       StartServer, At, EInv, TypeOK, DrainIsOwn, Early
  <2> QED
    BY <2>1 DEF DrainIsWatched
<1>2. CASE addDrain(s)
  BY <1>2 DEF addDrain, At, EInv, TypeOK, DrainIsOwn, Early, DrainIsWatched
<1>3. CASE \/ Fatalf(s) \/ ForwardLine(s) \/ ForwardSent(s) \/ ForwardFails(s)
           \/ PingTimesOut(s) \/ ForwardDone(s) \/ Wait(s)
  BY <1>3 DEF Fatalf, ForwardLine, ForwardSent, ForwardFails, PingTimesOut, ForwardDone,
     Wait, DrainIsWatched
<1>4. CASE StopRemove(s)
  BY <1>4, RemovedDrain DEF StopRemove, EInv, TypeOK, DrainIsWatched
<1>5. CASE StopKill(s)
  BY <1>5 DEF StopKill, Kill, EInv, TypeOK, DrainIsWatched
<1> QED
  BY <1>1, <1>2, <1>3, <1>4, <1>5 DEF HandlerStep

\* SeesDying ends a watch: the server is then dying or dead, and DrainHasServer says that
\* no drain points at it.
LEMMA TimerKeepsWatch ==
  ASSUME EInv, DrainIsWatched, NEW s \in Sess, TimerStep(s)
  PROVE  DrainIsWatched'
<1>1. CASE LifetimeOver(s)
  BY <1>1 DEF LifetimeOver, Move, EInv, TypeOK, DrainIsWatched
<1>2. CASE SeesDying(s)
  BY <1>2 DEF SeesDying, Move, EInv, TypeOK, DrainHasServer, DrainIsWatched
<1>3. CASE LifetimeRemove(s)
  BY <1>3, RemovedDrain DEF LifetimeRemove, Move, EInv, TypeOK, DrainIsWatched
<1>4. CASE LifetimeKill(s)
  BY <1>4 DEF LifetimeKill, Kill, Move, EInv, TypeOK, RemovedBeforeKill, DrainIsWatched
<1> QED
  BY <1>1, <1>2, <1>3, <1>4 DEF TimerStep

LEMMA NextKeepsWatch ==
  ASSUME EInv, DrainIsWatched, [Next]_vars
  PROVE  DrainIsWatched'
<1>1. CASE LoadConfig \/ RemoveOrphanedDrains \/ Crash
  BY <1>1, DrainMarks DEF LoadConfig, RemoveOrphanedDrains, Crash, EInv, TypeOK,
     DrainIsWatched
<1>2. ASSUME NEW s \in Sess, ServerExits(s) \/ ServerFails(s) \/ ClientLeaves(s)
      PROVE  DrainIsWatched'
  BY <1>2 DEF ServerExits, ServerFails, ClientLeaves, EInv, TypeOK, DrainIsWatched
<1>3. CASE UNCHANGED vars
  BY <1>3 DEF vars, DrainIsWatched
<1> QED
  BY <1>1, <1>2, <1>3, HandlerKeepsWatch, TimerKeepsWatch DEF Next

\* For any number of apps and requests, a drain that could be deleted and whose server runs
\* has a lifetime goroutine that is going to delete it.
THEOREM LifetimeIsWatched == Spec => []DrainIsWatched
<1>1. Init => DrainIsWatched
  BY DrainMarks DEF Init, DrainIsWatched
<1>2. EInv /\ DrainIsWatched /\ [Next]_vars => DrainIsWatched'
  BY NextKeepsWatch
<1> QED
  BY <1>1, <1>2, EInvariance, PTL DEF Spec
=============================================================================
