----------------------------- MODULE ApptailProofs -----------------------------
(********************************************************************************)
(* Proofs about Apptail for any number of containers and sessions: types,       *)
(* the exactness of started_instances, the waiters (none is closed twice, and a *)
(* session does not block unheard), and that the last session of a container    *)
(* takes its cursor along.                                                      *)
(********************************************************************************)
EXTENDS Apptail, TLAPS

\* A container is announced when it starts and once more after the start message.
AnnouncedTwice ==
  \A c \in Inst :
    msgs[c] <= (IF life[c] = "created" THEN 0 ELSE 1)
                 + (IF boot \in {"listen", "list", "done"} THEN 1 ELSE 0)

\* Nothing is tailed before the subscription, and the goroutines of a session start
\* after it has registered its container.
SpawnedLate ==
  \A s \in Sess : sess[s] # Absent =>
    /\ Subscribed
    /\ sess[s].main \in {"register", "spawn"} => sess[s].wait = "none"

\* What the sessions have to do with each other, the waiters and the cursors.
SessionInv ==
  /\ SpawnedLate
  /\ OneSetupPerContainer
  /\ ChannelClosedOnce
  /\ CursorGoneAfterLastSession

AInv == TypeOK /\ AnnouncedTwice /\ SessionInv

-----------------------------------------------------------------------------
\* Facts about the constants and about one session.

LEMMA Constants ==
  /\ EmptyNode \in TailNode /\ EmptyTailer \in Tailer
  /\ InitialOffset \in Offset /\ File \in Child
  /\ Absent \notin TailNode
  /\ RETRY \in Nat /\ MaxEvents \in Nat
  /\ Absent \notin Sess /\ Absent \notin Session
BY AbsentIsDistinct, InitialOffsetIsOffset, FileIsChild, SessBounds, AbsentIsNoSession
   DEF EmptyNode, TailNode, EmptyTailer, Tailer

LEMMA SessionOf ==
  ASSUME TypeOK, NEW s \in Sess, sess[s] # Absent
  PROVE  sess[s] \in Session
BY DEF TypeOK

\* One session goes from one state to another.
LEMMA OneSessionMoves ==
  ASSUME TypeOK, NEW s \in Sess, sess[s] # Absent, NEW r \in Session,
         r.cont = sess[s].cont, sess' = [sess EXCEPT ![s] = r]
  PROVE  /\ sess' \in [Sess -> Session \cup {Absent}]
         /\ sess[s] \in Session /\ sess'[s] = r
         /\ \A t \in Sess \ {s} : sess'[t] = sess[t]
         /\ \A c \in Inst : Sessions(c)' = Sessions(c)
<1>1. /\ sess' \in [Sess -> Session \cup {Absent}]
      /\ sess[s] \in Session /\ sess'[s] = r
      /\ \A t \in Sess \ {s} : sess'[t] = sess[t]
  BY SessionOf DEF TypeOK
<1>2. r # Absent
  BY Constants
<1> QED
  BY <1>1, <1>2 DEF Sessions

\* A step of the tailing goroutine or of the loop leaves what SessionInv talks about alone.
LEMMA TailingStep ==
  ASSUME AInv, NEW s \in Sess, sess[s] # Absent, NEW r \in Session,
         sess' = [sess EXCEPT ![s] = r],
         r.cont = sess[s].cont, r.main = sess[s].main, r.wait = sess[s].wait,
         UNCHANGED <<boot, started, waiters>>,
         \A c \in Inst : IsInstanceRegistered(c)' => IsInstanceRegistered(c)
  PROVE  SessionInv' /\ sess' \in [Sess -> Session \cup {Absent}]
<1>1. sess' \in [Sess -> Session \cup {Absent}]
  BY OneSessionMoves DEF AInv
<1>2. \A t \in Sess : /\ sess'[t] = Absent <=> sess[t] = Absent
                      /\ sess'[t].cont = sess[t].cont
                      /\ sess'[t].main = sess[t].main
                      /\ sess'[t].wait = sess[t].wait
  BY OneSessionMoves, Constants DEF AInv
<1>3. \A c \in Inst : Sessions(c)' = Sessions(c) /\ InSetup(c)' = InSetup(c)
  BY <1>2 DEF Sessions, InSetup
<1>4. SpawnedLate'
  BY <1>2 DEF AInv, SessionInv, SpawnedLate, Subscribed
<1>5. OneSetupPerContainer'
  BY <1>3 DEF AInv, SessionInv, OneSetupPerContainer
<1>6. ChannelClosedOnce'
  BY <1>2, <1>3 DEF AInv, TypeOK, SessionInv, ChannelClosedOnce
<1>7. CursorGoneAfterLastSession'
  BY <1>2, <1>3 DEF AInv, SessionInv, CursorGoneAfterLastSession, Sessions
<1> QED
  BY <1>1, <1>4, <1>5, <1>6, <1>7 DEF SessionInv

\* So does a step that is no session's and registers no container that has one.
LEMMA QuietStep ==
  ASSUME AInv, UNCHANGED <<started, waiters, sess>>, Subscribed => Subscribed',
         \A c \in Inst : IsInstanceRegistered(c)' => IsInstanceRegistered(c) \/ ~Subscribed
  PROVE  SessionInv'
<1>1. \A c \in Inst : Sessions(c)' = Sessions(c) /\ InSetup(c)' = InSetup(c)
  BY DEF Sessions, InSetup
<1>2. SpawnedLate' /\ OneSetupPerContainer' /\ ChannelClosedOnce'
  BY <1>1 DEF AInv, SessionInv, SpawnedLate, OneSetupPerContainer, ChannelClosedOnce
<1>3. CursorGoneAfterLastSession'
  <2> SUFFICES ASSUME NEW c \in Inst, Sessions(c) # {},
                      \A s \in Sessions(c) : sess[s].wait = "done"
               PROVE  ~IsInstanceRegistered(c)'
    BY <1>1 DEF CursorGoneAfterLastSession
  <2>1. ~IsInstanceRegistered(c)
    BY DEF AInv, SessionInv, CursorGoneAfterLastSession
  <2>2. Subscribed
    BY DEF AInv, SessionInv, SpawnedLate, Sessions
  <2> QED
    BY <2>1, <2>2
<1> QED
  BY <1>2, <1>3 DEF SessionInv

\* The tailing goroutine and the loop change no more than their own fields.
LEMMA TailMoves ==
  ASSUME AInv, NEW s \in Sess, sess[s] # Absent, TailStep(s) \/ TailDies(s) \/ LoopStep(s)
  PROVE  \/ Exit
         \/ /\ UNCHANGED <<bootVars, dockerVars, msgs, started, waiters>>
            /\ UNCHANGED cmVars \/ CallInitialize(sess[s].cont)
            /\ \E r \in Session :
                 /\ sess' = [sess EXCEPT ![s] = r]
                 /\ r.cont = sess[s].cont /\ r.main = sess[s].main /\ r.wait = sess[s].wait
<1> DEFINE TailStates == {"get", "large", "init", "read", "failing", "ended"}
<1>1. sess[s] \in Session
  BY SessionOf DEF AInv
<1>2. ASSUME NEW v \in TailStates, Tail(s, v)
      PROVE  \E r \in Session :
               /\ sess' = [sess EXCEPT ![s] = r]
               /\ r.cont = sess[s].cont /\ r.main = sess[s].main /\ r.wait = sess[s].wait
  <2> DEFINE r == [sess[s] EXCEPT !.tail = v]
  <2>1. r \in Session
    BY <1>1 DEF Session
  <2>2. sess' = [sess EXCEPT ![s] = r]
    BY <1>2 DEF Tail
  <2>3. r.cont = sess[s].cont /\ r.main = sess[s].main /\ r.wait = sess[s].wait
    BY <1>1 DEF Session
  <2> QED
    BY <2>1, <2>2, <2>3
<1>3. ASSUME NEW v \in TailStates, NEW w \in {"delay", "range", "gone"},
             sess' = [sess EXCEPT ![s].tail = v, ![s].loop = w]
      PROVE  \E r \in Session :
               /\ sess' = [sess EXCEPT ![s] = r]
               /\ r.cont = sess[s].cont /\ r.main = sess[s].main /\ r.wait = sess[s].wait
  <2> DEFINE r == [sess[s] EXCEPT !.tail = v, !.loop = w]
  <2>1. r \in Session
    BY <1>1 DEF Session
  <2>2. sess' = [sess EXCEPT ![s] = r]
    BY <1>3
  <2>3. r.cont = sess[s].cont /\ r.main = sess[s].main /\ r.wait = sess[s].wait
    BY <1>1 DEF Session
  <2> QED
    BY <2>1, <2>2, <2>3
<1>4. ASSUME sess' = [sess EXCEPT ![s].loop = "gone"]
      PROVE  \E r \in Session :
               /\ sess' = [sess EXCEPT ![s] = r]
               /\ r.cont = sess[s].cont /\ r.main = sess[s].main /\ r.wait = sess[s].wait
  <2> DEFINE r == [sess[s] EXCEPT !.loop = "gone"]
  <2>1. r \in Session
    BY <1>1 DEF Session
  <2>2. sess' = [sess EXCEPT ![s] = r]
    BY <1>4
  <2>3. r.cont = sess[s].cont /\ r.main = sess[s].main /\ r.wait = sess[s].wait
    BY <1>1 DEF Session
  <2> QED
    BY <2>1, <2>2, <2>3
<1>5. CASE CheckCursor(s)
  BY <1>2, <1>5 DEF CheckCursor, OrSends
<1>6. CASE GetCursor(s)
  BY <1>2, <1>6 DEF GetCursor, OrSends
<1>7. CASE InitCursor(s)
  BY <1>2, <1>7 DEF InitCursor, OrSends
<1>8. CASE StopRead(s) \/ TailDies(s)
  BY <1>2, <1>8 DEF StopRead, TailDies, OrSends
<1>9. CASE LoopPublishes(s)
  <2>1. CASE sess[s].tail = "large"
    <3>1. sess' = [sess EXCEPT ![s].tail = "init", ![s].loop = "range"]
      BY <1>9, <2>1 DEF LoopPublishes
    <3> QED
      BY <1>3, <1>9, <3>1 DEF LoopPublishes
  <2>2. CASE sess[s].tail # "large"
    <3>1. sess' = [sess EXCEPT ![s].tail = "ended", ![s].loop = "range"]
      BY <1>9, <2>2 DEF LoopPublishes
    <3> QED
      BY <1>3, <1>9, <3>1 DEF LoopPublishes
  <2> QED
    BY <2>1, <2>2
<1>10. CASE LoopStopped(s)
  BY <1>4, <1>10 DEF LoopStopped
<1> QED
  BY <1>5, <1>6, <1>7, <1>8, <1>9, <1>10 DEF TailStep, LoopStep

-----------------------------------------------------------------------------
\* The inductive step, one lemma for each goroutine of a session.

LEMMA InitEstablishes == Init => AInv
<1> SUFFICES ASSUME Init PROVE AInv
  OBVIOUS
<1>1. TypeOK
  <2>1. CMTypeOK
    BY Constants DEF Init, CMInit, CMTypeOK
  <2>2. gets \in 0..RETRY /\ events \in [Inst -> 0..MaxEvents] /\ msgs \in [Inst -> 0..2]
    BY Constants DEF Init
  <2>3. waiters \in [Inst -> Sess \cup {Absent}] /\ sess \in [Sess -> Session \cup {Absent}]
    BY DEF Init
  <2> QED
    BY <2>1, <2>2, <2>3 DEF Init, TypeOK
<1>2. AnnouncedTwice
  <2>1. boot = "load" /\ \A c \in Inst : msgs[c] = 0
    BY DEF Init
  <2> SUFFICES ASSUME NEW c \in Inst
               PROVE  msgs[c] <= (IF life[c] = "created" THEN 0 ELSE 1)
                        + (IF boot \in {"listen", "list", "done"} THEN 1 ELSE 0)
    BY DEF AnnouncedTwice
  <2>2. CASE life[c] = "created"
    BY <2>1, <2>2
  <2>3. CASE life[c] # "created"
    BY <2>1, <2>3
  <2> QED
    BY <2>2, <2>3
<1>3. SessionInv
  BY DEF Init, SessionInv, SpawnedLate, OneSetupPerContainer, InSetup, Sessions,
         ChannelClosedOnce, CursorGoneAfterLastSession
<1> QED
  BY <1>1, <1>2, <1>3 DEF AInv

LEMMA ExitPreserves ==
  ASSUME AInv, Exit
  PROVE  AInv'
<1> USE DEF AInv
<1>1. /\ CMTypeOK' /\ started' = {}
      /\ waiters' \in [Inst -> Sess \cup {Absent}] /\ \A c \in Inst : waiters'[c] = Absent
      /\ sess' \in [Sess -> Session \cup {Absent}] /\ \A s \in Sess : sess'[s] = Absent
      /\ UNCHANGED <<bootVars, dockerVars, msgs>>
  BY Constants DEF Exit, Halt, CMTypeOK
<1>2. TypeOK' /\ AnnouncedTwice'
  BY <1>1 DEF TypeOK, AnnouncedTwice, bootVars, dockerVars
<1>3. SessionInv'
  BY <1>1 DEF SessionInv, SpawnedLate, OneSetupPerContainer, InSetup, Sessions,
     ChannelClosedOnce, CursorGoneAfterLastSession
<1> QED
  BY <1>2, <1>3

LEMMA NewInstancePreserves ==
  ASSUME AInv, NEW c \in Inst, NEW s \in Sess, NewInstance(c, s)
  PROVE  AInv'
<1> DEFINE new == [cont |-> c, main |-> "register",
                   tail |-> "none", loop |-> "delay", wait |-> "none"]
<1> USE DEF AInv
<1>1. AnnouncedTwice' /\ msgs' \in [Inst -> 0..2]
  BY DEF TypeOK, AnnouncedTwice, NewInstance, bootVars, dockerVars
<1>2. CASE c \in started
  <2>1. SessionInv'
    BY <1>2, QuietStep DEF NewInstance, bootVars, cmVars, Subscribed, IsInstanceRegistered
  <2> QED
    BY <1>1, <1>2, <2>1 DEF NewInstance, TypeOK, CMTypeOK, cmVars, bootVars, dockerVars
<1>3. CASE c \notin started
  <2>1. new \in Session /\ sess' = [sess EXCEPT ![s] = new] /\ started' = started \cup {c}
    BY <1>3 DEF NewInstance, Session
  <2> HIDE DEF new
  <2>2. new # Absent /\ new.cont = c /\ new.main = "register" /\ new.wait = "none"
    BY <2>1, Constants DEF new
  <2>3. sess[s] = Absent /\ sess'[s] = new /\ \A t \in Sess \ {s} : sess'[t] = sess[t]
    BY <2>1 DEF NewInstance, TypeOK
  <2>4. TypeOK'
    BY <1>1, <2>1 DEF NewInstance, TypeOK, CMTypeOK, cmVars, bootVars, dockerVars
  <2>5. SpawnedLate'
    BY <2>2, <2>3 DEF NewInstance, bootVars, SessionInv, SpawnedLate, Subscribed
  <2>6. /\ \A d \in Inst \ {c} : Sessions(d)' = Sessions(d) /\ InSetup(d)' = InSetup(d)
        /\ Sessions(c)' = Sessions(c) \cup {s} /\ InSetup(c)' = InSetup(c) \cup {s}
    BY <2>2, <2>3 DEF Sessions, InSetup
  <2>7. OneSetupPerContainer'
    BY <1>3, <2>1, <2>6 DEF SessionInv, OneSetupPerContainer
  <2>8. ChannelClosedOnce'
    <3> SUFFICES ASSUME NEW d \in Inst, waiters'[d] # Absent
                 PROVE  waiters'[d] \in Sessions(d)' /\ sess'[waiters'[d]].wait = "blocked"
      BY DEF ChannelClosedOnce
    <3>1. waiters[d] \in Sessions(d) /\ sess[waiters[d]].wait = "blocked"
      BY DEF SessionInv, ChannelClosedOnce, NewInstance
    <3>2. waiters[d] \in Sess \ {s}
      BY <2>3, <3>1 DEF Sessions
    <3> QED
      BY <2>3, <2>6, <3>1, <3>2 DEF NewInstance
  <2>9. CursorGoneAfterLastSession'
    BY <2>2, <2>3, <2>6 DEF SessionInv, CursorGoneAfterLastSession, NewInstance, cmVars,
       IsInstanceRegistered, Sessions
  <2> QED
    BY <1>1, <2>4, <2>5, <2>7, <2>8, <2>9 DEF SessionInv
<1> QED
  BY <1>2, <1>3

LEMMA RegisterPreserves ==
  ASSUME AInv, NEW s \in Sess, sess[s] # Absent, Register(s)
  PROVE  AInv'
<1> DEFINE r == [sess[s] EXCEPT !.main = "spawn"]
           c == sess[s].cont
<1> USE DEF AInv
<1>1. sess[s] \in Session /\ c \in Inst /\ sess[s].main = "register"
  BY SessionOf DEF Register, Session
<1>2. /\ r \in Session /\ sess' = [sess EXCEPT ![s] = r]
      /\ r.cont = c /\ r.main = "spawn" /\ r.wait = sess[s].wait
  BY <1>1 DEF Register, Main, Session
<1> HIDE DEF r
<1>3. /\ sess' \in [Sess -> Session \cup {Absent}] /\ sess'[s] = r
      /\ \A t \in Sess \ {s} : sess'[t] = sess[t]
      /\ \A d \in Inst : Sessions(d)' = Sessions(d)
  BY <1>2, OneSessionMoves
<1>4. /\ cache' \in Tailer
      /\ \A d \in Inst : IsInstanceRegistered(d)' => d = c \/ IsInstanceRegistered(d)
  BY <1>1, Constants, ZenonT(60) DEF Register, CallRegister, RegisterInstance, IsInstanceRegistered,
     TypeOK, CMTypeOK, Tailer, cmVars
<1>5. TypeOK' /\ AnnouncedTwice'
  BY <1>3, <1>4 DEF Register, CallRegister, RegisterInstance, TypeOK, CMTypeOK, cmVars,
     AnnouncedTwice, bootVars, dockerVars
<1>6. \A d \in Inst : InSetup(d)' = InSetup(d)
  BY <1>1, <1>2, <1>3 DEF InSetup, Sessions
<1>7. SpawnedLate' /\ OneSetupPerContainer'
  BY <1>1, <1>2, <1>3, <1>6 DEF SessionInv, SpawnedLate, OneSetupPerContainer, Register,
     Subscribed, bootVars
<1>8. ChannelClosedOnce'
  BY <1>2, <1>3 DEF SessionInv, ChannelClosedOnce, Register, Sessions
<1>9. CursorGoneAfterLastSession'
  <2>1. s \in Sessions(c) /\ sess'[s].wait = "none"
    BY <1>1, <1>2, <1>3 DEF SessionInv, SpawnedLate, Sessions
  <2> QED
    BY <1>2, <1>3, <1>4, <2>1 DEF SessionInv, CursorGoneAfterLastSession, Sessions
<1> QED
  BY <1>5, <1>7, <1>8, <1>9 DEF SessionInv

LEMMA SpawnPreserves ==
  ASSUME AInv, NEW s \in Sess, sess[s] # Absent, Spawn(s)
  PROVE  AInv'
<1>0. PICK first \in {"check", "none"} :
        sess' = [sess EXCEPT ![s].main = "delete", ![s].tail = first, ![s].wait = "add"]
  BY DEF Spawn
<1> DEFINE r == [sess[s] EXCEPT !.main = "delete", !.tail = first, !.wait = "add"]
<1> USE DEF AInv
<1>1. sess[s] \in Session /\ sess[s].main = "spawn" /\ sess[s].wait = "none"
  BY SessionOf DEF Spawn, SessionInv, SpawnedLate
<1>2. /\ r \in Session /\ sess' = [sess EXCEPT ![s] = r]
      /\ r.cont = sess[s].cont /\ r.main = "delete" /\ r.wait = "add"
  BY <1>0, <1>1 DEF Session
<1> HIDE DEF r
<1>3. /\ sess' \in [Sess -> Session \cup {Absent}] /\ sess'[s] = r
      /\ \A t \in Sess \ {s} : sess'[t] = sess[t]
      /\ \A d \in Inst : Sessions(d)' = Sessions(d)
  BY <1>2, OneSessionMoves
<1>4. TypeOK' /\ AnnouncedTwice'
  BY <1>3 DEF Spawn, TypeOK, CMTypeOK, cmVars, AnnouncedTwice, bootVars, dockerVars
<1>5. \A d \in Inst : InSetup(d)' = InSetup(d)
  BY <1>1, <1>2, <1>3 DEF InSetup, Sessions
<1>6. SpawnedLate' /\ OneSetupPerContainer'
  BY <1>2, <1>3, <1>5 DEF SessionInv, SpawnedLate, OneSetupPerContainer, Spawn,
     Subscribed, bootVars
<1>7. ChannelClosedOnce'
  BY <1>1, <1>3 DEF SessionInv, ChannelClosedOnce, Spawn, Sessions
<1>8. CursorGoneAfterLastSession'
  BY <1>1, <1>2, <1>3 DEF SessionInv, CursorGoneAfterLastSession, Spawn, cmVars,
     IsInstanceRegistered, Sessions
<1> QED
  BY <1>4, <1>6, <1>7, <1>8 DEF SessionInv

LEMMA DeleteStartedPreserves ==
  ASSUME AInv, NEW s \in Sess, sess[s] # Absent, DeleteStarted(s)
  PROVE  AInv'
<1> DEFINE r == [sess[s] EXCEPT !.main = "done"]
           c == sess[s].cont
<1> USE DEF AInv
<1>1. sess[s] \in Session /\ c \in Inst /\ sess[s].main = "delete"
  BY SessionOf DEF DeleteStarted, Session
<1>2. /\ r \in Session /\ sess' = [sess EXCEPT ![s] = r]
      /\ r.cont = c /\ r.main = "done" /\ r.wait = sess[s].wait
  BY <1>1 DEF DeleteStarted, Main, Session
<1> HIDE DEF r
<1>3. /\ sess' \in [Sess -> Session \cup {Absent}] /\ sess'[s] = r
      /\ \A t \in Sess \ {s} : sess'[t] = sess[t]
      /\ \A d \in Inst : Sessions(d)' = Sessions(d)
  BY <1>2, OneSessionMoves
<1>4. TypeOK' /\ AnnouncedTwice'
  BY <1>3 DEF DeleteStarted, TypeOK, CMTypeOK, cmVars, AnnouncedTwice, bootVars, dockerVars
<1>5. \A d \in Inst : InSetup(d)' = IF d = c THEN InSetup(d) \ {s} ELSE InSetup(d)
  BY <1>1, <1>2, <1>3 DEF InSetup, Sessions
<1>6. OneSetupPerContainer'
  <2>1. s \in InSetup(c)
    BY <1>1 DEF InSetup, Sessions
  <2> QED
    BY <1>5, <2>1 DEF SessionInv, OneSetupPerContainer, DeleteStarted
<1>7. SpawnedLate'
  BY <1>2, <1>3 DEF SessionInv, SpawnedLate, DeleteStarted, Subscribed, bootVars
<1>8. ChannelClosedOnce'
  BY <1>2, <1>3 DEF SessionInv, ChannelClosedOnce, DeleteStarted, Sessions
<1>9. CursorGoneAfterLastSession'
  BY <1>2, <1>3 DEF SessionInv, CursorGoneAfterLastSession, DeleteStarted, cmVars,
     IsInstanceRegistered, Sessions
<1> QED
  BY <1>4, <1>6, <1>7, <1>8, <1>9 DEF SessionInv

LEMMA TailStepPreserves ==
  ASSUME AInv, NEW s \in Sess, sess[s] # Absent, TailStep(s) \/ TailDies(s) \/ LoopStep(s)
  PROVE  AInv'
<1> USE DEF AInv
<1>1. sess[s] \in Session /\ sess[s].cont \in Inst
  BY SessionOf DEF Session
<1>2. CASE Exit
  BY <1>2, ExitPreserves
<1>3. CASE /\ UNCHANGED <<bootVars, dockerVars, msgs, started, waiters>>
           /\ UNCHANGED cmVars \/ CallInitialize(sess[s].cont)
           /\ \E r \in Session :
                /\ sess' = [sess EXCEPT ![s] = r]
                /\ r.cont = sess[s].cont /\ r.main = sess[s].main /\ r.wait = sess[s].wait
  <2>1. CMTypeOK' /\ \A c \in Inst : IsInstanceRegistered(c)' => IsInstanceRegistered(c)
    <3>1. CASE UNCHANGED cmVars
      BY <3>1 DEF TypeOK, CMTypeOK, cmVars, IsInstanceRegistered
    <3>2. CASE InitializeChildNode(sess[s].cont, File, InitialOffset)
      BY <1>1, <3>2, Constants DEF InitializeChildNode, TypeOK, CMTypeOK, Tailer, TailNode,
         IsInstanceRegistered
    <3> QED
      BY <1>3, <3>1, <3>2 DEF CallInitialize
  <2>2. SessionInv' /\ sess' \in [Sess -> Session \cup {Absent}]
    BY <1>3, <2>1, TailingStep DEF bootVars
  <2>3. TypeOK' /\ AnnouncedTwice'
    BY <1>3, <2>1, <2>2 DEF TypeOK, AnnouncedTwice, bootVars, dockerVars
  <2> QED
    BY <2>2, <2>3
<1> QED
  BY <1>2, <1>3, TailMoves

\* A step of the waiting goroutine: what has to be shown of the waiters and the cursors.
LEMMA WaitingStep ==
  ASSUME AInv, NEW s \in Sess, sess[s] # Absent,
         NEW v \in {"blocked", "close", "remove", "done"}, Wait(s, v),
         sess[s].wait # "none",
         UNCHANGED <<bootVars, life, msgs, stream, started>>,
         events' \in [Inst -> 0..MaxEvents],
         waiters' \in [Inst -> Sess \cup {Absent}],
         \A c \in Inst : waiters'[c] # Absent =>
           IF waiters'[c] = s THEN c = sess[s].cont /\ v = "blocked"
                              ELSE waiters'[c] = waiters[c],
         CMTypeOK',
         \A c \in Inst : IsInstanceRegistered(c)' =>
           IsInstanceRegistered(c) /\ (v = "done" => c # sess[s].cont)
  PROVE  AInv'
<1> DEFINE r == [sess[s] EXCEPT !.wait = v]
<1> USE DEF AInv
<1>1. sess[s] \in Session /\ sess[s].main \notin {"register", "spawn"}
  BY SessionOf DEF SessionInv, SpawnedLate
<1>2. /\ r \in Session /\ sess' = [sess EXCEPT ![s] = r]
      /\ r.cont = sess[s].cont /\ r.main = sess[s].main /\ r.wait = v
  BY <1>1 DEF Wait, Session
<1> HIDE DEF r
<1>3. /\ sess' \in [Sess -> Session \cup {Absent}] /\ sess'[s] = r
      /\ \A t \in Sess \ {s} : sess'[t] = sess[t]
      /\ \A d \in Inst : Sessions(d)' = Sessions(d)
  BY <1>2, OneSessionMoves
<1>4. TypeOK' /\ AnnouncedTwice'
  BY <1>3 DEF TypeOK, AnnouncedTwice, bootVars
<1>5. \A d \in Inst : InSetup(d)' = InSetup(d)
  BY <1>2, <1>3 DEF InSetup, Sessions
<1>6. SpawnedLate' /\ OneSetupPerContainer'
  BY <1>1, <1>2, <1>3, <1>5 DEF SessionInv, SpawnedLate, OneSetupPerContainer, Subscribed,
     bootVars
<1>7. ChannelClosedOnce'
  <2> SUFFICES ASSUME NEW c \in Inst, waiters'[c] # Absent
               PROVE  waiters'[c] \in Sessions(c)' /\ sess'[waiters'[c]].wait = "blocked"
    BY DEF ChannelClosedOnce
  <2>1. CASE waiters'[c] = s
    BY <1>2, <1>3, <2>1 DEF Sessions
  <2>2. CASE waiters'[c] # s
    BY <1>3, <2>2 DEF SessionInv, ChannelClosedOnce, Sessions
  <2> QED
    BY <2>1, <2>2
<1>8. CursorGoneAfterLastSession'
  <2> SUFFICES ASSUME NEW c \in Inst, Sessions(c) # {}, IsInstanceRegistered(c)',
                      \A t \in Sessions(c) : sess'[t].wait = "done"
               PROVE  FALSE
    BY <1>3 DEF CursorGoneAfterLastSession
  <2>1. c # sess[s].cont
    <3>1. c = sess[s].cont => s \in Sessions(c)
      BY DEF Sessions
    <3> QED
      BY <1>2, <1>3, <3>1
  <2>2. \A t \in Sessions(c) : sess[t].wait = "done"
    BY <1>3, <2>1 DEF Sessions
  <2> QED
    BY <2>2 DEF SessionInv, CursorGoneAfterLastSession
<1> QED
  BY <1>4, <1>6, <1>7, <1>8 DEF SessionInv

LEMMA WaitStepPreserves ==
  ASSUME AInv, NEW s \in Sess, sess[s] # Absent, WaitStep(s)
  PROVE  AInv'
<1> USE DEF AInv
<1>1. sess[s] \in Session /\ sess[s].cont \in Inst
  BY SessionOf DEF Session
<1>2. CASE AddWaiter(s)
  <2>1. /\ waiters' \in [Inst -> Sess \cup {Absent}]
        /\ \A c \in Inst : waiters'[c] # Absent =>
             IF waiters'[c] = s THEN c = sess[s].cont ELSE waiters'[c] = waiters[c]
    <3>1. \A c \in Inst : waiters[c] # s
      BY <1>2, Constants DEF AddWaiter, SessionInv, ChannelClosedOnce
    <3> QED
      BY <1>1, <1>2, <3>1 DEF AddWaiter, TypeOK
  <2>2. CMTypeOK' /\ \A c \in Inst : IsInstanceRegistered(c)' => IsInstanceRegistered(c)
    BY <1>2 DEF AddWaiter, TypeOK, CMTypeOK, cmVars, IsInstanceRegistered
  <2> QED
    BY <1>2, <2>1, <2>2, WaitingStep DEF AddWaiter, TypeOK, dockerVars
<1>3. CASE CloseStop(s)
  <2>1. \A c \in Inst : waiters[c] # s
    BY <1>3, Constants DEF CloseStop, SessionInv, ChannelClosedOnce
  <2>2. CMTypeOK' /\ \A c \in Inst : IsInstanceRegistered(c)' => IsInstanceRegistered(c)
    BY <1>3 DEF CloseStop, TypeOK, CMTypeOK, cmVars, IsInstanceRegistered
  <2> QED
    BY <1>3, <2>1, <2>2, WaitingStep DEF CloseStop, TypeOK, dockerVars
<1>4. CASE Remove(s)
  <2>1. \A c \in Inst : waiters[c] # s
    BY <1>4, Constants DEF Remove, SessionInv, ChannelClosedOnce
  <2>2. /\ CMTypeOK'
        /\ \A c \in Inst : IsInstanceRegistered(c)' =>
             IsInstanceRegistered(c) /\ c # sess[s].cont
    BY <1>4 DEF Remove, Delete, TypeOK, CMTypeOK, Tailer, IsInstanceRegistered
  <2> QED
    BY <1>4, <2>1, <2>2, WaitingStep DEF Remove, TypeOK, dockerVars
<1> QED
  BY <1>2, <1>3, <1>4 DEF WaitStep

LEMMA ListenPreserves ==
  ASSUME AInv, NEW c \in Inst, Listen(c)
  PROVE  AInv'
<1> USE DEF AInv
<1>1. /\ events' \in [Inst -> 0..MaxEvents]
      /\ waiters' \in [Inst -> Sess \cup {Absent}]
      /\ waiters'[c] = Absent /\ \A d \in Inst \ {c} : waiters'[d] = waiters[d]
  BY Constants DEF Listen, TypeOK
<1>2. CMTypeOK' /\ \A d \in Inst : IsInstanceRegistered(d)' => IsInstanceRegistered(d)
  BY DEF Listen, TypeOK, CMTypeOK, cmVars, IsInstanceRegistered
<1>3. CASE waiters[c] = Absent
  <2>1. UNCHANGED <<started, waiters, sess, boot>>
    BY <1>3 DEF Listen, TypeOK, bootVars
  <2>2. SessionInv'
    BY <1>2, <2>1, QuietStep DEF Subscribed
  <2> QED
    BY <1>1, <1>2, <2>1, <2>2 DEF Listen, TypeOK, AnnouncedTwice, bootVars
<1>4. CASE waiters[c] # Absent
  <2>1. PICK s \in Sess : s = waiters[c]
    BY <1>4 DEF TypeOK
  <2>2. s \in Sessions(c) /\ sess[s].wait = "blocked" /\ sess[s] # Absent
    BY <1>4, <2>1 DEF SessionInv, ChannelClosedOnce, Sessions
  <2>3. Wait(s, "close")
    BY <1>4, <2>1 DEF Listen, Wait
  <2>4. \A d \in Inst : waiters'[d] # s
    BY <1>1, <2>1, <2>2, Constants DEF SessionInv, ChannelClosedOnce, Sessions
  <2> QED
    BY <1>1, <1>2, <2>2, <2>3, <2>4, WaitingStep DEF Listen
<1> QED
  BY <1>3, <1>4

LEMMA MainStepPreserves ==
  ASSUME AInv, MainStep \/ DockerFails
  PROVE  AInv'
<1> USE DEF AInv, bootVars, dockerVars
<1>1. CASE Load
  <2>1. TypeOK' /\ AnnouncedTwice'
    BY <1>1 DEF Load, LoadTailers, TypeOK, CMTypeOK, AnnouncedTwice
  <2> QED
    BY <1>1, <2>1, QuietStep DEF Load, Subscribed
<1>2. CASE Subscribe
  <2>1. TypeOK' /\ AnnouncedTwice'
    BY <1>2 DEF Subscribe, TypeOK, CMTypeOK, cmVars, AnnouncedTwice
  <2> QED
    BY <1>2, <2>1, QuietStep DEF Subscribe, Subscribed
<1>3. CASE PublishStart
  <2>1. TypeOK' /\ AnnouncedTwice'
    BY <1>3 DEF PublishStart, Running, TypeOK, CMTypeOK, cmVars, AnnouncedTwice
  <2> QED
    BY <1>3, <2>1, QuietStep
       DEF PublishStart, Subscribed, cmVars, IsInstanceRegistered
<1>4. CASE GoListen
  <2>1. TypeOK' /\ AnnouncedTwice'
    BY <1>4 DEF GoListen, TypeOK, CMTypeOK, cmVars, AnnouncedTwice
  <2> QED
    BY <1>4, <2>1, QuietStep DEF GoListen, Subscribed, cmVars, IsInstanceRegistered
<1>5. CASE GetLiveDockerContainers
  <2>1. TypeOK' /\ AnnouncedTwice'
    BY <1>5, Constants
       DEF GetLiveDockerContainers, Running, TypeOK, CMTypeOK, cmVars, AnnouncedTwice
  <2> QED
    BY <1>5, <2>1, QuietStep
       DEF GetLiveDockerContainers, Subscribed, cmVars, IsInstanceRegistered
<1>6. CASE TrackerCleanUp
  <2>1. CMTypeOK' /\ \A c \in Inst : IsInstanceRegistered(c)' => IsInstanceRegistered(c)
    BY <1>6 DEF TrackerCleanUp, Delete, TypeOK, CMTypeOK, Tailer, cmVars,
       IsInstanceRegistered
  <2>2. TypeOK' /\ AnnouncedTwice'
    BY <1>6, <2>1 DEF TrackerCleanUp, TypeOK, AnnouncedTwice
  <2> QED
    BY <1>6, <2>1, <2>2, QuietStep DEF TrackerCleanUp, Subscribed
<1>7. CASE DockerFails
  BY <1>7, ExitPreserves DEF DockerFails
<1> QED
  BY <1>1, <1>2, <1>3, <1>4, <1>5, <1>6, <1>7 DEF MainStep

LEMMA DockerStepPreserves ==
  ASSUME AInv,
         \/ Connect \/ StreamEnds
         \/ \E c \in Inst : StartContainer(c) \/ KillContainer(c) \/ ContainerDies(c)
  PROVE  AInv'
<1> USE DEF AInv, bootVars
<1>1. UNCHANGED <<cmVars, bootVars, started, waiters, sess>>
  BY DEF Connect, StreamEnds, StartContainer, KillContainer, ContainerDies
<1>2. SessionInv'
  BY <1>1, QuietStep DEF Subscribed, cmVars, IsInstanceRegistered
<1>3. CASE Connect \/ StreamEnds
  BY <1>1, <1>2, <1>3 DEF Connect, StreamEnds, TypeOK, CMTypeOK, cmVars, AnnouncedTwice
<1>4. ASSUME NEW c \in Inst, StartContainer(c)
      PROVE  AInv'
  BY <1>1, <1>2, <1>4 DEF StartContainer, TypeOK, CMTypeOK, cmVars, AnnouncedTwice
<1>5. ASSUME NEW c \in Inst, KillContainer(c) \/ ContainerDies(c)
      PROVE  AInv'
  <2>1. events' \in [Inst -> 0..MaxEvents]
    BY <1>5, Constants DEF KillContainer, ContainerDies, EmitStop, TypeOK
  <2>2. UNCHANGED <<msgs, stream>> /\ (life' = life \/ life' = [life EXCEPT ![c] = "dead"])
    BY <1>5 DEF KillContainer, ContainerDies
  <2>3. life[c] = "running"
    BY <1>5 DEF KillContainer, ContainerDies
  <2> QED
    BY <1>1, <1>2, <2>1, <2>2, <2>3 DEF TypeOK, CMTypeOK, cmVars, AnnouncedTwice
<1> QED
  BY <1>3, <1>4, <1>5

LEMMA NextPreserves == AInv /\ [Next]_vars => AInv'
<1> SUFFICES ASSUME AInv, [Next]_vars PROVE AInv'
  OBVIOUS
<1>1. CASE UNCHANGED vars
  <2>1. UNCHANGED <<cmVars, bootVars, dockerVars, msgs, started, waiters, sess>>
    BY <1>1 DEF vars
  <2>2. SessionInv'
    BY <2>1, QuietStep DEF bootVars, cmVars, Subscribed, IsInstanceRegistered
  <2> QED
    BY <2>1, <2>2
       DEF AInv, TypeOK, CMTypeOK, AnnouncedTwice, cmVars, bootVars, dockerVars
<1>2. CASE MainStep \/ DockerFails
  BY <1>2, MainStepPreserves
<1>3. CASE \E c \in Inst, s \in Sess : NewInstance(c, s)
  BY <1>3, NewInstancePreserves
<1>4. CASE \E s \in Sess : SessionStep(s)
  BY <1>4, RegisterPreserves, SpawnPreserves, DeleteStartedPreserves, TailStepPreserves,
     WaitStepPreserves DEF SessionStep, SetupStep
<1>5. CASE \E c \in Inst : Listen(c)
  BY <1>5, ListenPreserves
<1>6. CASE \/ Connect \/ StreamEnds
           \/ \E c \in Inst : StartContainer(c) \/ KillContainer(c) \/ ContainerDies(c)
  BY <1>6, DockerStepPreserves
<1> QED
  BY <1>1, <1>2, <1>3, <1>4, <1>5, <1>6 DEF Next

-----------------------------------------------------------------------------
\* The theorems.

\* The inductive invariant of apptail's sessions: who is announced, who is set up, who
\* waits, and whose cursor is there.
THEOREM AInvariance == Spec => []AInv
<1> QED
  BY InitEstablishes, NextPreserves, PTL DEF Spec

\* However many containers are announced and stopped, every variable of the session
\* model keeps its type; in particular no container has more than two undelivered
\* newinstance messages.
THEOREM ApptailTypes == Spec => []TypeOK
<1>1. AInv => TypeOK
  BY DEF AInv
<1> QED
  BY <1>1, AInvariance, PTL

\* checkInstanceAndUpdate and delete keep started_instances exact: a container is in it
\* just while one call of Tail is setting it up, and never two are.
THEOREM StartedIsExact == Spec => []OneSetupPerContainer
<1>1. AInv => OneSetupPerContainer
  BY DEF AInv, SessionInv
<1> QED
  BY <1>1, AInvariance, PTL

\* Listen never closes a channel of dockerListener.waiters a second time.
THEOREM NoDoubleClose == Spec => []ChannelClosedOnce
<1>1. AInv => ChannelClosedOnce
  BY DEF AInv, SessionInv
<1> QED
  BY <1>1, AInvariance, PTL

\* Once every session of a container is through with Remove, the tracker knows the
\* container no more, wherever their tailing goroutines are.
THEOREM LastSessionTakesCursor == Spec => []CursorGoneAfterLastSession
<1>1. AInv => CursorGoneAfterLastSession
  BY DEF AInv, SessionInv
<1> QED
  BY <1>1, AInvariance, PTL

-----------------------------------------------------------------------------
\* Blocked sessions and waiters.

Notified(s) == sess[s].wait \in {"close", "remove", "done"}

\* A container whose session blocks in BlockUntilContainerStops has a channel in waiters,
\* so that its next stop event closes one; unless a session of it was stopped already, as
\* when two sessions wait for a container and only the first was entered.
StopFindsWaiter ==
  \A c \in Inst : (\E s \in Sessions(c) : sess[s].wait = "blocked")
    => waiters[c] # Absent \/ \E s \in Sessions(c) : Notified(s)

\* What a step has to keep for StopFindsWaiter: sessions that were notified stay so, a
\* session blocks only where there is a waiter, and a waiter that leaves is notified.
LEMMA WaitersKept ==
  ASSUME AInv, StopFindsWaiter, sess' \in [Sess -> Session \cup {Absent}],
         \A t \in Sess : sess[t] # Absent =>
           /\ sess'[t] # Absent /\ sess'[t].cont = sess[t].cont
           /\ Notified(t) => Notified(t)',
         \A t \in Sess : sess'[t] # Absent /\ sess'[t].wait = "blocked" =>
           \/ sess[t] # Absent /\ sess[t].wait = "blocked"
           \/ waiters'[sess'[t].cont] # Absent,
         \A c \in Inst : waiters[c] # Absent =>
           waiters'[c] # Absent \/ \E t \in Sessions(c)' : Notified(t)'
  PROVE  StopFindsWaiter'
<1> SUFFICES ASSUME NEW c \in Inst, NEW s \in Sessions(c)', sess'[s].wait = "blocked"
             PROVE  waiters'[c] # Absent \/ \E t \in Sessions(c)' : Notified(t)'
  BY DEF StopFindsWaiter
<1>1. s \in Sess /\ sess'[s] # Absent /\ sess'[s].cont = c
  BY DEF Sessions
<1>2. CASE waiters'[c] # Absent
  BY <1>2
<1>3. CASE sess[s] # Absent /\ sess[s].wait = "blocked"
  <2>1. s \in Sessions(c)
    BY <1>1, <1>3 DEF Sessions
  <2>2. waiters[c] # Absent \/ \E t \in Sessions(c) : Notified(t)
    BY <1>3, <2>1 DEF StopFindsWaiter
  <2>3. \A t \in Sessions(c) : t \in Sessions(c)' /\ (Notified(t) => Notified(t)')
    BY DEF Sessions
  <2> QED
    BY <2>2, <2>3
<1> QED
  BY <1>1, <1>2, <1>3

\* A step of one session that does not touch the waiting goroutine.
LEMMA WaitUntouched ==
  ASSUME AInv, StopFindsWaiter, NEW s \in Sess, sess[s] # Absent,
         NEW r \in Session, sess' = [sess EXCEPT ![s] = r], r.cont = sess[s].cont,
         r.wait = sess[s].wait \/ (sess[s].wait = "none" /\ r.wait = "add"),
         UNCHANGED waiters
  PROVE  StopFindsWaiter'
<1>1. /\ sess' \in [Sess -> Session \cup {Absent}] /\ sess'[s] = r /\ r # Absent
      /\ \A t \in Sess \ {s} : sess'[t] = sess[t]
  BY OneSessionMoves, Constants DEF AInv
<1> QED
  BY <1>1, WaitersKept DEF Notified

LEMMA ExitKeepsWaiters ==
  ASSUME Exit
  PROVE  StopFindsWaiter'
BY DEF Exit, StopFindsWaiter, Sessions

LEMMA SessionKeepsWaiters ==
  ASSUME AInv, StopFindsWaiter, NEW s \in Sess, SessionStep(s)
  PROVE  StopFindsWaiter'
<1>1. sess[s] \in Session /\ sess[s] # Absent /\ sess[s].cont \in Inst
  BY SessionOf DEF SessionStep, AInv, Session
<1>2. CASE Register(s) \/ DeleteStarted(s)
  <2>1. PICK v \in {"spawn", "done"} : sess' = [sess EXCEPT ![s].main = v]
    BY <1>2 DEF Register, DeleteStarted, Main
  <2> DEFINE r == [sess[s] EXCEPT !.main = v]
  <2>2. r \in Session /\ r.cont = sess[s].cont /\ r.wait = sess[s].wait
        /\ sess' = [sess EXCEPT ![s] = r]
    BY <1>1, <2>1 DEF Session
  <2> QED
    BY <1>1, <1>2, <2>2, WaitUntouched DEF Register, DeleteStarted
<1>3. CASE Spawn(s)
  <2>0. PICK first \in {"check", "none"} :
          sess' = [sess EXCEPT ![s].main = "delete", ![s].tail = first, ![s].wait = "add"]
    BY <1>3 DEF Spawn
  <2> DEFINE r == [sess[s] EXCEPT !.main = "delete", !.tail = first, !.wait = "add"]
  <2>1. sess[s].wait = "none"
    BY <1>1, <1>3 DEF Spawn, AInv, SessionInv, SpawnedLate
  <2>2. r \in Session /\ r.cont = sess[s].cont /\ r.wait = "add"
        /\ sess' = [sess EXCEPT ![s] = r]
    BY <1>1, <2>0 DEF Session
  <2> QED
    BY <1>1, <1>3, <2>1, <2>2, WaitUntouched DEF Spawn
<1>4. CASE TailStep(s) \/ TailDies(s) \/ LoopStep(s)
  BY <1>1, <1>4, TailMoves, ExitKeepsWaiters, WaitUntouched
<1>5. CASE WaitStep(s)
  <2>1. PICK v \in {"blocked", "remove", "done"} :
          /\ sess' = [sess EXCEPT ![s].wait = v]
          /\ IF v = "blocked" THEN AddWaiter(s) ELSE Notified(s) /\ UNCHANGED waiters
    BY <1>5 DEF WaitStep, AddWaiter, CloseStop, Remove, Wait, Notified
  <2> DEFINE r == [sess[s] EXCEPT !.wait = v]
  <2>2. r \in Session /\ r.cont = sess[s].cont /\ r.wait = v
        /\ sess' = [sess EXCEPT ![s] = r]
    BY <1>1, <2>1 DEF Session
  <2> HIDE DEF r
  <2>3. /\ sess' \in [Sess -> Session \cup {Absent}] /\ sess'[s] = r /\ r # Absent
        /\ \A t \in Sess \ {s} : sess'[t] = sess[t]
    BY <1>1, <2>2, OneSessionMoves, Constants DEF AInv
  <2>4. CASE v = "blocked"
    <3>1. AddWaiter(s) /\ sess[s].wait = "add"
      BY <2>1, <2>4 DEF AddWaiter
    <3>2. /\ waiters'[sess[s].cont] # Absent
          /\ \A c \in Inst : waiters[c] # Absent => waiters'[c] # Absent
      BY <1>1, <3>1, Constants DEF AddWaiter, AInv, TypeOK
    <3> QED
      BY <2>2, <2>3, <2>4, <3>1, <3>2, WaitersKept DEF Notified
  <2>5. CASE v # "blocked"
    BY <2>1, <2>2, <2>3, <2>5, WaitersKept DEF Notified
  <2> QED
    BY <2>4, <2>5
<1> QED
  BY <1>2, <1>3, <1>4, <1>5 DEF SessionStep, SetupStep

LEMMA ListenKeepsWaiters ==
  ASSUME AInv, StopFindsWaiter, NEW c \in Inst, Listen(c)
  PROVE  StopFindsWaiter'
<1>1. waiters'[c] = Absent /\ \A d \in Inst \ {c} : waiters'[d] = waiters[d]
  BY DEF Listen, AInv, TypeOK
<1>2. CASE waiters[c] = Absent
  BY <1>1, <1>2 DEF Listen, StopFindsWaiter, Sessions, Notified
<1>3. CASE waiters[c] # Absent
  <2>1. PICK s \in Sess : s = waiters[c]
    BY <1>3 DEF AInv, TypeOK
  <2>2. s \in Sessions(c) /\ sess[s] # Absent /\ sess[s].cont = c
    BY <1>3, <2>1 DEF AInv, SessionInv, ChannelClosedOnce, Sessions
  <2> DEFINE r == [sess[s] EXCEPT !.wait = "close"]
  <2>3. r \in Session /\ r.cont = sess[s].cont /\ r.wait = "close"
        /\ sess' = [sess EXCEPT ![s] = r]
    BY <1>3, <2>1, <2>2, SessionOf DEF Listen, AInv, Session
  <2> HIDE DEF r
  <2>4. /\ sess' \in [Sess -> Session \cup {Absent}] /\ sess'[s] = r /\ r # Absent
        /\ \A t \in Sess \ {s} : sess'[t] = sess[t]
    BY <2>2, <2>3, OneSessionMoves, Constants DEF AInv
  <2>5. s \in Sessions(c)' /\ Notified(s)'
    BY <2>2, <2>3, <2>4 DEF Sessions, Notified
  <2> QED
    BY <1>1, <2>3, <2>4, <2>5, WaitersKept DEF Notified
<1> QED
  BY <1>2, <1>3

LEMMA NextKeepsWaiters ==
  ASSUME AInv, StopFindsWaiter, [Next]_vars
  PROVE  StopFindsWaiter'
<1>1. CASE UNCHANGED <<waiters, sess>>
  BY <1>1 DEF StopFindsWaiter, Sessions, Notified
<1>2. ASSUME NEW c \in Inst, NEW s \in Sess, NewInstance(c, s)
      PROVE  StopFindsWaiter'
  <2> DEFINE new == [cont |-> c, main |-> "register",
                     tail |-> "none", loop |-> "delay", wait |-> "none"]
  <2>1. CASE UNCHANGED sess
    BY <1>1, <1>2, <2>1 DEF NewInstance
  <2>2. CASE sess' = [sess EXCEPT ![s] = new]
    <3>1. new \in Session /\ new.wait = "none"
      BY DEF Session
    <3> HIDE DEF new
    <3>2. /\ sess' \in [Sess -> Session \cup {Absent}] /\ sess'[s] = new
          /\ sess[s] = Absent /\ \A t \in Sess \ {s} : sess'[t] = sess[t]
          /\ UNCHANGED waiters
      BY <1>2, <2>2, <3>1 DEF NewInstance, AInv, TypeOK
    <3> QED
      BY <3>1, <3>2, WaitersKept DEF Notified
  <2> QED
    BY <1>2, <2>1, <2>2 DEF NewInstance
<1>3. CASE MainStep \/ DockerFails
  BY <1>1, <1>3, ExitKeepsWaiters DEF MainStep, Load, Subscribe, PublishStart, GoListen,
     GetLiveDockerContainers, TrackerCleanUp, DockerFails
<1>4. CASE \/ Connect \/ StreamEnds
           \/ \E c \in Inst : StartContainer(c) \/ KillContainer(c) \/ ContainerDies(c)
  BY <1>1, <1>4 DEF Connect, StreamEnds, StartContainer, KillContainer, ContainerDies
<1>5. CASE UNCHANGED vars
  BY <1>1, <1>5 DEF vars
<1> QED
  BY <1>2, <1>3, <1>4, <1>5, SessionKeepsWaiters, ListenKeepsWaiters DEF Next

\* As long as none of its sessions was stopped, a container with a session that blocks has
\* a channel in waiters for Listen to close: the blocked session that is never notified
\* takes a second session, or a stop event that was read before it blocked.
THEOREM BlockedIsHeard == Spec => []StopFindsWaiter
<1>1. Init => StopFindsWaiter
  BY DEF Init, StopFindsWaiter, Sessions
<1>2. AInv /\ StopFindsWaiter /\ [Next]_vars => StopFindsWaiter'
  BY NextKeepsWaiters
<1> QED
  BY <1>1, <1>2, AInvariance, PTL DEF Spec
================================================================================
