---------------------------- MODULE EventPipeline ----------------------------
(******************************************************************************)
(* From a line in a system log to a line in the log of an app: systail tails  *)
(* the logs and publishes records, logyard_sieve makes events of them, and    *)
(* MonitorCloudEvents of apptail turns timeline events into app logs.  The    *)
(* three processes are restarted by the supervisor and talk through logyard's *)
(* broker, which drops what a subscriber is not there or not fast enough for. *)
(* What sieve can not parse it logs, to a file that systail tails.            *)
(*                                                                            *)
(* A line longer than max_record_size is cut by tail: its pieces are lines of *)
(* their own here.  No record is longer than that, so the line in which       *)
(* logyard_sieve quotes one has at most two pieces, the second no longer than *)
(* the words before the quotation.  These are taken to fill less than half a  *)
(* record, so that a warning about a second piece is not cut.                 *)
(******************************************************************************)
EXTENDS Sieve, Sequences

CONSTANTS Name,      \* log_files of etc/systail.yml
          SieveLog,  \* the one logyard_sieve logs to
          Timeline,  \* the event type "timeline"
          Warn,      \* the substring by which the warning event is found
          WarnRe,    \* and its expression
          MaxLines,  \* bound: lines logged, and events sent by instances
          QueueLen   \* messages the broker keeps for a subscriber

ASSUME PipelineBounds == MaxLines \in Nat /\ QueueLen \in Nat
\* As in etc/systail.yml and etc/sieve.yml: the log of logyard_sieve is tailed and has no
\* group of events, and warnings are an event whose format fits its expression.
ASSUME SieveLogIsTailed == SieveLog \in Name /\ Tree(SieveLog) = {}
ASSUME WarningIsEvent ==
  \E p \in Tree(All) :
    p.substring = Warn /\ p.re = WarnRe /\ Handler(p) = "simple" /\ p.refs <= p.groups
\* So are timeline events, which are made of what their expression captures.
ASSUME TimelineIsEvent ==
  \A p \in Tree(All) :
    p.type = Timeline => p.substring # Empty /\ Handler(p) = "json" /\ p.groups \in Nat \ {0}

VARIABLES
  sys,     \* systail is running
  pubs,    \* files whose publishing goroutine runs
  tails,   \* tail's own goroutine for each file
  lines,   \* what is in each file and will be read
  sieve,   \* logyard_sieve is running
  order,   \* the order its parser was built in
  sub,     \* its subscription to "systail"
  mon,     \* apptail: down, booting, or in MonitorCloudEvents
  evq,     \* its subscription to "event.timeline"
  logged,  \* lines logged and events sent so far, which numbers them
  applog,  \* history: those that became app logs
  lost     \* history: those that were lost

systailVars == <<sys, pubs, tails>>
sieveVars == <<sieve, order>>
vars == <<systailVars, lines, sieveVars, sub, mon, evq, logged, applog, lost>>

Id == 1..MaxLines

\* The first record of what log.Warnf makes of a text it quotes: the level comes first.
Quoted(t) ==
  [at |-> [s \in Substring |->
             IF s \in {Warn, Empty} THEN 1 ELSE IF t.at[s] > 0 THEN t.at[s] + 1 ELSE 0],
   re |-> [t.re EXCEPT ![WarnRe] = "fit"],
   long |-> t.long]

\* The second record, when tail has cut the line: the end of t, without a level.
Rest(t) ==
  {u \in Text : ~u.long /\ \A s \in Substring : u.at[s] > 0 => t.at[s] > 0}

ASSUME RestsExist == \A t \in Text : t.long => Rest(t) # {}

\* A line of the log file n.  Whoever logs it numbers it; of the records of a warning the
\* first has no number and the second that of the record that is quoted.  echo counts the
\* warnings a record comes from, each about the one before.
Line(n) ==
  IF n # SieveLog THEN [id : Id, echo : {0}, name : {n}, text : Text]
  ELSE [id : {0}, echo : {1, 2}, name : {n}, text : {Quoted(t) : t \in Text}]
         \cup [id : Id, echo : {1}, name : {n}, text : {t \in Text : ~t.long}]
Record == UNION {Line(n) : n \in Name}
TimelineMsg == [id : Id, info : Captures]

TypeOK ==
  /\ sys \in BOOLEAN
  /\ pubs \subseteq Name
  /\ tails \in [Name -> {"up", "dying", "dead"}]
  /\ DOMAIN lines = Name /\ \A n \in Name : lines[n] \in Seq(Line(n))
  /\ sieve \in BOOLEAN
  /\ order \in Order
  /\ sub \in Seq(Record) /\ Len(sub) <= QueueLen
  /\ mon \in {"down", "boot", "up"}
  /\ evq \in Seq(TimelineMsg) /\ Len(evq) <= QueueLen
  /\ logged \in 0..MaxLines
  /\ applog \subseteq Id
  /\ lost \subseteq Id

Init ==
  /\ sys = FALSE
  /\ pubs = {}
  /\ tails = [n \in Name |-> "dead"]
  /\ lines = [n \in Name |-> <<>>]
  /\ sieve = FALSE
  /\ order \in Order
  /\ sub = <<>>
  /\ mon = "down"
  /\ evq = <<>>
  /\ logged = 0
  /\ applog = {}
  /\ lost = {}

\* The numbers in a queue.
Ids(q) == {q[i].id : i \in DOMAIN q} \ {0}

\* Lines are written to the log file n.  Tailing starts at the end of a file, so nobody
\* will ever read what is written while it is not tailed.
Write(n, q) ==
  IF n \in pubs
  THEN lines' = [lines EXCEPT ![n] = @ \o q] /\ UNCHANGED lost
  ELSE lost' = lost \cup Ids(q) /\ UNCHANGED lines

\* The broker: m is queued for a subscriber that is there and has room, or dropped.
Publish(q, there, m) == IF there /\ Len(q) < QueueLen THEN Append(q, m) ELSE q
Dropped(q, there) == ~(there /\ Len(q) < QueueLen)

-----------------------------------------------------------------------------
\* Whoever logs.

Logs(n, t) ==
  /\ logged < MaxLines
  /\ n # SieveLog
  /\ logged' = logged + 1
  /\ Write(n, <<[id |-> logged', echo |-> 0, name |-> n, text |-> t]>>)
  /\ UNCHANGED <<systailVars, sieveVars, sub, mon, evq, applog>>

-----------------------------------------------------------------------------
\* systail.

StartSystail ==
  /\ ~sys
  /\ sys' = TRUE
  /\ pubs' = Name
  /\ tails' = [n \in Name |-> "up"]
  /\ UNCHANGED <<lines, sieveVars, sub, mon, evq, logged, applog, lost>>

\* The goroutine of tailLogFile publishes the next line.
TailLine(n) ==
  /\ sys
  /\ n \in pubs
  /\ tails[n] = "up"
  /\ lines[n] # <<>>
  /\ sub' = Publish(sub, sieve, Head(lines[n]))
  /\ lost' = IF Dropped(sub, sieve) THEN lost \cup ({Head(lines[n]).id} \ {0}) ELSE lost
  /\ lines' = [lines EXCEPT ![n] = Tail(@)]
  /\ UNCHANGED <<systailVars, sieveVars, mon, evq, logged, applog>>

\* Mutant: the goroutine ends without Killf.
EncodeFailsQuietly(n) ==
  /\ sys
  /\ n \in pubs
  /\ tails[n] = "up"
  /\ lines[n] # <<>>
  /\ pubs' = pubs \ {n}
  /\ lost' = lost \cup Ids(lines[n])
  /\ lines' = [lines EXCEPT ![n] = <<>>]
  /\ UNCHANGED <<sys, tails, sieveVars, sub, mon, evq, logged, applog>>

\* The line can not be encoded: Killf, and the goroutine ends.
EncodeFails(n) ==
  /\ sys
  /\ n \in pubs
  /\ tails[n] = "up"
  /\ lines[n] # <<>>
  /\ pubs' = pubs \ {n}
  /\ tails' = [tails EXCEPT ![n] = "dying"]
  /\ lost' = lost \cup Ids(lines[n])
  /\ lines' = [lines EXCEPT ![n] = <<>>]
  /\ UNCHANGED <<sys, sieveVars, sub, mon, evq, logged, applog>>

\* tail gives up on a file, or has been killed: Lines is closed, Wait returns.
TailDies(n) ==
  /\ sys
  /\ tails[n] # "dead"
  /\ tails' = [tails EXCEPT ![n] = "dead"]
  /\ pubs' = pubs \ {n}
  /\ lost' = lost \cup Ids(lines[n])
  /\ lines' = [lines EXCEPT ![n] = <<>>]
  /\ UNCHANGED <<sys, sieveVars, sub, mon, evq, logged, applog>>

\* main has waited for every tailer.
NoFileLeft ==
  /\ sys
  /\ \A n \in Name : tails[n] = "dead"
  /\ sys' = FALSE
  /\ UNCHANGED <<pubs, tails, lines, sieveVars, sub, mon, evq, logged, applog, lost>>

\* A signal, or Fatal: cleanup and exit.
KillSystail ==
  /\ sys
  /\ sys' = FALSE
  /\ pubs' = {}
  /\ tails' = [n \in Name |-> "dead"]
  /\ lost' = lost \cup UNION {Ids(lines[n]) : n \in Name}
  /\ lines' = [n \in Name |-> <<>>]
  /\ UNCHANGED <<sieveVars, sub, mon, evq, logged, applog>>

SystailStep ==
  \/ \E n \in Name : TailLine(n) \/ EncodeFails(n) \/ TailDies(n)
  \/ StartSystail \/ NoFileLeft \/ KillSystail

-----------------------------------------------------------------------------
\* logyard_sieve.

\* A new subscription: what was left in the old one is gone.
StartSieve ==
  /\ ~sieve
  /\ sieve' = TRUE
  /\ order' \in Order
  /\ sub' = <<>>
  /\ lost' = lost \cup Ids(sub)
  /\ UNCHANGED <<systailVars, lines, mon, evq, logged, applog>>

KillSieve ==
  /\ sieve
  /\ sieve' = FALSE
  /\ UNCHANGED <<systailVars, lines, order, sub, mon, evq, logged, applog, lost>>

\* Mutant: the record may come a second time.
ReceiveAgain ==
  /\ sieve
  /\ sub # <<>>
  /\ sub' \in {sub, Tail(sub)}

\* main takes a record off its subscription.
Receive ==
  /\ sieve
  /\ sub # <<>>
  /\ sub' = Tail(sub)

\* What main does with the event e, or whatever else Parse returns, for a record.

\* No event, or an event that is not for the timeline: nobody here subscribes to it.
SieveIgnores(e) ==
  /\ e.kind = "none" \/ (e.kind = "event" /\ e.type # Timeline)
  /\ UNCHANGED <<systailVars, lines, sieveVars, mon, evq, logged, applog, lost>>

\* Mutant: main does not ask whether there is an event.
SievePublishesNil(e) ==
  /\ e.kind = "none" \/ (e.kind = "event" /\ e.type = Timeline)
  /\ evq' = Publish(evq, mon = "up",
                    [id |-> Head(sub).id, info |-> IF e = Nothing THEN e.kind ELSE e.info])
  /\ lost' = IF Dropped(evq, mon = "up") THEN lost \cup {Head(sub).id} ELSE lost
  /\ UNCHANGED <<systailVars, lines, sieveVars, mon, logged, applog>>

SievePublishes(e) ==
  /\ e.kind = "event" /\ e.type = Timeline
  /\ evq' = Publish(evq, mon = "up", [id |-> Head(sub).id, info |-> e.info])
  /\ lost' = IF Dropped(evq, mon = "up") THEN lost \cup {Head(sub).id} ELSE lost
  /\ UNCHANGED <<systailVars, lines, sieveVars, mon, logged, applog>>

\* "failed to parse event from %s: %s -- source: %s", into the log of logyard_sieve.
SieveWarns(e) ==
  /\ e.kind = "error"
  /\ LET r == Head(sub)
         Piece(k, t) == [id |-> k, echo |-> r.echo + 1, name |-> SieveLog, text |-> t]
     IN  IF r.text.long
         THEN \E u \in Rest(r.text) :
                Write(SieveLog, <<Piece(0, Quoted(r.text)), Piece(r.id, u)>>)
         ELSE Write(SieveLog, <<Piece(0, Quoted(r.text))>>)
  /\ UNCHANGED <<systailVars, sieveVars, mon, evq, logged, applog>>

SievePanics(e) ==
  /\ e.kind = "panic"
  /\ sieve' = FALSE
  /\ lost' = lost \cup ({Head(sub).id} \ {0})
  /\ UNCHANGED <<systailVars, lines, order, mon, evq, logged, applog>>

SieveStep ==
  /\ Receive
  /\ LET e == Parse(order, Head(sub).name, Head(sub).text)
     IN  SieveIgnores(e) \/ SievePublishes(e) \/ SieveWarns(e) \/ SievePanics(e)

-----------------------------------------------------------------------------
\* apptail.

\* main gets to MonitorCloudEvents last, long after the first session.
StartApptail ==
  /\ mon = "down"
  /\ mon' = "boot"
  /\ UNCHANGED <<systailVars, lines, sieveVars, sub, evq, logged, applog, lost>>

Subscribe ==
  /\ mon = "boot"
  /\ mon' = "up"
  /\ UNCHANGED <<systailVars, lines, sieveVars, sub, evq, logged, applog, lost>>

KillApptail ==
  /\ mon # "down"
  /\ mon' = "down"
  /\ evq' = <<>>
  /\ lost' = lost \cup Ids(evq)
  /\ UNCHANGED <<systailVars, lines, sieveVars, sub, logged, applog>>

\* An instance sends a timeline event of its own, through its PubChannel.
SendTimelineEvent ==
  /\ mon # "down"
  /\ logged < MaxLines
  /\ logged' = logged + 1
  /\ evq' = Publish(evq, mon = "up", [id |-> logged', info |-> "fit"])
  /\ lost' = IF Dropped(evq, mon = "up") THEN lost \cup {logged'} ELSE lost
  /\ UNCHANGED <<systailVars, lines, sieveVars, sub, mon, applog>>

\* MonitorCloudEvents, and PublishAppLog: Message.Publish can not fail here.
PublishAppLog ==
  /\ mon = "up" /\ evq # <<>>
  /\ Head(evq).info # "mistyped"
  /\ applog' = applog \cup {Head(evq).id}
  /\ evq' = Tail(evq)
  /\ UNCHANGED <<systailVars, lines, sieveVars, sub, mon, logged, lost>>

\* "Invalid timeline event" is Fatal: all of apptail ends.
InvalidTimelineEvent ==
  /\ mon = "up" /\ evq # <<>>
  /\ Head(evq).info = "mistyped"
  /\ mon' = "down"
  /\ evq' = <<>>
  /\ lost' = lost \cup Ids(evq)
  /\ UNCHANGED <<systailVars, lines, sieveVars, sub, logged, applog>>

MonitorStep == PublishAppLog \/ InvalidTimelineEvent

-----------------------------------------------------------------------------
Next ==
  \/ \E n \in Name, t \in Text : Logs(n, t)
  \/ SystailStep
  \/ StartSieve \/ KillSieve \/ SieveStep
  \/ StartApptail \/ Subscribe \/ KillApptail \/ SendTimelineEvent
  \/ MonitorStep

Spec == Init /\ [][Next]_vars

\* Every process that has something to do does it, a killed tail comes to its end, and
\* the supervisor restarts what has exited.
FairSpec ==
  /\ Spec
  /\ \A n \in Name : WF_vars(TailLine(n)) /\ WF_vars(tails[n] = "dying" /\ TailDies(n))
  /\ WF_vars(StartSystail \/ NoFileLeft)
  /\ WF_vars(StartSieve) /\ WF_sub(Receive)
  /\ WF_vars(StartApptail \/ Subscribe \/ MonitorStep)

-----------------------------------------------------------------------------
\* Properties.

\* Whatever order the parser was built in, what it says of a record is what the patterns
\* say that are in its text, and never an event that none of them describes.
ParseMeetsReference ==
  \A i \in DOMAIN sub :
    Reference(sub[i].name, sub[i].text, Parse(order, sub[i].name, sub[i].text))

\* A restart of logyard_sieve builds its expression in another order; a text still makes
\* the same event, unless two substrings of a group begin at the same place in it.
OrderIrrelevant ==
  \A i \in DOMAIN sub, o \in Order :
    LET n == sub[i].name
        t == sub[i].text
    IN  NoTie(n, t) /\ NoTie(All, t) => Parse(o, n, t) = Parse(order, n, t)

\* The warning that logyard_sieve logs about a record it can not parse quotes the record,
\* and comes back to it through systail.  This does not go on for ever: a warning may cause
\* a second one, when it is cut and its end has no level, but the second one causes none.
EchoesEnd ==
  \A i \in DOMAIN sub :
    Parse(order, sub[i].name, sub[i].text).kind = "error" => sub[i].echo <= 1

\* A record that the star group's timeline parser finds first, and nothing of its own
\* group does.
IsTimeline(n, t) ==
  /\ Occurring(n, t) = {}
  /\ \E p \in Tree(All) :
       Leftmost(All, t) = {p} /\ p.type = Timeline /\ t.re[p.re] = "fit"

\* What is still to be read by systail, to be parsed by logyard_sieve or to be published
\* by apptail.
AwaitsTail(k) ==
  \E n \in Name : \E i \in DOMAIN lines[n] :
    lines[n][i].id = k /\ IsTimeline(n, lines[n][i].text)
AwaitsSieve(k) ==
  \E i \in DOMAIN sub : sub[i].id = k /\ IsTimeline(sub[i].name, sub[i].text)
OnItsWay(k) == AwaitsTail(k) \/ AwaitsSieve(k) \/ k \in Ids(evq)

\* No process lets a timeline record vanish in silence: from the log file to the app log
\* it is in the hands of one of the three, unless it is lost to a process that ends or to
\* a subscriber that is down or behind.
NoneVanishes ==
  [][\A k \in Id : OnItsWay(k) => OnItsWay(k)' \/ k \in applog' \cup lost']_vars

\* The members of q have different numbers, if any.
Once(q) == \A i, j \in DOMAIN q : q[i].id = q[j].id /\ q[i].id # 0 => i = j

\* Nothing becomes an app log twice, though part of the same line is written to a second
\* log file when logyard_sieve quotes it; what was lost does not turn up again; and the
\* head of a warning, which quotes what may be a timeline event, becomes none.
AppLogOnce ==
  /\ Once(evq)
  /\ \A i \in DOMAIN evq : evq[i].id # 0
  /\ Ids(evq) \cap (applog \cup lost) = {}
  /\ applog \cap lost = {}

\* A timeline record in a log file that is tailed becomes an app log, unless it is lost to
\* a process that ends or to a subscriber that is down or behind.
TimelineReachesAppLog ==
  \A k \in Id : AwaitsTail(k) ~> k \in applog \cup lost

\* systail does not live on with nothing to publish: when the last publishing goroutine
\* has ended, for whatever reason, it exits, to be restarted.
SystailExits == sys /\ pubs = {} ~> ~sys
===============================================================================
