------------------------- MODULE EventPipelineProofs -------------------------
(********************************************************************************)
(* Proofs about EventPipeline for any configuration of sieve that can be built, *)
(* any set of log files, and queues and numbers of lines of any length: types,  *)
(* what records are parsed to, that warnings about warnings end, that nothing   *)
(* becomes an app log twice, and that no timeline record vanishes unaccounted.  *)
(********************************************************************************)
EXTENDS EventPipeline, SieveProofs, SequenceTheorems

\* The parser of warnings.
LEMMA Warning ==
  \E p \in Tree(All) :
    /\ p.substring = Warn /\ p.re = WarnRe /\ Handler(p) = "simple" /\ p.refs <= p.groups
    /\ Warn \in Substring /\ WarnRe \in Regexp
BY WarningIsEvent DEF Tree, Substring, Regexp

\* The texts of a log file.
TextOf(n) ==
  IF n = SieveLog THEN {Quoted(t) : t \in Text} \cup {t \in Text : ~t.long} ELSE Text

\* What is in a line: a record of another log, the head of a warning, or its rest.
LEMMA LineIs ==
  ASSUME NEW n \in Name, NEW l \in Line(n)
  PROVE  /\ l.name = n /\ l.id \in Id \cup {0} /\ l.text \in TextOf(n)
         /\ n # SieveLog => l.id \in Id /\ l.echo = 0 /\ l.text \in Text
         /\ n = SieveLog =>
              \/ l.id = 0 /\ l.echo \in {1, 2} /\ \E t \in Text : l.text = Quoted(t)
              \/ l.id \in Id /\ l.echo = 1 /\ l.text \in Text /\ ~l.text.long
<1>1. CASE n # SieveLog
  BY <1>1 DEF Line, TextOf
<1>2. CASE n = SieveLog
  BY <1>2 DEF Line, TextOf
<1> QED
  BY <1>1, <1>2

LEMMA RecordIs ==
  ASSUME NEW r \in Record
  PROVE  r.name \in Name /\ r \in Line(r.name)
<1>1. PICK n \in Name : r \in Line(n)
  BY DEF Record
<1> QED
  BY <1>1, LineIs

\* Every text that is logged is one the parsers can be asked about.
LEMMA TextOfIsText ==
  ASSUME NEW n \in Name, NEW t \in TextOf(n)
  PROVE  IsText(t)
<1>1. CASE t \in Text
  <2>1. t.at \in [Substring -> Nat]
    BY <1>1, TextFitsParsers
  <2> QED
    BY <2>1 DEF IsText, Substring
<1>2. CASE \E u \in Text : t = Quoted(u)
  <2>1. PICK u \in Text : t = Quoted(u)
    BY <1>2
  <2>2. u.at \in [Substring -> Nat]
    BY TextFitsParsers
  <2>3. \A s \in Substring : t.at[s] \in Nat
    BY <2>1, <2>2 DEF Quoted
  <2> QED
    BY <2>3 DEF IsText, Substring
<1> QED
  BY <1>1, <1>2 DEF TextOf

\* The head of a warning makes the warning event, or none.
LEMMA QuotedIsWarning ==
  ASSUME NEW o \in Order, NEW u \in Text
  PROVE  /\ Parse(o, SieveLog, Quoted(u)).kind # "error"
         /\ Parse(o, SieveLog, Quoted(u)).kind = "event"
              => Parse(o, SieveLog, Quoted(u)).type # Timeline
<1> DEFINE t == Quoted(u)
<1>1. PICK w \in Tree(All) :
        /\ w.substring = Warn /\ w.re = WarnRe /\ Handler(w) = "simple"
        /\ w.refs <= w.groups /\ Warn \in Substring
  BY Warning
<1>2. t.at = [s \in Substring |->
                IF s \in {Warn, Empty} THEN 1 ELSE IF u.at[s] > 0 THEN u.at[s] + 1 ELSE 0]
  BY DEF Quoted
<1> HIDE DEF t
<1>3. Match(SieveLog, o, t) = {}
  BY SieveLogIsTailed DEF Match, FindString, Leftmost, Occurring
<1>4. ASSUME NEW p \in Match(All, o, t)
      PROVE  p = w
  <2>1. p \in Tree(All) /\ p.substring # Empty /\ p \in Leftmost(All, t)
    BY DEF Match, FindString, Leftmost, Occurring
  <2>2. p.substring \in Substring /\ u.at[p.substring] \in Nat
    BY <2>1, TextFitsParsers DEF Substring, Tree
  <2>3. t.at[Warn] = 1
    BY <1>1, <1>2
  <2>4. w \in Occurring(All, t)
    BY <1>1, <2>3 DEF Occurring
  <2>5. t.at[p.substring] <= 1 /\ t.at[p.substring] > 0
    BY <1>1, <2>1, <2>3, <2>4 DEF Leftmost, Occurring
  <2>6. p.substring = Warn
    BY <1>2, <2>1, <2>2, <2>5
  <2> QED
    BY <1>1, <2>1, <2>6, Buildable DEF Tree
<1>5. HandleEvent(w, SieveLog, t).kind = "event" /\ HandleEvent(w, SieveLog, t).type = w.type
  BY <1>1 DEF HandleEvent, Event
<1>6. w.type # Timeline
  BY <1>1, TimelineIsEvent
<1>7. CASE Match(All, o, t) = {}
  BY <1>3, <1>7, ParseCases DEF Nothing, t
<1>8. CASE Match(All, o, t) # {}
  BY <1>3, <1>4, <1>5, <1>6, <1>8, ParseCases DEF t
<1> QED
  BY <1>7, <1>8

\* A record that is warned about, or makes a timeline event, is none of these heads.
LEMMA Numbered ==
  ASSUME NEW o \in Order, NEW r \in Record,
         \/ Parse(o, r.name, r.text).kind = "error"
         \/ Parse(o, r.name, r.text).kind = "event" /\ Parse(o, r.name, r.text).type = Timeline
  PROVE  /\ r.id \in Id /\ r.text \in Text /\ r.echo \in {0, 1}
         /\ r.text.long => r.echo = 0
<1>1. r.name \in Name /\ r \in Line(r.name)
  BY RecordIs
<1>2. CASE r.name # SieveLog
  BY <1>1, <1>2, LineIs
<1>3. CASE r.name = SieveLog
  <2>1. ~ \E t \in Text : r.text = Quoted(t)
    BY <1>3, QuotedIsWarning
  <2> QED
    BY <1>1, <1>3, <2>1, LineIs
<1> QED
  BY <1>2, <1>3

\* What an event carries is what its expression captured, or nothing.
LEMMA EventInfo ==
  ASSUME NEW o \in Order, NEW n \in Name, NEW t \in TextOf(n),
         Parse(o, n, t).kind = "event"
  PROVE  Parse(o, n, t).info \in Captures
<1>1. Parse(o, n, t) # Nothing
  BY DEF Nothing
<1>2. PICK p \in Tree(n) \cup Tree(All) : Parse(o, n, t) = HandleEvent(p, n, t)
  BY <1>1, TextOfIsText, ParseIsRight DEF Reference
<1>3. t.re[p.re] \in Captures
  <2>1. p.re \in Regexp
    BY DEF Tree, Regexp
  <2>2. CASE t \in Text
    <3>1. t.re \in [Regexp -> Captures]
      BY <2>2, TextFitsParsers
    <3> QED
      BY <2>1, <3>1
  <2>3. CASE \E u \in Text : t = Quoted(u)
    <3>1. PICK u \in Text : t = Quoted(u)
      BY <2>3
    <3>2. u.re \in [Regexp -> Captures]
      BY TextFitsParsers
    <3> QED
      BY <2>1, <3>1, <3>2 DEF Quoted, Captures
  <2> QED
    BY <2>2, <2>3 DEF TextOf
<1> QED
  BY <1>2, <1>3 DEF HandleEvent, Event, Error, Panic, Captures

-----------------------------------------------------------------------------
\* Queues.

LEMMA Queue ==
  ASSUME NEW S, NEW q \in Seq(S)
  PROVE  /\ <<>> \in Seq(S) /\ Len(<<>>) = 0
         /\ \A e \in S : Append(q, e) \in Seq(S) /\ Len(Append(q, e)) = Len(q) + 1
         /\ q # <<>> => /\ Head(q) \in S
                        /\ Tail(q) \in Seq(S) /\ Len(Tail(q)) <= Len(q)
         /\ \A i \in DOMAIN q : q[i] \in S
         /\ Len(q) \in Nat
OBVIOUS

LEMMA IdsAreIds ==
  /\ \A n \in Name : \A q \in Seq(Line(n)) : Ids(q) \subseteq Id
  /\ \A q \in Seq(Record) : Ids(q) \subseteq Id
  /\ \A q \in Seq(TimelineMsg) : Ids(q) \subseteq Id
<1>1. ASSUME NEW n \in Name, NEW q \in Seq(Line(n))
      PROVE  Ids(q) \subseteq Id
  BY LineIs, Queue DEF Ids
<1>2. ASSUME NEW q \in Seq(Record)
      PROVE  Ids(q) \subseteq Id
  <2>1. \A r \in Record : r.id \in Id \cup {0}
    BY RecordIs, LineIs
  <2> QED
    BY <2>1, Queue DEF Ids
<1>3. ASSUME NEW q \in Seq(TimelineMsg)
      PROVE  Ids(q) \subseteq Id
  <2>1. \A m \in TimelineMsg : m.id \in Id
    BY DEF TimelineMsg
  <2> QED
    BY <2>1, Queue DEF Ids
<1> QED
  BY <1>1, <1>2, <1>3

\* The broker keeps a queue within its length.
LEMMA Published ==
  ASSUME NEW S, NEW q \in Seq(S), Len(q) <= QueueLen, NEW there \in BOOLEAN, NEW e \in S
  PROVE  Publish(q, there, e) \in Seq(S) /\ Len(Publish(q, there, e)) <= QueueLen
BY Queue, PipelineBounds DEF Publish

LEMMA Written ==
  ASSUME TypeOK, NEW n \in Name, NEW q \in Seq(Line(n)), Write(n, q)
  PROVE  /\ DOMAIN lines' = Name /\ \A m \in Name : lines'[m] \in Seq(Line(m))
         /\ lost' \subseteq Id
<1>1. Ids(q) \subseteq Id
  BY IdsAreIds
<1>2. lines[n] \o q \in Seq(Line(n))
  BY ConcatProperties DEF TypeOK
<1> QED
  BY <1>1, <1>2 DEF Write, TypeOK

\* What somebody logs.
LEMMA LoggedLine ==
  ASSUME NEW n \in Name, n # SieveLog, NEW t \in Text, NEW k \in Id
  PROVE  LET q == <<[id |-> k, echo |-> 0, name |-> n, text |-> t]>>
         IN  q \in Seq(Line(n)) /\ Ids(q) = {k} /\ Once(q)
<1> DEFINE l == [id |-> k, echo |-> 0, name |-> n, text |-> t]
<1>1. l \in Line(n) /\ l.id = k
  BY DEF Line
<1>2. k # 0
  BY PipelineBounds DEF Id
<1> HIDE DEF l
<1>3. <<l>> \in Seq(Line(n)) /\ DOMAIN <<l>> = {1} /\ <<l>>[1] = l
  BY <1>1
<1>4. Ids(<<l>>) = {k} /\ Once(<<l>>)
  BY <1>1, <1>2, <1>3 DEF Ids, Once
<1> QED
  BY <1>3, <1>4 DEF l

\* What logyard_sieve logs about a record.
LEMMA WarningLines ==
  ASSUME TypeOK, Receive, SieveWarns(Parse(order, Head(sub).name, Head(sub).text))
  PROVE  \E q \in Seq(Line(SieveLog)) :
           /\ Write(SieveLog, q)
           /\ Ids(q) \subseteq {Head(sub).id} /\ Once(q)
<1> DEFINE r == Head(sub)
           first == [id |-> 0, echo |-> r.echo + 1, name |-> SieveLog, text |-> Quoted(r.text)]
           rest(u) == [id |-> r.id, echo |-> r.echo + 1, name |-> SieveLog, text |-> u]
<1>1. r \in Record /\ order \in Order
  BY Queue DEF TypeOK, Receive
<1>2. /\ r.id \in Id /\ r.text \in Text /\ r.echo \in {0, 1}
      /\ r.text.long => r.echo = 0
  BY <1>1, Numbered DEF SieveWarns
<1>3. first \in Line(SieveLog) /\ first.id = 0
  BY <1>2 DEF Line
<1>4. ASSUME r.text.long, NEW u \in Rest(r.text)
      PROVE  rest(u) \in Line(SieveLog) /\ rest(u).id = r.id
  <2>1. u \in Text /\ ~u.long
    BY <1>4 DEF Rest
  <2>2. r.echo + 1 = 1
    BY <1>2, <1>4
  <2> QED
    BY <1>2, <2>1, <2>2 DEF Line
<1>5. CASE r.text.long
  <2>1. PICK u \in Rest(r.text) : Write(SieveLog, <<first, rest(u)>>)
    BY <1>5 DEF SieveWarns
  <2> DEFINE y == rest(u)
  <2>2. y \in Line(SieveLog) /\ y.id = r.id
    BY <1>4, <1>5
  <2>3. Write(SieveLog, <<first, y>>)
    BY <2>1
  <2> HIDE DEF y, first, rest, r
  <2>4. /\ <<first, y>> \in Seq(Line(SieveLog)) /\ DOMAIN <<first, y>> = {1, 2}
        /\ <<first, y>>[1] = first /\ <<first, y>>[2] = y
    BY <1>3, <2>2
  <2>5. Ids(<<first, y>>) \subseteq {r.id} /\ Once(<<first, y>>)
    BY <1>3, <2>2, <2>4 DEF Ids, Once
  <2> QED
    BY <2>3, <2>4, <2>5 DEF r
<1>6. CASE ~r.text.long
  <2>1. Write(SieveLog, <<first>>)
    BY <1>6 DEF SieveWarns
  <2> HIDE DEF first, rest, r
  <2>2. /\ <<first>> \in Seq(Line(SieveLog)) /\ DOMAIN <<first>> = {1}
        /\ <<first>>[1] = first
    BY <1>3
  <2>3. Ids(<<first>>) \subseteq {r.id} /\ Once(<<first>>)
    BY <1>3, <2>2 DEF Ids, Once
  <2> QED
    BY <2>1, <2>2, <2>3 DEF r
<1> QED
  BY <1>5, <1>6

-----------------------------------------------------------------------------
LEMMA InitTypeOK == Init => TypeOK
<1> SUFFICES ASSUME Init PROVE TypeOK
  OBVIOUS
<1>1. \A S : <<>> \in Seq(S) /\ Len(<<>>) = 0
  OBVIOUS
<1>2. 0 \in 0..MaxLines /\ 0 <= QueueLen
  BY PipelineBounds
<1>3. \A n \in Name : lines[n] \in Seq(Line(n))
  BY <1>1 DEF Init
<1> QED
  BY <1>1, <1>2, <1>3 DEF Init, TypeOK

LEMMA LogsPreserves ==
  ASSUME TypeOK, NEW n \in Name, NEW t \in Text, Logs(n, t)
  PROVE  TypeOK'
<1>1. logged' \in Id /\ logged' \in 0..MaxLines
  BY PipelineBounds DEF Logs, Id, TypeOK
<1>2. n # SieveLog /\ Write(n, <<[id |-> logged', echo |-> 0, name |-> n, text |-> t]>>)
  BY DEF Logs
<1>3. /\ DOMAIN lines' = Name /\ \A m \in Name : lines'[m] \in Seq(Line(m))
      /\ lost' \subseteq Id
  BY <1>1, <1>2, LoggedLine, Written
<1> QED
  BY <1>1, <1>3 DEF Logs, TypeOK, systailVars, sieveVars

LEMMA SystailPreserves ==
  ASSUME TypeOK, SystailStep
  PROVE  TypeOK'
<1> USE DEF TypeOK, systailVars, sieveVars
<1>1. ASSUME NEW n \in Name, TailLine(n)
      PROVE  TypeOK'
  <2> DEFINE l == Head(lines[n])
  <2>1. l \in Line(n) /\ Tail(lines[n]) \in Seq(Line(n))
    BY <1>1, Queue DEF TailLine
  <2>2. l \in Record /\ l.id \in Id \cup {0}
    BY <2>1, LineIs DEF Record
  <2>3. Publish(sub, sieve, l) \in Seq(Record) /\ Len(Publish(sub, sieve, l)) <= QueueLen
    BY <2>2, Published
  <2> QED
    BY <1>1, <2>1, <2>2, <2>3 DEF TailLine
<1>2. ASSUME NEW n \in Name, EncodeFails(n) \/ TailDies(n)
      PROVE  TypeOK'
  <2>1. Ids(lines[n]) \subseteq Id /\ <<>> \in Seq(Line(n))
    BY IdsAreIds, Queue
  <2>2. /\ DOMAIN lines' = Name /\ \A m \in Name : lines'[m] \in Seq(Line(m))
        /\ lost' \subseteq Id
    BY <1>2, <2>1 DEF EncodeFails, TailDies
  <2> QED
    BY <1>2, <2>2 DEF EncodeFails, TailDies
<1>3. CASE StartSystail
  BY <1>3 DEF StartSystail
<1>4. CASE NoFileLeft
  BY <1>4 DEF NoFileLeft
<1>5. CASE KillSystail
  <2>1. \A n \in Name : Ids(lines[n]) \subseteq Id /\ <<>> \in Seq(Line(n))
    BY IdsAreIds, Queue
  <2>2. /\ DOMAIN lines' = Name /\ \A m \in Name : lines'[m] \in Seq(Line(m))
        /\ lost' \subseteq Id
    BY <1>5, <2>1 DEF KillSystail
  <2> QED
    BY <1>5, <2>2 DEF KillSystail
<1> QED
  BY <1>1, <1>2, <1>3, <1>4, <1>5 DEF SystailStep

LEMMA SieveStepPreserves ==
  ASSUME TypeOK, SieveStep
  PROVE  TypeOK'
<1> DEFINE r == Head(sub)
           e == Parse(order, r.name, r.text)
<1> USE DEF TypeOK, systailVars, sieveVars
<1>1. r \in Record /\ sub' = Tail(sub) /\ sub' \in Seq(Record) /\ Len(sub') <= QueueLen
  BY Queue, PipelineBounds DEF SieveStep, Receive
<1>2. r.id \in Id \cup {0} /\ r.name \in Name /\ r.text \in TextOf(r.name)
  BY <1>1, RecordIs, LineIs
<1>3. SieveIgnores(e) \/ SievePublishes(e) \/ SieveWarns(e) \/ SievePanics(e)
  BY DEF SieveStep
<1> HIDE DEF e
<1>4. CASE SieveIgnores(e)
  BY <1>1, <1>4 DEF SieveIgnores
<1>5. CASE SievePublishes(e)
  <2>1. e.info \in Captures /\ r.id \in Id
    BY <1>1, <1>2, <1>5, EventInfo, Numbered DEF e, SievePublishes
  <2>2. [id |-> r.id, info |-> e.info] \in TimelineMsg
    BY <2>1 DEF TimelineMsg
  <2>3. evq' \in Seq(TimelineMsg) /\ Len(evq') <= QueueLen
    BY <1>5, <2>2, Published DEF SievePublishes
  <2> QED
    BY <1>1, <1>5, <2>1, <2>3 DEF SievePublishes
<1>6. CASE SieveWarns(e)
  <2>1. PICK q \in Seq(Line(SieveLog)) : Write(SieveLog, q)
    BY <1>6, WarningLines DEF SieveStep, e
  <2>2. /\ DOMAIN lines' = Name /\ \A m \in Name : lines'[m] \in Seq(Line(m))
        /\ lost' \subseteq Id
    BY <2>1, SieveLogIsTailed, Written
  <2> QED
    BY <1>1, <1>6, <2>2 DEF SieveWarns
<1>7. CASE SievePanics(e)
  BY <1>1, <1>2, <1>7 DEF SievePanics
<1> QED
  BY <1>3, <1>4, <1>5, <1>6, <1>7

LEMMA OthersPreserve ==
  ASSUME TypeOK,
         \/ StartSieve \/ KillSieve
         \/ StartApptail \/ Subscribe \/ KillApptail \/ SendTimelineEvent \/ MonitorStep
  PROVE  TypeOK'
<1> USE DEF TypeOK, systailVars, sieveVars
<1>0. \A S : <<>> \in Seq(S) /\ Len(<<>>) <= QueueLen
  BY PipelineBounds
<1>1. CASE StartSieve
  BY <1>0, <1>1, IdsAreIds DEF StartSieve
<1>2. CASE KillSieve
  BY <1>2 DEF KillSieve
<1>3. CASE StartApptail \/ Subscribe
  BY <1>3 DEF StartApptail, Subscribe
<1>4. CASE KillApptail
  BY <1>0, <1>4, IdsAreIds DEF KillApptail
<1>5. CASE SendTimelineEvent
  <2>1. logged' \in Id /\ logged' \in 0..MaxLines
    BY <1>5, PipelineBounds DEF SendTimelineEvent, Id
  <2>2. [id |-> logged', info |-> "fit"] \in TimelineMsg
    BY <2>1 DEF TimelineMsg, Captures
  <2>3. evq' \in Seq(TimelineMsg) /\ Len(evq') <= QueueLen
    BY <1>5, <2>2, Published DEF SendTimelineEvent
  <2> QED
    BY <1>5, <2>1, <2>3 DEF SendTimelineEvent
<1>6. CASE PublishAppLog
  <2>1. /\ Head(evq) \in TimelineMsg
        /\ evq' \in Seq(TimelineMsg) /\ Len(evq') <= QueueLen
    BY <1>6, Queue, PipelineBounds DEF PublishAppLog
  <2>2. Head(evq).id \in Id
    BY <2>1 DEF TimelineMsg
  <2> QED
    BY <1>6, <2>1, <2>2 DEF PublishAppLog
<1>7. CASE InvalidTimelineEvent
  BY <1>0, <1>7, IdsAreIds DEF InvalidTimelineEvent
<1> QED
  BY <1>1, <1>2, <1>3, <1>4, <1>5, <1>6, <1>7 DEF MonitorStep

LEMMA NextPreserves == TypeOK /\ [Next]_vars => TypeOK'
<1> SUFFICES ASSUME TypeOK, [Next]_vars PROVE TypeOK'
  OBVIOUS
<1>1. CASE UNCHANGED vars
  BY <1>1 DEF TypeOK, vars, systailVars, sieveVars
<1>2. CASE \E n \in Name, t \in Text : Logs(n, t)
  BY <1>2, LogsPreserves
<1>3. CASE SystailStep
  BY <1>3, SystailPreserves
<1>4. CASE SieveStep
  BY <1>4, SieveStepPreserves
<1>5. CASE \/ StartSieve \/ KillSieve
           \/ StartApptail \/ Subscribe \/ KillApptail \/ SendTimelineEvent
           \/ MonitorStep
  BY <1>5, OthersPreserve
<1> QED
  BY <1>1, <1>2, <1>3, <1>4, <1>5 DEF Next

\* Every variable keeps its type; in particular no queue outgrows its bound, and the
\* log of logyard_sieve has warnings about records of other logs or about the ends of such
\* warnings, and nothing else.
THEOREM PipelineTypes == Spec => []TypeOK
BY InitTypeOK, NextPreserves, PTL DEF Spec

-----------------------------------------------------------------------------
\* A record in the subscription has a text its log file can have.
LEMMA Subscribed ==
  ASSUME TypeOK, NEW i \in DOMAIN sub
  PROVE  sub[i].name \in Name /\ sub[i].text \in TextOf(sub[i].name)
<1>1. sub[i] \in Record
  BY Queue DEF TypeOK
<1> QED
  BY <1>1, RecordIs, LineIs

\* Whatever is subscribed to is parsed to what the patterns say.
THEOREM RecordsAreParsedRight == Spec => []ParseMeetsReference
<1>1. TypeOK => ParseMeetsReference
  <2> SUFFICES ASSUME TypeOK, NEW i \in DOMAIN sub
               PROVE  Reference(sub[i].name, sub[i].text,
                                Parse(order, sub[i].name, sub[i].text))
    BY DEF ParseMeetsReference
  <2>1. IsText(sub[i].text)
    BY Subscribed, TextOfIsText
  <2>2. order \in Order
    BY DEF TypeOK
  <2> QED
    BY <2>1, <2>2, ParseIsRight
<1> QED
  BY <1>1, PipelineTypes, PTL

\* A restart of logyard_sieve changes the event of no record without a tie.
THEOREM RestartsDoNotMatter == Spec => []OrderIrrelevant
<1>1. TypeOK => OrderIrrelevant
  <2> SUFFICES ASSUME TypeOK, NEW i \in DOMAIN sub, NEW o \in Order,
                      NoTie(sub[i].name, sub[i].text), NoTie(All, sub[i].text)
               PROVE  Parse(o, sub[i].name, sub[i].text)
                        = Parse(order, sub[i].name, sub[i].text)
    BY DEF OrderIrrelevant
  <2>1. order \in Order
    BY DEF TypeOK
  <2> QED
    BY <2>1, OrderDoesNotMatter
<1> QED
  BY <1>1, PipelineTypes, PTL

\* logyard_sieve warns about a record of another log, and perhaps about the end of the
\* warning, but never about a warning of the second kind: no record causes more than two.
THEOREM WarningsEnd == Spec => []EchoesEnd
<1>1. TypeOK => EchoesEnd
  <2> SUFFICES ASSUME TypeOK, NEW i \in DOMAIN sub,
                      Parse(order, sub[i].name, sub[i].text).kind = "error"
               PROVE  sub[i].echo <= 1
    BY DEF EchoesEnd
  <2>1. sub[i] \in Record /\ order \in Order
    BY Queue DEF TypeOK
  <2>2. sub[i].echo \in {0, 1}
    BY <2>1, Numbered
  <2> QED
    BY <2>2
<1> QED
  BY <1>1, PipelineTypes, PTL

-----------------------------------------------------------------------------
\* What becomes of a record: queues and the ids in them.

LEMMA IdsOfQueue ==
  ASSUME NEW S, NEW q \in Seq(S)
  PROVE  /\ Ids(<<>>) = {} /\ Once(<<>>)
         /\ \A e \in S : /\ Ids(Append(q, e)) = Ids(q) \cup ({e.id} \ {0})
                         /\ Once(q) /\ e.id \notin Ids(q) => Once(Append(q, e))
         /\ q # <<>> => /\ Ids(q) = Ids(Tail(q)) \cup ({Head(q).id} \ {0})
                        /\ Once(q) => Once(Tail(q)) /\ Head(q).id \notin Ids(Tail(q))
<1>1. Ids(<<>>) = {} /\ Once(<<>>)
  BY DEF Ids, Once
<1>2. ASSUME NEW e \in S
      PROVE  /\ Ids(Append(q, e)) = Ids(q) \cup ({e.id} \ {0})
             /\ Once(q) /\ e.id \notin Ids(q) => Once(Append(q, e))
  <2>1. /\ DOMAIN q = 1..Len(q) /\ Len(q) \in Nat
        /\ DOMAIN Append(q, e) = 1..(Len(q) + 1)
        /\ Append(q, e)[Len(q) + 1] = e
        /\ \A i \in 1..Len(q) : Append(q, e)[i] = q[i]
    OBVIOUS
  <2>2. Ids(Append(q, e)) = Ids(q) \cup ({e.id} \ {0})
    <3>1. ASSUME NEW x \in Ids(q) \cup ({e.id} \ {0}) PROVE x \in Ids(Append(q, e))
      BY <2>1 DEF Ids
    <3>2. ASSUME NEW x \in Ids(Append(q, e)) PROVE x \in Ids(q) \cup ({e.id} \ {0})
      BY <2>1 DEF Ids
    <3> QED
      BY <3>1, <3>2
  <2>3. ASSUME Once(q), e.id \notin Ids(q) PROVE Once(Append(q, e))
    BY <2>1, <2>3 DEF Once, Ids
  <2> QED
    BY <2>2, <2>3
<1>3. ASSUME q # <<>>
      PROVE  /\ Ids(q) = Ids(Tail(q)) \cup ({Head(q).id} \ {0})
             /\ Once(q) => Once(Tail(q)) /\ Head(q).id \notin Ids(Tail(q))
  <2>1. /\ Len(q) \in Nat /\ Len(q) > 0 /\ DOMAIN q = 1..Len(q)
        /\ DOMAIN Tail(q) = 1..(Len(q) - 1) /\ Head(q) = q[1]
        /\ \A i \in 1..(Len(q) - 1) : Tail(q)[i] = q[i + 1]
    BY <1>3
  <2>2. Ids(q) = Ids(Tail(q)) \cup ({Head(q).id} \ {0})
    <3>1. ASSUME NEW i \in DOMAIN q, q[i].id # 0
          PROVE  q[i].id \in Ids(Tail(q)) \cup {Head(q).id}
      <4>1. CASE i = 1
        BY <2>1, <4>1
      <4>2. CASE i # 1
        <5>1. i - 1 \in 1..(Len(q) - 1) /\ Tail(q)[i - 1] = q[i]
          BY <2>1, <4>2
        <5> QED
          BY <2>1, <3>1, <5>1 DEF Ids
      <4> QED
        BY <4>1, <4>2
    <3>2. ASSUME NEW x \in Ids(Tail(q)) \cup ({Head(q).id} \ {0}) PROVE x \in Ids(q)
      BY <2>1 DEF Ids
    <3> QED
      BY <3>1, <3>2 DEF Ids
  <2>3. ASSUME Once(q) PROVE Once(Tail(q)) /\ Head(q).id \notin Ids(Tail(q))
    BY <2>1, <2>3 DEF Once, Ids
  <2> QED
    BY <2>2, <2>3
<1> QED
  BY <1>1, <1>2, <1>3

\* Lines that are written together.
LEMMA IdsOfConcat ==
  ASSUME NEW S, NEW p \in Seq(S), NEW q \in Seq(S)
  PROVE  /\ Ids(p \o q) = Ids(p) \cup Ids(q)
         /\ Once(p) /\ Once(q) /\ Ids(p) \cap Ids(q) = {} => Once(p \o q)
<1>1. /\ DOMAIN p = 1..Len(p) /\ Len(p) \in Nat /\ DOMAIN q = 1..Len(q) /\ Len(q) \in Nat
      /\ DOMAIN (p \o q) = 1..(Len(p) + Len(q))
      /\ \A i \in 1..Len(p) : (p \o q)[i] = p[i]
      /\ \A i \in 1..(Len(p) + Len(q)) : i > Len(p) => (p \o q)[i] = q[i - Len(p)]
  OBVIOUS
<1> DEFINE c == p \o q
<1>2. \A i \in DOMAIN c :
        \/ i \in DOMAIN p /\ c[i] = p[i]
        \/ i - Len(p) \in DOMAIN q /\ c[i] = q[i - Len(p)] /\ i \in Nat
  BY <1>1
<1>3. /\ \A i \in DOMAIN p : i \in DOMAIN c /\ c[i] = p[i]
      /\ \A i \in DOMAIN q : i + Len(p) \in DOMAIN c /\ c[i + Len(p)] = q[i]
  BY <1>1
<1> HIDE DEF c
<1>4. ASSUME NEW x \in Ids(c) PROVE x \in Ids(p) \cup Ids(q)
  BY <1>2 DEF Ids
<1>5. ASSUME NEW x \in Ids(p) \cup Ids(q) PROVE x \in Ids(c)
  BY <1>3 DEF Ids
<1>6. ASSUME Once(p), Once(q), Ids(p) \cap Ids(q) = {} PROVE Once(c)
  <2> SUFFICES ASSUME NEW i \in DOMAIN c, NEW j \in DOMAIN c, c[i].id = c[j].id, c[i].id # 0
               PROVE  i = j
    BY DEF Once
  <2>1. CASE i \in DOMAIN p /\ c[i] = p[i] /\ j \in DOMAIN p /\ c[j] = p[j]
    BY <1>6, <2>1 DEF Once
  <2>2. CASE /\ i - Len(p) \in DOMAIN q /\ c[i] = q[i - Len(p)] /\ i \in Nat
             /\ j - Len(p) \in DOMAIN q /\ c[j] = q[j - Len(p)] /\ j \in Nat
    <3>1. i - Len(p) = j - Len(p)
      BY <1>6, <2>2 DEF Once
    <3> QED
      BY <1>1, <2>2, <3>1
  <2>3. ~(c[i].id \in Ids(p) /\ c[i].id \in Ids(q))
    BY <1>6
  <2> QED
    BY <1>2, <2>1, <2>2, <2>3 DEF Ids
<1> QED
  BY <1>4, <1>5, <1>6 DEF c

\* Every id is in one place, once, and has been given out.
Apart ==
  /\ \A n \in Name : Once(lines[n])
  /\ Once(sub)
  /\ \A n \in Name : \A k \in Ids(lines[n]) :
       /\ \A m \in Name : k \in Ids(lines[m]) => m = n
       /\ k \notin Ids(sub) \cup Ids(evq) \cup applog \cup lost
  /\ \A k \in Ids(sub) : k \notin Ids(evq) \cup applog \cup lost
  /\ AppLogOnce

GivenOut ==
  /\ \A n \in Name : Ids(lines[n]) \subseteq 1..logged
  /\ Ids(sub) \cup Ids(evq) \cup applog \cup lost \subseteq 1..logged

DInv == TypeOK /\ Apart /\ GivenOut

\* Lines are written with ids that are nowhere, or only were in the subscription.
LEMMA WriteKeepsApart ==
  ASSUME DInv, NEW n \in Name, NEW q \in Seq(Line(n)), Write(n, q), Once(q),
         \A k \in Ids(q) : /\ \A m \in Name : k \notin Ids(lines[m])
                           /\ k \notin Ids(sub') \cup Ids(evq) \cup applog \cup lost,
         Once(sub'), Ids(sub') \subseteq Ids(sub), UNCHANGED <<evq, applog>>
  PROVE  Apart'
<1> USE DEF DInv
<1>1. CASE n \in pubs
  <2>1. /\ lost' = lost /\ DOMAIN lines' = Name
        /\ lines'[n] = lines[n] \o q /\ \A m \in Name \ {n} : lines'[m] = lines[m]
    BY <1>1 DEF Write, TypeOK
  <2>2. Ids(lines'[n]) = Ids(lines[n]) \cup Ids(q) /\ Once(lines'[n])
    <3>1. lines[n] \in Seq(Line(n)) /\ Once(lines[n]) /\ Ids(lines[n]) \cap Ids(q) = {}
      BY DEF TypeOK, Apart
    <3> QED
      BY <2>1, <3>1, IdsOfConcat
  <2>3. Once(sub') /\ \A m \in Name : Once(lines'[m])
    BY <2>1, <2>2 DEF Apart
  <2>4. ASSUME NEW m \in Name, NEW k \in Ids(lines'[m])
        PROVE  /\ \A a \in Name : k \in Ids(lines'[a]) => a = m
               /\ k \notin Ids(sub') \cup Ids(evq') \cup applog' \cup lost'
    <3>1. \A a \in Name :
            k \in Ids(lines'[a]) => k \in Ids(lines[a]) \/ (a = n /\ k \in Ids(q))
      BY <2>1, <2>2
    <3>2. CASE k \in Ids(q)
      BY <2>1, <3>1, <3>2
    <3>3. CASE k \notin Ids(q)
      <4>1. k \in Ids(lines[m])
        BY <3>1, <3>3
      <4> QED
        BY <2>1, <3>1, <3>3, <4>1 DEF Apart
    <3> QED
      BY <3>2, <3>3
  <2>5. AppLogOnce' /\ \A k \in Ids(sub') : k \notin Ids(evq') \cup applog' \cup lost'
    BY <2>1, <2>2 DEF Apart, AppLogOnce
  <2> QED
    BY <2>3, <2>4, <2>5 DEF Apart
<1>2. CASE n \notin pubs
  BY <1>2 DEF Write, Apart, AppLogOnce
<1> QED
  BY <1>1, <1>2

\* Every event has a number.
LEMMA EventsAreNumbered ==
  ASSUME NEW q \in Seq(TimelineMsg)
  PROVE  \A i \in DOMAIN q : q[i].id \in Id /\ q[i].id # 0
<1>1. \A m \in TimelineMsg : m.id \in Id
  BY DEF TimelineMsg
<1>2. 0 \notin Id
  BY PipelineBounds DEF Id
<1> QED
  BY <1>1, <1>2, Queue

\* The message m is published to apptail with such an id.
LEMMA PublishKeepsApart ==
  ASSUME DInv, NEW m \in TimelineMsg, NEW there \in BOOLEAN,
         evq' = Publish(evq, there, m),
         lost' = (IF Dropped(evq, there) THEN lost \cup {m.id} ELSE lost),
         \A n \in Name : m.id \notin Ids(lines[n]),
         m.id \notin Ids(sub') \cup Ids(evq) \cup applog \cup lost,
         Once(sub'), Ids(sub') \subseteq Ids(sub), UNCHANGED <<lines, applog>>
  PROVE  Apart'
<1> USE DEF DInv
<1>1. CASE Dropped(evq, there)
  <2>1. evq' = evq /\ lost' = lost \cup {m.id}
    BY <1>1 DEF Dropped, Publish
  <2> QED
    BY <2>1 DEF Apart, AppLogOnce
<1>2. CASE ~Dropped(evq, there)
  <2>1. evq' = Append(evq, m) /\ lost' = lost
    BY <1>2 DEF Dropped, Publish
  <2>2. Ids(evq') = Ids(evq) \cup ({m.id} \ {0}) /\ Once(evq')
    BY <2>1, IdsOfQueue DEF TypeOK, Apart, AppLogOnce
  <2>3. \A i \in DOMAIN evq' : evq'[i].id # 0
    <3>1. evq' \in Seq(TimelineMsg)
      BY <2>1, Queue DEF TypeOK
    <3> QED
      BY <3>1, EventsAreNumbered
  <2>4. AppLogOnce'
    BY <2>1, <2>2, <2>3 DEF Apart, AppLogOnce
  <2> QED
    <3>1. \A n \in Name : \A k \in Ids(lines[n]) :
            /\ \A a \in Name : k \in Ids(lines[a]) => a = n
            /\ k \notin Ids(sub') \cup Ids(evq') \cup applog \cup lost
      BY <2>2 DEF Apart
    <3>2. \A k \in Ids(sub') : k \notin Ids(evq') \cup applog \cup lost
      BY <2>2 DEF Apart
    <3> QED
      BY <2>1, <2>4, <3>1, <3>2 DEF Apart
<1> QED
  BY <1>1, <1>2

\* The next id is one that is nowhere.
LEMMA NextIdIsNew ==
  ASSUME DInv, logged' = logged + 1
  PROVE  /\ \A n \in Name : logged' \notin Ids(lines[n])
         /\ logged' \notin Ids(sub) \cup Ids(evq) \cup applog \cup lost
BY DEF DInv, GivenOut, TypeOK

LEMMA LogsKeepsApart ==
  ASSUME DInv, NEW n \in Name, NEW t \in Text, Logs(n, t)
  PROVE  Apart'
<1> DEFINE q == <<[id |-> logged', echo |-> 0, name |-> n, text |-> t]>>
<1>1. logged' \in Id /\ logged' = logged + 1
  BY PipelineBounds DEF DInv, Logs, Id, TypeOK
<1>2. Write(n, q) /\ n # SieveLog /\ UNCHANGED <<sub, evq, applog>>
  BY DEF Logs
<1>3. q \in Seq(Line(n)) /\ Ids(q) = {logged'} /\ Once(q)
  BY <1>1, <1>2, LoggedLine
<1> HIDE DEF q
<1>4. \A k \in Ids(q) : /\ \A m \in Name : k \notin Ids(lines[m])
                        /\ k \notin Ids(sub') \cup Ids(evq) \cup applog \cup lost
  BY <1>1, <1>2, <1>3, NextIdIsNew
<1>5. Once(sub') /\ Ids(sub') \subseteq Ids(sub)
  BY <1>2 DEF DInv, Apart
<1> QED
  BY <1>2, <1>3, <1>4, <1>5, WriteKeepsApart

LEMMA SendKeepsApart ==
  ASSUME DInv, SendTimelineEvent
  PROVE  Apart'
<1> DEFINE m == [id |-> logged', info |-> "fit"]
<1>1. logged' \in Id /\ logged' = logged + 1
  BY PipelineBounds DEF DInv, SendTimelineEvent, Id, TypeOK
<1>2. m \in TimelineMsg /\ m.id = logged'
  BY <1>1 DEF TimelineMsg, Captures
<1> DEFINE there == mon = "up"
<1>3. /\ evq' = Publish(evq, there, m) /\ there \in BOOLEAN
      /\ lost' = IF Dropped(evq, there) THEN lost \cup {m.id} ELSE lost
      /\ UNCHANGED <<lines, sub, applog>>
  BY DEF SendTimelineEvent
<1> HIDE DEF m, there
<1>4. /\ \A n \in Name : m.id \notin Ids(lines[n])
      /\ m.id \notin Ids(sub') \cup Ids(evq) \cup applog \cup lost
      /\ Once(sub') /\ Ids(sub') \subseteq Ids(sub)
  BY <1>1, <1>2, <1>3, NextIdIsNew DEF DInv, Apart
<1> QED
  BY <1>2, <1>3, <1>4, PublishKeepsApart

LEMMA SystailKeepsApart ==
  ASSUME DInv, SystailStep
  PROVE  Apart'
<1> USE DEF DInv
<1>1. ASSUME NEW n \in Name, TailLine(n)
      PROVE  Apart'
  <2> DEFINE l == Head(lines[n])
             new == {l.id} \ {0}
  <2>1. /\ l \in Line(n) /\ Ids(lines[n]) = Ids(Tail(lines[n])) \cup new
        /\ Once(Tail(lines[n])) /\ l.id \notin Ids(Tail(lines[n]))
    BY <1>1, Queue, IdsOfQueue DEF TailLine, TypeOK, Apart
  <2>2. l \in Record
    BY <2>1 DEF Record
  <2>3. /\ sub' = Publish(sub, sieve, l)
        /\ lost' = IF Dropped(sub, sieve) THEN lost \cup new ELSE lost
        /\ UNCHANGED <<evq, applog>>
        /\ DOMAIN lines' = Name
        /\ lines'[n] = Tail(lines[n]) /\ \A m \in Name \ {n} : lines'[m] = lines[m]
    BY <1>1 DEF TailLine, TypeOK
  <2> HIDE DEF l
  <2>4. \A k \in new : k \notin Ids(sub) \cup Ids(evq) \cup applog \cup lost
    BY <2>1 DEF Apart
  <2>5. \A m \in Name : /\ \A k \in new : k \notin Ids(lines'[m])
                        /\ Ids(lines'[m]) \subseteq Ids(lines[m])
    BY <2>1, <2>3 DEF Apart
  <2>6. \A m \in Name : Once(lines'[m])
    BY <2>1, <2>3 DEF Apart
  <2>7. l.id \notin Ids(sub)
    BY <2>4 DEF Ids
  <2> HIDE DEF new, DInv
  <2>8. CASE Dropped(sub, sieve)
    <3>1. sub' = sub /\ lost' = lost \cup new
      BY <2>3, <2>8 DEF Dropped, Publish
    <3> QED
      BY <2>3, <2>4, <2>5, <2>6, <3>1 DEF Apart, AppLogOnce, DInv
  <2>9. CASE ~Dropped(sub, sieve)
    <3>1. sub' = Append(sub, l) /\ lost' = lost
      BY <2>3, <2>9 DEF Dropped, Publish
    <3>2. Ids(sub') = Ids(sub) \cup new /\ Once(sub')
      BY <2>2, <2>7, <3>1, IdsOfQueue DEF TypeOK, Apart, DInv, new
    <3> QED
      BY <2>3, <2>4, <2>5, <2>6, <3>1, <3>2 DEF Apart, AppLogOnce, DInv
  <2> QED
    BY <2>8, <2>9
<1>2. ASSUME NEW n \in Name, EncodeFails(n) \/ TailDies(n)
      PROVE  Apart'
  <2>1. /\ lost' = lost \cup Ids(lines[n]) /\ UNCHANGED <<sub, evq, applog>>
        /\ lines'[n] = <<>> /\ \A m \in Name \ {n} : lines'[m] = lines[m]
    BY <1>2 DEF EncodeFails, TailDies, TypeOK
  <2>2. Ids(lines'[n]) = {} /\ Once(lines'[n])
    BY <2>1 DEF Ids, Once
  <2> QED
    BY <2>1, <2>2 DEF Apart, AppLogOnce
<1>3. CASE StartSystail \/ NoFileLeft
  BY <1>3 DEF StartSystail, NoFileLeft, Apart, AppLogOnce
<1>4. CASE KillSystail
  <2>1. /\ lost' = lost \cup UNION {Ids(lines[n]) : n \in Name}
        /\ UNCHANGED <<sub, evq, applog>> /\ \A n \in Name : lines'[n] = <<>>
    BY <1>4 DEF KillSystail
  <2>2. \A n \in Name : Ids(lines'[n]) = {} /\ Once(lines'[n])
    BY <2>1 DEF Ids, Once
  <2> QED
    BY <2>1, <2>2 DEF Apart, AppLogOnce
<1> QED
  BY <1>1, <1>2, <1>3, <1>4 DEF SystailStep

LEMMA SieveKeepsApart ==
  ASSUME DInv, SieveStep
  PROVE  Apart'
<1> DEFINE r == Head(sub)
           e == Parse(order, r.name, r.text)
<1> USE DEF DInv
<1>1. /\ r \in Record /\ sub' = Tail(sub) /\ order \in Order
      /\ Ids(sub) = Ids(sub') \cup ({r.id} \ {0}) /\ Once(sub') /\ r.id \notin Ids(sub')
  BY Queue, IdsOfQueue DEF SieveStep, Receive, TypeOK, Apart
<1>2. r.name \in Name /\ r.text \in TextOf(r.name)
  BY <1>1, RecordIs, LineIs
<1>3. ASSUME r.id # 0
      PROVE  /\ \A n \in Name : r.id \notin Ids(lines[n])
             /\ r.id \notin Ids(sub') \cup Ids(evq) \cup applog \cup lost
  BY <1>1, <1>3 DEF Apart
<1>4. SieveIgnores(e) \/ SievePublishes(e) \/ SieveWarns(e) \/ SievePanics(e)
  BY DEF SieveStep
<1>5. CASE SieveIgnores(e)
  BY <1>1, <1>5 DEF SieveIgnores, Apart, AppLogOnce
<1>6. CASE SievePublishes(e)
  <2> DEFINE m == [id |-> r.id, info |-> e.info]
             there == mon = "up"
  <2>1. m \in TimelineMsg /\ m.id = r.id /\ r.id \in Id
    BY <1>1, <1>2, <1>6, EventInfo, Numbered DEF SievePublishes, TimelineMsg
  <2>2. /\ evq' = Publish(evq, there, m) /\ there \in BOOLEAN
        /\ lost' = IF Dropped(evq, there) THEN lost \cup {m.id} ELSE lost
        /\ UNCHANGED <<lines, applog>>
    BY <1>6 DEF SievePublishes
  <2>3. r.id # 0
    BY <2>1, PipelineBounds DEF Id
  <2> HIDE DEF m, there, r, DInv
  <2> QED
    BY <1>1, <1>3, <2>1, <2>2, <2>3, PublishKeepsApart
<1>7. CASE SieveWarns(e)
  <2>1. PICK q \in Seq(Line(SieveLog)) :
          Write(SieveLog, q) /\ Ids(q) \subseteq {r.id} /\ Once(q)
    BY <1>7, WarningLines DEF SieveStep
  <2>2. UNCHANGED <<evq, applog>>
    BY <1>7 DEF SieveWarns
  <2>3. \A k \in Ids(q) : k # 0 /\ k = r.id
    BY <2>1 DEF Ids
  <2> HIDE DEF r, DInv
  <2>4. \A k \in Ids(q) : /\ \A m \in Name : k \notin Ids(lines[m])
                          /\ k \notin Ids(sub') \cup Ids(evq) \cup applog \cup lost
    BY <1>3, <2>3
  <2> QED
    BY <1>1, <2>1, <2>2, <2>4, SieveLogIsTailed, WriteKeepsApart
<1>8. CASE SievePanics(e)
  <2>1. lost' = lost \cup ({r.id} \ {0}) /\ UNCHANGED <<lines, evq, applog>>
    BY <1>8 DEF SievePanics
  <2> HIDE DEF r, DInv
  <2> QED
    BY <1>1, <1>3, <2>1 DEF DInv, Apart, AppLogOnce
<1> QED
  BY <1>4, <1>5, <1>6, <1>7, <1>8

LEMMA OthersKeepApart ==
  ASSUME DInv,
         StartSieve \/ KillSieve \/ StartApptail \/ Subscribe \/ KillApptail \/ MonitorStep
  PROVE  Apart'
<1> USE DEF DInv
<1>1. CASE StartSieve
  <2>1. Ids(sub') = {} /\ Once(sub')
    BY <1>1 DEF StartSieve, Ids, Once
  <2> QED
    BY <1>1, <2>1 DEF StartSieve, Apart, AppLogOnce
<1>2. CASE KillSieve \/ StartApptail \/ Subscribe
  BY <1>2 DEF KillSieve, StartApptail, Subscribe, Apart, AppLogOnce
<1>3. CASE KillApptail \/ InvalidTimelineEvent
  <2>1. Ids(evq') = {} /\ Once(evq') /\ DOMAIN evq' = {}
    BY <1>3 DEF KillApptail, InvalidTimelineEvent, Ids, Once
  <2> QED
    BY <1>3, <2>1 DEF KillApptail, InvalidTimelineEvent, Apart, AppLogOnce
<1>4. CASE PublishAppLog
  <2>1. /\ Ids(evq) = Ids(evq') \cup ({Head(evq).id} \ {0})
        /\ Once(evq') /\ Head(evq).id \notin Ids(evq')
    BY <1>4, IdsOfQueue DEF PublishAppLog, TypeOK, Apart, AppLogOnce
  <2>2. /\ Head(evq) = evq[1] /\ 1 \in DOMAIN evq
        /\ evq' \in Seq(TimelineMsg)
    BY <1>4, Queue DEF PublishAppLog, TypeOK
  <2>3. Head(evq).id # 0 /\ \A i \in DOMAIN evq' : evq'[i].id # 0
    BY <2>2, EventsAreNumbered DEF TypeOK
  <2> QED
    BY <1>4, <2>1, <2>3 DEF PublishAppLog, Apart, AppLogOnce
<1> QED
  BY <1>1, <1>2, <1>3, <1>4 DEF MonitorStep

\* An id that is somewhere after a step was somewhere before it, or is the next one.
LEMMA WriteIds ==
  ASSUME TypeOK, NEW n \in Name, NEW q \in Seq(Line(n)), Write(n, q),
         NEW k, (\E m \in Name : k \in Ids(lines'[m])) \/ k \in lost'
  PROVE  (\E m \in Name : k \in Ids(lines[m])) \/ k \in lost \/ k \in Ids(q)
<1>1. CASE n \in pubs
  <2>1. /\ lost' = lost /\ lines[n] \in Seq(Line(n))
        /\ lines'[n] = lines[n] \o q /\ \A m \in Name \ {n} : lines'[m] = lines[m]
    BY <1>1 DEF Write, TypeOK
  <2>2. Ids(lines'[n]) = Ids(lines[n]) \cup Ids(q)
    BY <2>1, IdsOfConcat
  <2> QED
    BY <2>1, <2>2
<1>2. CASE n \notin pubs
  BY <1>2 DEF Write
<1> QED
  BY <1>1, <1>2

LEMMA PublishIds ==
  ASSUME NEW S, NEW q \in Seq(S), NEW there, NEW m \in S
  PROVE  Ids(Publish(q, there, m)) \subseteq Ids(q) \cup ({m.id} \ {0})
BY IdsOfQueue DEF Publish

Somewhere(k) ==
  (\E n \in Name : k \in Ids(lines[n])) \/ k \in Ids(sub) \cup Ids(evq) \cup applog \cup lost

LEMMA NextIdsKnown ==
  ASSUME TypeOK, Next, NEW k, Somewhere(k)'
  PROVE  Somewhere(k) \/ (logged' = logged + 1 /\ k = logged')
<1> USE DEF Somewhere, TypeOK
<1>0. Ids(<<>>) = {}
  BY DEF Ids
<1>1. ASSUME NEW n \in Name, NEW t \in Text, Logs(n, t)
      PROVE  Somewhere(k) \/ (logged' = logged + 1 /\ k = logged')
  <2> DEFINE q == <<[id |-> logged', echo |-> 0, name |-> n, text |-> t]>>
  <2>1. logged' \in Id /\ logged' = logged + 1
    BY <1>1, PipelineBounds DEF Logs, Id
  <2>2. Write(n, q) /\ n # SieveLog /\ UNCHANGED <<sub, evq, applog>>
    BY <1>1 DEF Logs
  <2>3. q \in Seq(Line(n)) /\ Ids(q) = {logged'}
    BY <2>1, <2>2, LoggedLine
  <2> HIDE DEF q
  <2> QED
    BY <2>1, <2>2, <2>3, WriteIds
<1>2. ASSUME NEW n \in Name, TailLine(n)
      PROVE  Somewhere(k)
  <2> DEFINE l == Head(lines[n])
             new == {l.id} \ {0}
  <2>1. l \in Line(n) /\ Ids(lines[n]) = Ids(Tail(lines[n])) \cup new
    BY <1>2, Queue, IdsOfQueue DEF TailLine
  <2>2. l \in Record
    BY <2>1 DEF Record
  <2>3. Ids(sub') \subseteq Ids(sub) \cup new
    BY <1>2, <2>2, PublishIds DEF TailLine
  <2>4. lost' \subseteq lost \cup new /\ UNCHANGED <<evq, applog>>
    BY <1>2 DEF TailLine
  <2>5. lines'[n] = Tail(lines[n]) /\ \A m \in Name \ {n} : lines'[m] = lines[m]
    BY <1>2 DEF TailLine
  <2> HIDE DEF l, new, TypeOK
  <2> QED
    BY <2>1, <2>3, <2>4, <2>5
<1>3. ASSUME NEW n \in Name, EncodeFails(n) \/ TailDies(n)
      PROVE  Somewhere(k)
  <2>1. /\ lost' = lost \cup Ids(lines[n]) /\ UNCHANGED <<sub, evq, applog>>
        /\ lines'[n] = <<>> /\ \A m \in Name \ {n} : lines'[m] = lines[m]
    BY <1>3 DEF EncodeFails, TailDies
  <2> QED
    BY <1>0, <2>1
<1>4. CASE KillSystail
  BY <1>0, <1>4 DEF KillSystail
<1>5. CASE StartSystail \/ NoFileLeft \/ KillSieve \/ StartApptail \/ Subscribe
  BY <1>5 DEF StartSystail, NoFileLeft, KillSieve, StartApptail, Subscribe
<1>6. CASE StartSieve \/ KillApptail \/ InvalidTimelineEvent
  BY <1>0, <1>6 DEF StartSieve, KillApptail, InvalidTimelineEvent
<1>7. CASE SieveStep
  <2> DEFINE r == Head(sub)
             e == Parse(order, r.name, r.text)
  <2>1. /\ r \in Record /\ order \in Order /\ sub' = Tail(sub)
        /\ Ids(sub) = Ids(sub') \cup ({r.id} \ {0})
    BY <1>7, Queue, IdsOfQueue DEF SieveStep, Receive
  <2>2. CASE SieveIgnores(e) \/ SievePanics(e)
    BY <2>1, <2>2 DEF SieveIgnores, SievePanics
  <2>3. CASE SievePublishes(e)
    <3>1. [id |-> r.id, info |-> e.info] \in TimelineMsg /\ r.id # 0
      <4>1. r.name \in Name /\ r.text \in TextOf(r.name)
        BY <2>1, RecordIs, LineIs
      <4>2. e.info \in Captures /\ r.id \in Id
        BY <2>1, <2>3, <4>1, EventInfo, Numbered DEF SievePublishes
      <4> QED
        BY <4>2, PipelineBounds DEF TimelineMsg, Id
    <3>2. Ids(evq') \subseteq Ids(evq) \cup {r.id}
      BY <2>3, <3>1, PublishIds DEF SievePublishes
    <3> QED
      BY <2>1, <2>3, <3>1, <3>2 DEF SievePublishes
  <2>4. CASE SieveWarns(e)
    <3>1. PICK q \in Seq(Line(SieveLog)) : Write(SieveLog, q) /\ Ids(q) \subseteq {r.id}
      BY <1>7, <2>4, WarningLines DEF SieveStep
    <3>2. UNCHANGED <<evq, applog>>
      BY <2>4 DEF SieveWarns
    <3>3. Ids(q) \subseteq {r.id} \ {0}
      BY <3>1 DEF Ids
    <3> HIDE DEF r
    <3> QED
      BY <2>1, <3>1, <3>2, <3>3, SieveLogIsTailed, WriteIds
  <2> QED
    BY <1>7, <2>2, <2>3, <2>4 DEF SieveStep
<1>8. CASE SendTimelineEvent
  <2>1. [id |-> logged', info |-> "fit"] \in TimelineMsg
    BY <1>8, PipelineBounds DEF SendTimelineEvent, TimelineMsg, Captures, Id
  <2>2. Ids(evq') \subseteq Ids(evq) \cup {logged'}
    BY <1>8, <2>1, PublishIds DEF SendTimelineEvent
  <2> QED
    BY <1>8, <2>2 DEF SendTimelineEvent
<1>9. CASE PublishAppLog
  <2>1. Ids(evq) = Ids(evq') \cup ({Head(evq).id} \ {0})
    BY <1>9, IdsOfQueue DEF PublishAppLog
  <2>2. Head(evq) = evq[1] /\ 1 \in DOMAIN evq
    BY <1>9 DEF PublishAppLog
  <2>3. Head(evq).id # 0
    BY <2>2, EventsAreNumbered
  <2> QED
    BY <1>9, <2>1, <2>3 DEF PublishAppLog
<1> HIDE DEF Somewhere, TypeOK
<1> QED
  BY <1>1, <1>2, <1>3, <1>4, <1>5, <1>6, <1>7, <1>8, <1>9 DEF Next, SystailStep, MonitorStep

LEMMA LoggedGrows ==
  ASSUME Next
  PROVE  logged' = logged \/ logged' = logged + 1
BY DEF Next, Logs, SystailStep, TailLine, EncodeFails, TailDies, StartSystail, NoFileLeft,
   KillSystail, StartSieve, KillSieve, SieveStep, SieveIgnores, SievePublishes, SieveWarns,
   SievePanics, StartApptail, Subscribe, KillApptail, SendTimelineEvent, MonitorStep,
   PublishAppLog, InvalidTimelineEvent

LEMMA NextKeepsGivenOut ==
  ASSUME DInv, Next
  PROVE  GivenOut'
<1>1. \A k : Somewhere(k) => k \in 1..logged
  BY DEF DInv, GivenOut, Somewhere
<1>2. \A k : Somewhere(k)' => k \in 1..logged'
  <2> SUFFICES ASSUME NEW k, Somewhere(k)' PROVE k \in 1..logged'
    OBVIOUS
  <2>1. logged \in Nat
    BY PipelineBounds DEF DInv, TypeOK
  <2>2. Somewhere(k) \/ (logged' = logged + 1 /\ k = logged')
    BY NextIdsKnown DEF DInv
  <2> QED
    BY <1>1, <2>1, <2>2, LoggedGrows
<1> QED
  BY <1>2 DEF GivenOut, Somewhere

LEMMA NextKeepsDInv == DInv /\ [Next]_vars => DInv'
<1> SUFFICES ASSUME DInv, [Next]_vars PROVE DInv'
  OBVIOUS
<1>1. TypeOK'
  BY NextPreserves DEF DInv
<1>2. CASE UNCHANGED vars
  BY <1>1, <1>2 DEF DInv, Apart, AppLogOnce, GivenOut, vars
<1>3. CASE Next
  <2>1. Apart'
    BY <1>3, LogsKeepsApart, SendKeepsApart, SystailKeepsApart, SieveKeepsApart, OthersKeepApart
       DEF Next
  <2> QED
    BY <1>1, <1>3, <2>1, NextKeepsGivenOut DEF DInv
<1> QED
  BY <1>2, <1>3

LEMMA InitDInv == Init => DInv
<1> SUFFICES ASSUME Init PROVE DInv
  OBVIOUS
<1>1. Ids(<<>>) = {} /\ Once(<<>>)
  BY DEF Ids, Once
<1>2. \A n \in Name : lines[n] = <<>>
  BY DEF Init
<1>3. sub = <<>> /\ evq = <<>> /\ applog = {} /\ lost = {}
  BY DEF Init
<1> QED
  BY <1>1, <1>2, <1>3, InitTypeOK DEF DInv, Apart, AppLogOnce, GivenOut

\* Whatever is restarted and however queues overflow, no line and no event becomes an app
\* log twice, and nothing that was counted as lost becomes one.
THEOREM NoDuplicateAppLog == Spec => []AppLogOnce
<1>1. DInv => AppLogOnce
  BY DEF DInv, Apart
<1> QED
  BY <1>1, InitDInv, NextKeepsDInv, PTL DEF Spec

-----------------------------------------------------------------------------
\* What becomes of a timeline record.

\* Whatever order its parser was built in, logyard_sieve makes a timeline event of it.
LEMMA TimelineIsParsed ==
  ASSUME NEW o \in Order, NEW n, NEW t, IsTimeline(n, t)
  PROVE  Parse(o, n, t).kind = "event" /\ Parse(o, n, t).type = Timeline
<1>1. PICK p \in Tree(All) :
        Leftmost(All, t) = {p} /\ p.type = Timeline /\ t.re[p.re] = "fit"
  BY DEF IsTimeline
<1>2. p.substring # Empty /\ Handler(p) = "json" /\ p.groups \in Nat \ {0}
  BY <1>1, TimelineIsEvent
<1>3. o[p] <= o[p]
  BY <1>1, GroupSizeIsNat DEF Order, Tree
<1>4. Match(n, o, t) = {}
  BY DEF IsTimeline, Match, FindString, Leftmost
<1>5. p \in Match(All, o, t)
  BY <1>1, <1>2, <1>3 DEF Match, FindString
<1>6. Parse(o, n, t) = HandleEvent(p, n, t)
  BY <1>4, <1>5, ParseCases
<1>7. HandleEvent(p, n, t) = Event(Timeline, n, "fit")
  BY <1>1, <1>2 DEF HandleEvent
<1> QED
  BY <1>6, <1>7 DEF Event

\* A member of a queue stays in it when another one is appended, and when the head is
\* taken off, unless it is the head.
LEMMA Waiting ==
  ASSUME NEW S, NEW q \in Seq(S), NEW i \in DOMAIN q
  PROVE  /\ \A e \in S : \E j \in DOMAIN Append(q, e) : Append(q, e)[j] = q[i]
         /\ q # <<>>
         /\ q[i] = Head(q) \/ \E j \in DOMAIN Tail(q) : Tail(q)[j] = q[i]
<1>1. Len(q) \in Nat /\ DOMAIN q = 1..Len(q) /\ i \in 1..Len(q) /\ q # <<>>
  OBVIOUS
<1>2. ASSUME NEW e \in S
      PROVE  \E j \in DOMAIN Append(q, e) : Append(q, e)[j] = q[i]
  <2>1. DOMAIN Append(q, e) = 1..(Len(q) + 1) /\ Append(q, e)[i] = q[i]
    BY <1>1
  <2> QED
    BY <1>1, <2>1
<1>3. CASE i = 1
  BY <1>1, <1>2, <1>3
<1>4. CASE i # 1
  <2>1. DOMAIN Tail(q) = 1..(Len(q) - 1) /\ i - 1 \in 1..(Len(q) - 1) /\ Tail(q)[i - 1] = q[i]
    BY <1>1, <1>4
  <2> QED
    BY <1>1, <1>2, <2>1
<1> QED
  BY <1>3, <1>4

\* What the broker does with a message leaves those before it where they are.
LEMMA StaysQueued ==
  ASSUME NEW S, NEW q \in Seq(S), NEW i \in DOMAIN q, NEW there, NEW e \in S
  PROVE  \E j \in DOMAIN Publish(q, there, e) : Publish(q, there, e)[j] = q[i]
BY Waiting DEF Publish

LEMMA PublishedOrDropped ==
  ASSUME NEW S, NEW q \in Seq(S), NEW there, NEW e \in S, ~Dropped(q, there)
  PROVE  \E j \in DOMAIN Publish(q, there, e) : Publish(q, there, e)[j] = e
<1>1. Publish(q, there, e) = Append(q, e)
  BY DEF Publish, Dropped
<1>2. DOMAIN Append(q, e) = 1..(Len(q) + 1) /\ Len(q) \in Nat /\ Append(q, e)[Len(q) + 1] = e
  OBVIOUS
<1> QED
  BY <1>1, <1>2

\* Lines that are written leave those before them in their files.
LEMMA WriteKeepsLines ==
  ASSUME TypeOK, NEW n \in Name, NEW q \in Seq(Line(n)), Write(n, q),
         NEW m \in Name, NEW i \in DOMAIN lines[m]
  PROVE  \E j \in DOMAIN lines'[m] : lines'[m][j] = lines[m][i]
<1>1. lines[m] \in Seq(Line(m)) /\ DOMAIN lines = Name
  BY DEF TypeOK
<1>2. CASE n \in pubs /\ m = n
  <2>1. lines'[m] = lines[m] \o q
    BY <1>1, <1>2 DEF Write
  <2>2. i \in DOMAIN (lines[m] \o q) /\ (lines[m] \o q)[i] = lines[m][i]
    BY <1>1, <1>2
  <2> QED
    BY <2>1, <2>2
<1>3. CASE ~(n \in pubs /\ m = n)
  <2>1. lines'[m] = lines[m]
    BY <1>1, <1>3 DEF Write
  <2> QED
    BY <2>1
<1> QED
  BY <1>2, <1>3

\* The next step of a record in a log file.
LEMMA FromTail ==
  ASSUME TypeOK, Next, NEW k \in Id, AwaitsTail(k)
  PROVE  AwaitsTail(k)' \/ AwaitsSieve(k)' \/ k \in lost'
<1>1. PICK m \in Name : \E i \in DOMAIN lines[m] :
        lines[m][i].id = k /\ IsTimeline(m, lines[m][i].text)
  BY DEF AwaitsTail
<1>2. PICK i \in DOMAIN lines[m] : lines[m][i].id = k /\ IsTimeline(m, lines[m][i].text)
  BY <1>1
<1>0. k # 0
  BY PipelineBounds DEF Id
<1>3. lines[m] \in Seq(Line(m)) /\ DOMAIN lines = Name /\ k \in Ids(lines[m])
  BY <1>0, <1>2 DEF TypeOK, Ids
<1>4. ASSUME \E j \in DOMAIN lines'[m] : lines'[m][j] = lines[m][i]
      PROVE  AwaitsTail(k)'
  BY <1>2, <1>4 DEF AwaitsTail
<1>5. CASE UNCHANGED lines
  BY <1>4, <1>5
<1>6. ASSUME NEW n \in Name, NEW q \in Seq(Line(n)), Write(n, q)
      PROVE  AwaitsTail(k)'
  BY <1>4, <1>6, WriteKeepsLines
<1>7. ASSUME NEW n \in Name, NEW t \in Text, Logs(n, t)
      PROVE  AwaitsTail(k)'
  <2> DEFINE q == <<[id |-> logged', echo |-> 0, name |-> n, text |-> t]>>
  <2>1. logged' \in Id /\ n # SieveLog /\ Write(n, q)
    BY <1>7, PipelineBounds DEF TypeOK, Logs, Id
  <2>2. q \in Seq(Line(n))
    BY <2>1, LoggedLine
  <2> HIDE DEF q
  <2> QED
    BY <1>6, <2>1, <2>2
<1>8. ASSUME NEW n \in Name, TailLine(n)
      PROVE  AwaitsTail(k)' \/ AwaitsSieve(k)' \/ k \in lost'
  <2>1. CASE m # n
    <3>1. lines'[m] = lines[m]
      BY <1>3, <1>8, <2>1 DEF TailLine
    <3> QED
      BY <1>4, <3>1
  <2>2. CASE m = n /\ lines[m][i] # Head(lines[m])
    <3>1. lines'[m] = Tail(lines[m])
      BY <1>3, <1>8, <2>2 DEF TailLine
    <3>2. \E j \in DOMAIN Tail(lines[m]) : Tail(lines[m])[j] = lines[m][i]
      BY <1>3, <2>2, Waiting
    <3> QED
      BY <1>4, <3>1, <3>2
  <2>3. CASE m = n /\ lines[m][i] = Head(lines[m])
    <3> DEFINE r == lines[m][i]
    <3>1. r \in Line(m)
      BY <1>3, Queue
    <3>2. r \in Record /\ r.name = m /\ sub \in Seq(Record)
      BY <3>1, LineIs DEF Record, TypeOK
    <3>3. /\ sub' = Publish(sub, sieve, r)
          /\ Dropped(sub, sieve) => k \in lost'
      BY <1>0, <1>2, <1>8, <2>3 DEF TailLine
    <3>4. r.id = k /\ IsTimeline(r.name, r.text)
      BY <1>2, <3>2
    <3> HIDE DEF r
    <3>5. Dropped(sub, sieve) \/ \E j \in DOMAIN sub' : sub'[j] = r
      BY <3>2, <3>3, PublishedOrDropped
    <3> QED
      BY <3>3, <3>4, <3>5 DEF AwaitsSieve
  <2> QED
    BY <2>1, <2>2, <2>3
<1>9. ASSUME NEW n \in Name, EncodeFails(n) \/ TailDies(n)
      PROVE  AwaitsTail(k)' \/ k \in lost'
  <2>1. CASE m = n
    BY <1>3, <1>9, <2>1 DEF EncodeFails, TailDies
  <2>2. CASE m # n
    <3>1. lines'[m] = lines[m]
      BY <1>3, <1>9, <2>2 DEF EncodeFails, TailDies
    <3> QED
      BY <1>4, <3>1
  <2> QED
    BY <2>1, <2>2
<1>10. CASE KillSystail
  BY <1>3, <1>10 DEF KillSystail
<1>11. CASE SieveStep
  <2> DEFINE r == Head(sub)
             e == Parse(order, r.name, r.text)
  <2>2. CASE SieveWarns(e)
    <3>1. PICK q \in Seq(Line(SieveLog)) : Write(SieveLog, q)
      BY <1>11, <2>2, WarningLines DEF SieveStep
    <3> QED
      BY <1>6, <3>1, SieveLogIsTailed
  <2>3. CASE ~SieveWarns(e)
    BY <1>5, <1>11, <2>3 DEF SieveStep, SieveIgnores, SievePublishes, SievePanics
  <2> QED
    BY <2>2, <2>3
<1>12. \/ UNCHANGED lines \/ SieveStep \/ KillSystail
       \/ \E n \in Name, t \in Text : Logs(n, t)
       \/ \E n \in Name : TailLine(n) \/ EncodeFails(n) \/ TailDies(n)
  BY DEF Next, SystailStep, StartSystail, NoFileLeft, StartSieve, KillSieve, StartApptail,
     Subscribe, KillApptail, SendTimelineEvent, MonitorStep, PublishAppLog,
     InvalidTimelineEvent
<1> QED
  BY <1>5, <1>7, <1>8, <1>9, <1>10, <1>11, <1>12

\* The next step of a record in the subscription of logyard_sieve.
LEMMA FromSieve ==
  ASSUME TypeOK, Next, NEW k \in Id, AwaitsSieve(k)
  PROVE  AwaitsSieve(k)' \/ k \in Ids(evq') \cup lost'
<1>1. PICK i \in DOMAIN sub : sub[i].id = k /\ IsTimeline(sub[i].name, sub[i].text)
  BY DEF AwaitsSieve
<1>0. k # 0
  BY PipelineBounds DEF Id
<1>2. sub \in Seq(Record) /\ order \in Order /\ k \in Ids(sub) /\ evq \in Seq(TimelineMsg)
  BY <1>0, <1>1 DEF TypeOK, Ids
<1>3. ASSUME \E j \in DOMAIN sub' : sub'[j] = sub[i]
      PROVE  AwaitsSieve(k)'
  BY <1>1, <1>3 DEF AwaitsSieve
<1>4. CASE UNCHANGED sub
  BY <1>3, <1>4
<1>5. ASSUME NEW n \in Name, TailLine(n)
      PROVE  AwaitsSieve(k)'
  <2> DEFINE l == Head(lines[n])
  <2>1. l \in Line(n)
    BY <1>5, Queue DEF TailLine, TypeOK
  <2>2. l \in Record /\ sub' = Publish(sub, sieve, l)
    BY <1>5, <2>1 DEF Record, TailLine
  <2> HIDE DEF l
  <2> QED
    BY <1>2, <1>3, <2>2, StaysQueued
<1>6. CASE StartSieve
  BY <1>2, <1>6 DEF StartSieve
<1>7. CASE SieveStep
  <2> DEFINE e == Parse(order, Head(sub).name, Head(sub).text)
  <2>1. CASE sub[i] # Head(sub)
    <3>1. sub' = Tail(sub)
      BY <1>7 DEF SieveStep, Receive
    <3> QED
      BY <1>2, <1>3, <2>1, <3>1, Waiting
  <2>2. CASE sub[i] = Head(sub)
    <3>1. e.kind = "event" /\ e.type = Timeline
      BY <1>1, <1>2, <2>2, TimelineIsParsed
    <3>2. sub[i].name \in Name /\ sub[i].text \in TextOf(sub[i].name)
      BY Subscribed
    <3>3. SieveIgnores(e) \/ SievePublishes(e) \/ SieveWarns(e) \/ SievePanics(e)
      BY <1>7 DEF SieveStep
    <3>4. e.info \in Captures
      BY <1>2, <2>2, <3>1, <3>2, EventInfo
    <3>5. SievePublishes(e)
      BY <3>1, <3>3 DEF SieveIgnores, SieveWarns, SievePanics
    <3> DEFINE m == [id |-> k, info |-> e.info]
               there == mon = "up"
    <3>6. m \in TimelineMsg /\ m.id = k
      BY <3>2, <3>4 DEF TimelineMsg
    <3>7. evq' = Publish(evq, there, m) /\ (Dropped(evq, there) => k \in lost')
      BY <1>1, <2>2, <3>5 DEF SievePublishes
    <3> HIDE DEF m, there
    <3>8. Dropped(evq, there) \/ \E j \in DOMAIN evq' : evq'[j] = m
      BY <1>2, <3>6, <3>7, PublishedOrDropped
    <3> QED
      BY <1>0, <3>6, <3>7, <3>8 DEF Ids
  <2> QED
    BY <2>1, <2>2
<1>8. UNCHANGED sub \/ (\E n \in Name : TailLine(n)) \/ StartSieve \/ SieveStep
  BY DEF Next, Logs, SystailStep, EncodeFails, TailDies, StartSystail, NoFileLeft,
     KillSystail, KillSieve, StartApptail, Subscribe, KillApptail, SendTimelineEvent,
     MonitorStep, PublishAppLog, InvalidTimelineEvent
<1> QED
  BY <1>4, <1>5, <1>6, <1>7, <1>8

\* The next step of an event in the subscription of apptail.
LEMMA FromMonitor ==
  ASSUME TypeOK, Next, NEW k, k \in Ids(evq)
  PROVE  k \in Ids(evq') \cup applog' \cup lost'
<1>1. PICK i \in DOMAIN evq : evq[i].id = k
  BY DEF Ids
<1>2. evq \in Seq(TimelineMsg)
  BY DEF TypeOK
<1>3. ASSUME \E j \in DOMAIN evq' : evq'[j] = evq[i]
      PROVE  k \in Ids(evq')
  BY <1>1, <1>3 DEF Ids
<1>4. CASE UNCHANGED evq
  BY <1>4
<1>5. CASE SieveStep
  <2> DEFINE r == Head(sub)
             e == Parse(order, r.name, r.text)
             m == [id |-> r.id, info |-> e.info]
  <2>1. r \in Record /\ order \in Order
    BY <1>5, Queue DEF SieveStep, Receive, TypeOK
  <2>2. CASE SievePublishes(e)
    <3>1. m \in TimelineMsg
      <4>1. r.name \in Name /\ r.text \in TextOf(r.name)
        BY <2>1, RecordIs, LineIs
      <4> QED
        BY <2>1, <2>2, <4>1, EventInfo, Numbered DEF SievePublishes, TimelineMsg
    <3>2. evq' = Publish(evq, mon = "up", m)
      BY <2>2 DEF SievePublishes
    <3> HIDE DEF m
    <3> QED
      BY <1>2, <1>3, <3>1, <3>2, StaysQueued
  <2>3. CASE ~SievePublishes(e)
    BY <1>4, <1>5, <2>3 DEF SieveStep, SieveIgnores, SieveWarns, SievePanics
  <2> QED
    BY <2>2, <2>3
<1>6. CASE SendTimelineEvent
  <2> DEFINE m == [id |-> logged', info |-> "fit"]
  <2>1. m \in TimelineMsg /\ evq' = Publish(evq, mon = "up", m)
    BY <1>6, PipelineBounds DEF SendTimelineEvent, TypeOK, TimelineMsg, Captures, Id
  <2> HIDE DEF m
  <2> QED
    BY <1>2, <1>3, <2>1, StaysQueued
<1>7. CASE KillApptail \/ InvalidTimelineEvent
  BY <1>7 DEF KillApptail, InvalidTimelineEvent
<1>8. CASE PublishAppLog
  BY <1>1, <1>2, <1>3, <1>8, Waiting DEF PublishAppLog
<1>9. \/ UNCHANGED evq \/ SieveStep \/ SendTimelineEvent \/ KillApptail
      \/ InvalidTimelineEvent \/ PublishAppLog
  BY DEF Next, Logs, SystailStep, TailLine, EncodeFails, TailDies, StartSystail, NoFileLeft,
     KillSystail, StartSieve, KillSieve, StartApptail, Subscribe, MonitorStep
<1> QED
  BY <1>4, <1>5, <1>6, <1>7, <1>8, <1>9

\* A timeline record goes from systail to logyard_sieve to apptail to the app log, and is
\* nowhere dropped that does not count as lost.
THEOREM TimelineAccountedFor == Spec => NoneVanishes
<1>1. TypeOK /\ [Next]_vars =>
        [\A k \in Id : OnItsWay(k) => OnItsWay(k)' \/ k \in applog' \cup lost']_vars
  <2> SUFFICES ASSUME TypeOK, Next, NEW k \in Id, OnItsWay(k)
               PROVE  OnItsWay(k)' \/ k \in applog' \cup lost'
    OBVIOUS
  <2> QED
    BY FromTail, FromSieve, FromMonitor DEF OnItsWay
<1> QED
  BY <1>1, PipelineTypes, PTL DEF Spec, NoneVanishes
===============================================================================
