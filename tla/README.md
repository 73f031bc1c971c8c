# A TLA+ model of logyard-apps

logyard-apps feeds the logs of a Stackato cluster into logyard. This directory
holds TLA+ modules for the parts of it that carry state and concurrency, TLC
configurations that check them on small instances, and TLAPS proofs of what
matters most for instances of any size. Paths below are relative to the
repository. `PROJECT.json` lists components, runs, mutants, the map from
definitions to source lines, findings, hazards and theorems.

## The system

| part | source | state | operations | talks to |
|---|---|---|---|---|
| tail tracker | `apptail/storage/tail_tracker.go` | container → log file → offset (`Cached`), `mux` | `RegisterInstance`, `InitializeChildNode`, `Update`, `Remove`, `CleanUp`, `Commit`, `LoadTailers`, the submission timer | called by every tailing goroutine; writes through the storage |
| state file | `apptail/storage/gob_handler.go` | the file, `writeLock` | `Encode`, `Write`, `Load` | called by the tracker |
| tailing of a file | `apptail/instance.go` | tail's position, the line in hand | `tailFile`, `readFromTail`, `getReadLimit`, `publishLine` | tail package, tracker, logyard |
| sessions | `apptail/cmd/apptail/main.go`, `instance.go` | `started_instances`, three goroutines per call of `Tail` | `newinstance` callback, `Tail`, clean-up | NATS, tracker, docker listener |
| docker listener | `apptail/docker/listener.go` | `waiters` | `BlockUntilContainerStops`, `Listen`, `TrackerCleanUp` | docker events, sessions |
| docker events | `docker_events/` | the HTTP stream | `Stream`, `GetLiveDockerContainers` | docker |
| log streams | `apptail/util/seeker.go`, `tailStream` | a buffer fed by a goroutine | `Drain`, `Read`, `Seek`, `Close` | docker's log endpoint, tail |
| timeline | `apptail/pubchannel`, `apptail/event` | a channel and its publisher loop, a subscription | `New`, `loop`, `MonitorCloudEvents` | sessions, sieve's events, logyard |
| applog endpoint | `applog_endpoint/` | a drain, a line server, a lifetime goroutine and a connection per request | `tailHandlerWs`, `AppLogDrain`, `Forward`, `RemoveOrphanedDrains` | logyard's drains, websocket clients |
| sieve | `sieve/` | compiled patterns, in an order that changes with each start | `Match`, `Parse`, `HandleEvent`, `main` | systail's stream, events |
| systail | `systail/` | a tailer and a publishing goroutine per system log | `tailLogFile`, `main` | log files (sieve's own among them), logyard |

What is hard here, and what each part must get right:

* **Tracker.** `Update` takes no lock, for speed, while every other method does.
  It must still look like an atomic map: no offset stored for the wrong
  container, no container revived by a late store, no encoding that sees keys
  come and go. `Commit` uses two locks one after the other, so commits can
  overtake each other; the file is rewritten in place, so a crash matters.
* **Tailing.** The cursor moves before the line is published and is taken from a
  reader that runs ahead. A crash may skip lines; how many? Two sessions of a
  container may tail the same file and share its cursor. Timeline events go through
  a channel without a buffer, whose receiver may be gone.
* **Sessions.** A container may be announced twice, stop before anyone waits for
  it, stop twice, or be cleaned up while it is being registered.
* **Endpoint.** Handler and lifetime goroutine may both stop the same drain,
  requests for one app share a drain name, Start may fail half-way, and neither a
  client that does not read nor the server of recent logs has a deadline.
* **Log streams.** `Drain` fills a `bytes.Buffer` that `Read` and `Seek` use at
  the same time; only `Read` holds a lock. Bytes must keep their order, a reader
  must not sleep on bytes, and everything must end when the container does,
  although tail may sit in a `Read` and senders on a channel nobody serves.
* **Event pipeline.** Three processes restart at any time and a broker drops
  messages between them. Patterns are joined in map order. What sieve cannot
  parse it logs to a file that comes back to it, cut in two where it is too long.

## The modules

**`Cursors`** defines the data: `TailNode`, `Tailer`, and `Absent` for a key that
is not in a Go map.

**`CursorMap`** is the abstract tracker: every operation is one atomic step, the
process may end (`Halt`) and start with any cursors (`LoadTailers`).

**`TailTracker`** is the implementation. TailNode objects have identities (`Node`)
that outlive their place in the map, because `Update` holds on to one between its
look-up and its atomic store. Methods that hold `mux` for one map access are one
step guarded by `mux = Absent`. `getBuffer` holds `mux` over the encoding, which
reads one box per step (`GetBuffer`, `EncodeBox`, `EncodeDone`). `Write` is
`OpenTruncate`, `WriteData`, `Chmod` under `writeLock`. `Crash` may happen
between any two steps and leaves only the file; `WriteFails` is `log.Fatal` after
an I/O error. A map look-up of `Update` that races with a writer of the map
either sees the key or not, or the Go runtime ends the process: the last is a
`Crash`. Encode's own error return is left out: gob cannot fail on this type.
`CM == INSTANCE CursorMap WITH running <- up, cache <- Cached` is the refinement.

**`TrackerPromises`** adds history variables (what a returned `Commit` and a
returned `Remove` promise) for the two findings about the state file.

**`TailFile`** is the life of one log file over restarts, with the sessions that tail
it: `main.go:64-69` forgets a container as soon as `Tail` has returned, so a second
session may run beside the first, with the same cursor. `CheckCursor`, `Stat`,
`TailFile`, `InitializeChildNode` are `tailFile`; `Receive`, `Tell`, `Update`,
`PublishLine`, `LinesClosed`, `StopTail` are `readFromTail`; `LoopReady`,
`LoopStopped`, `LoopPublishes` are the loop of `pubchannel`. A goroutine in
`SendTimelineEvent` stays in `"large"` or `"failing"` until the loop takes its event.
Lines have length 1, so an offset counts lines. The tail package is external: it
seeks, reads one line ahead of an unbuffered channel, sends an error line and skips
to the end when its leaky bucket overflows. `covered` and `shared` are history.

**`Apptail`** is one life of the process: `main`'s steps in order, the
subscription, sessions of three goroutines (`main`, `tail`, `wait` fields of
`sess[s]`), the listener and docker. It extends `CursorMap`: sessions use the
tracker the way `TailTracker` is proved to behave. dea_ng, NATS and docker are
external: a container is announced when it starts and again in answer to the
start message, and emits events only to an open stream. One log file per
container suffices for what is asked here; `TailFile` has the rest. The tailing
goroutine sends timeline events as it does in `TailFile` (`"large"`, `"failing"` and
the `loop` field); a session without a valid log file has none (`Spawn`).

**`AppLogEndpoint`** has requests with a handler, a line server, a lifetime
goroutine and a connection. A port is identified with the request that bound it.
logyard's drain table outlives the process; after a crash its entries are
`Orphan`. `AddDrain` overwrites an entry of the same name or fails, `DeleteDrain`
deletes or fails. Every `Send` is a state of its own (`Sending`): the recent lines, a
`Fatalf`, a line of `Forward`. It returns at once when the connection is closed; to a
client that is connected it returns when the client reads, which nothing enforces.
The same holds for the answer to the request for recent logs.

**`Seeker`** is `ReadSeekCloseWrapper`. Bytes are numbered. `bytes.Buffer.Write` is
two steps, `WriteGrow` and `WriteCopy`, because `Read` and `Seek` may run between
them or at the same time: it measures the buffer, moves the unread bytes to the front,
sets the offset to 0, makes room in which old bytes still are, and copies. A call that
falls into this may be undone by it, skip bytes, or return bytes again. The model does
not follow the bytes any further: the buffer is `spoilt` and holds any number of
unknown bytes (`Junk`), and later Writes may panic (`WritePanics`), until a `Seek(0)`
that overlaps with no Write empties it. `Read` is `ReadLocks`, `ReadChecks`,
`ReadWaits`, `ReadTakes`. The `Broadcast` at the end of `Read` is left out: tail has
one goroutine, so nobody else can be waiting. `seen` and `floor` are history.

**`TailStream`** extends it with the session around it: `Tail` with `getLogFiles`
(`ReadEnv` to `PathsChecked`), `PubChannel.loop` (`LoopReady`, `LoopStopped`,
`LoopPublishes`), `tailStream` and `readFromTail`, and the end of the container. A
goroutine in `SendTimelineEvent` stays where it is (`"large"`, `"warn"`,
`"error"`, `"skip"`) until the loop takes its event, for the channel has no
buffer. One byte is one line. A resumed tail of a docker stream is no subject:
`tailStream` never makes a cursor. The error returns that cannot be taken
(`url.Parse` on a fixed form, `TailReader` with this configuration) are left out.

**`LogTailing`** is the choice between the two in `Tail` (`instance.go:67-74`): its
behaviours are those of `TailStream` for a docker stream and those of `TailFile`,
which it instantiates, for any other log.

**`Sieve`** is pure: `FindString`, `Match`, `HandleEvent`, `Parse`. A text is what
the patterns can see of it: the first place of each substring and what each
expression captures, so that leftmost matching and the order of alternatives are
kept and strings are not. `Order` is what ranging over a map may give.
`Reference` is the definition `Parse` is compared with: it speaks of substrings
and expressions being in a text and has neither places nor orders.

**`EventPipeline`** composes it with systail, the broker and `MonitorCloudEvents`. The
broker queues at most `QueueLen` messages for a subscriber that is there and drops the
others; `lost` collects what was lost, as history. `SieveWarns` writes the quoted
record to the log of logyard_sieve, `Quoted` puts the warning level in front of what
it quotes. systail cuts lines at `max_record_size`: a text is `long` when a line that
quotes it is longer than that. Its warning then comes back as two records, of which
the first starts with the level and the second, `Rest`, is some end of the text
without one. A second piece is as long as the words before the quotation; these are
taken to fill less than half a record, so that a warning about it is not cut again
(the level, file and time, `failed to parse event from`, the name and the error of the
JSON parser; it quotes a number that is out of range, the one thing in it that might
be longer). `echo` counts the warnings a record comes from. JSON of a record is taken
to be as it was written, so `failed to parse json` does not occur. Events that are not
for the timeline have no subscriber in this repository and end at `SieveIgnores`.

`MC*` modules add symmetry sets and a configuration of patterns for TLC; `*Proofs`
modules hold the theorems.

## The runs

All bounds are constants of the cfg files. Deadlock checking is off where the
system may really stop (no more announcements, all lines written); it is on for
the tracker and the event pipeline.

| run | checks | bounds |
|---|---|---|
| `tracker_safety` | `TypeOK`, `NodesNotShared`, `EncodeSeesStableKeys`, `WriteIsolated`, `RemovedStaysGone`, `ImplementsCursorMap` | 2 containers, 1 file, 2 offsets, 1 worker and the timer, 3 objects, I/O errors |
| `tracker_liveness` | `RemovalReachesFile`, `CursorReachesFile` | 1 container, 2 offsets, 1 worker |
| `tailfile` | `TypeOK`, `LossBound`, `PublishedNotReplayed`, `CursorAdvances` | 2 sessions, 3 lines, limit 1, I/O errors and rate limiting in one of them |
| `apptail_safety` | `TypeOK`, `OneSetupPerContainer`, `ChannelClosedOnce`, `CursorGoneAfterLastSession` | 2 containers, 2 sessions, 1 GET, 1 pending event, no events of the tailing goroutines |
| `apptail_liveness` | `NotifiedSessionEnds`, `AnnouncedIsTailed` | 1 container, 2 sessions, 1 GET, 2 pending events, I/O errors in one session |
| `endpoint` | `TypeOK`, `DrainHasServer`, `WaitDoesNotBlock`, `SessionsEnd`, `DrainLifetimeEnds` | 1 app, 2 requests |
| `log_tailing` | `TypeOK`, `NoLostWakeup`, `SeekSkips`, `InOrder`, `TailReturns`, `StopEndsStream`, `DrainFollows`, `LinesGetPublished`, `StopEndsTailing` | a stream: 2 bytes, chunks and reads of up to 2, limits 0 and 1, a stream and a file to tail; a file: 1 session, 3 lines, limit 1, I/O errors and rate limiting |
| `event_pipeline` | `TypeOK`, `ParseMeetsReference`, `OrderIrrelevant`, `EchoesEnd`, `AppLogOnce`, `NoneVanishes`, `TimelineReachesAppLog`, `SystailExits` | 2 lines or events, queues of 2, 4 patterns in 2 groups, 7 texts, 2 log files |

Why the bounds are enough: two containers are needed for cross-talk, a worker and the
timer for overtaking commits, three objects so that one can be stale while two are in
the map; three lines for the read limit and the two in flight behind it, and two
sessions that share the cursor; two sessions of one container, and one of each of two,
for the races of announcement and stop. What a tailing goroutine sends changes no
state the properties of `apptail_safety` speak of, so its events are in the liveness
run only; the proofs have them. Two requests share the drain of one app; with two apps
they have nothing in common, which the proofs cover. Two bytes are enough for one
chunk to be read while the next is being written. Two lines and the warnings about
them overflow a queue of two; the patterns have one substring that begins another and
a handler type that is misspelt, and the texts two substrings, a substring whose
expression fails, JSON of the wrong form, and JSON that cannot be parsed in a record
that fits and in one that is cut. Safety invariants and action properties of these
runs are also proved for every size.

Every property has a mutant in `PROJECT.json`: an operator that changes a mapped
definition the way a bug would and under which TLC finds the property violated.

Fairness. The Go scheduler runs every goroutine that can run (weak fairness of its
steps); `time.Ticker` and `time.After` fire; NATS and docker deliver. A `sync.Mutex`
hands itself to waiters that starve, so acquiring a lock is strongly fair
(`GetBuffer`, `OpenTruncate`). `select` picks among its ready cases at random, so
`StopTail`, and `Stop` of `TailStream`, are strongly fair although lines keep coming;
so is `TailEnds`, since tail looks between any two reads whether it is dying. The loop
of a `pubchannel` receives when it has come to its `range`, so a goroutine in
`SendTimelineEvent` goes on unless that loop has returned. In `AppLogEndpoint` the
handler is fair except where it is `Held`: in the request for recent logs, and in a
`Send` to a client that is connected. That Forward gets lines, or that a ping times
out, is not assumed either. In `EventPipeline` each goroutine and process runs when it
can, a killed tail ends, and the supervisor restarts what has exited, as
`server.MarkRunning` and the messages about exiting suppose. Nothing is assumed about
crashes, I/O errors, clients, containers or the app's writing.

## What the checks found

Four runs check one statement of the repository each and are violated.

* `position_retained`: `ioutil.WriteFile` truncates first; a crash before the
  data is down loses every saved position (`gob_handler.go:48`), against
  `etc/apptail.yml:19-20`.
* `remove_from_file`: the timer encodes, `Remove` deletes, encodes and writes, the
  timer writes: the container is back in the file when `Remove` has returned
  (`tail_tracker.go:184`), against the name of
  `TestRemove_CalledWithCorrectKey_ItShouldAlsoRemoveFromFile`. It heals at the
  next tick (`RemovalReachesFile`), unless the process stops before.
* `cursor_while_tailing`: `TrackerCleanUp` works with a list older than a
  container that has just been registered and drops its cursor
  (`listener.go:79`).
* `stop_is_notified`: a stop event that is read before the session has entered
  its channel is dropped, and the session never ends (`listener.go:69`).

The following observations are no violations of anything the repository says; they
are part of the models, and properties that meet them name them as exceptions.

* A cached offset is used with `SEEK_SET` without asking `getReadLimit`
  (`instance.go:98`): after a long outage the backlog has any size.
* A line server that dies by itself leaves its drain behind (`server.go:75`):
  `Forward` returns nil, so `Stop` is not called, and the lifetime goroutine sees
  `Dying` (the exception of `DrainLifetimeEnds`).
* A chunk that comes together with EOF is not announced (`seeker.go:48`), a `Read`
  after the end of the stream never returns, and then `t.Stop` does not either
  (the exceptions of `NoLostWakeup` and `StopEndsStream`).
* A `SendTimelineEvent` after a stop in the first 100 ms of a session blocks its
  goroutine for ever (`pubchannel.go:35`): a large file, a failed stat or open, an error
  of tail. It is the exception of `StopEndsStream`, `StopEndsTailing`,
  `NotifiedSessionEnds` and `AnnouncedIsTailed`. `Tail` itself is never caught by it
  (`TailReturns`).
* Two sessions of a container that tail one file at the same time store their positions
  in one cursor; the one behind takes it back (`instance.go:208`), and a restart
  publishes lines again. `CursorAdvances` and `PublishedNotReplayed` except sessions
  that were not alone; `LossBound` holds for them, too.
* `Read` and `Seek` share a `bytes.Buffer` with a `Write` that holds no lock
  (`seeker.go:40`). Once a call has fallen into the middle of a Write, bytes may be
  lost, read twice, read although they were skipped, or the process may panic. `InOrder`
  and `SeekSkips` speak of what is read before that, and after a Reset.
* A client that stays connected and does not read, or a request for recent logs that is
  not answered, holds its request for ever (`stream.go:33`, `app.go:13`; the exception of
  `SessionsEnd`). The drain goes away all the same (`DrainLifetimeEnds`).
* A warning about a record of full length is cut; its second piece may be taken for a
  timeline record that cannot be parsed and cause a second warning
  (`logyard_sieve/main.go:43`). That one causes no third (`EchoesEnd`).

## The proofs

`tlapm` checks seven modules from the assumptions named in the component modules
(`Absent` and the other marks are values of their own, bounds are natural
numbers, `InitialOffset` is an offset, and what `etc/sieve.yml` and
`etc/systail.yml` say of two events and one log file).

A liveness property often has a safety part that can be proved although the whole
cannot. `StopFindsWaiter` is that of `NotifiedSessionEnds`, `DrainIsWatched` of
`DrainLifetimeEnds`, `EventsFindLoop` of `TailReturns`, and `NoneVanishes` of
`TimelineReachesAppLog`: whoever has to act is still there to do so. That he acts is
what TLC checks under fairness. The first three are stated in the modules of proofs.

**`TailTrackerProofs`.** The invariants are not inductive alone. `IInv` adds that
locks agree with program counters (who is in `encode` holds `mux`; who is between
truncation and chmod holds `writeLock`), that buffers exist exactly from encoding
to writing, and which boxes are still to be encoded. From it follow
`TypeCorrect`, `NoCrossTalk`, `StableKeys`, `IsolatedWrites`, the action property
`RemovalIsFinal`, and `Refinement`: every step is a step of `CursorMap` on
`Cached` or leaves it alone. The case that needs the invariant is the store of
`Update`: if the object is still in the map it is the abstract `Update` of that
container (`NodesNotShared`), and if not the store changes nothing visible.

**`TailFileProofs`.** `LossBound` needs an account of the lines in flight: tail
has read at most one line beyond the one in hand of its session, so its position is at
most two beyond `covered`; the cursor and the saved offset are bounded by such
positions (`Sound`, for each session, and `Tracked`). `SessionMoves` says once what the
step of one session leaves to be shown. `CursorNeverTakenBack` needs the opposite: what
`Update` is about to store is not before the cursor. `Follows` keeps track of the
position from `GetFileCachedOffset` through the seek and tail's reader to
`currentOffset`: in a session that is alone it is at none of these places before the
cursor, but for the zero of a failed `Tell`, and a tailing that is about to take the
size of its file has no cursor to overwrite. `Together` is what makes this inductive:
of two sessions that tail at the same time each is marked as `shared`, so that a step of
one cannot break what is claimed of the other. `PublishedLinesAreRecorded` adds
`Recorded`: tail has read the line in hand, so `Tell` reports a position behind it, and
so does the cursor once `Update` is past.

**`ApptailProofs`.** `AInv` adds that a session's goroutines start only after its
registration (`SpawnedLate`) and that a container is announced at most twice
(`AnnouncedTwice`, which the type of `msgs` rests on). `QuietStep`, `TailingStep`
and `WaitingStep` say once what a step of no session, of a tailing goroutine and
of a waiting goroutine leaves alone; the actions only discharge their
hypotheses. `BlockedIsHeard` is inductive on top of `AInv`: a session is blocked
only by a step that leaves a waiter in place, `Listen` takes a waiter out only by
notifying it (which `ChannelClosedOnce` makes a session of that container), and
who was notified stays so.

**`AppLogEndpointProofs`.** `DrainHasServer` needs that a request has a drain only
under its own app and only after `addDrain` (`DrainIsOwn`), and that whoever is
about to kill the server has removed the drain or failed to
(`RemovedBeforeKill`); `WaitDoesNotBlock` needs `ServerStarted`. `LifetimeIsWatched`
rests on `DrainHasServer`: the goroutine gives up its watch when it sees Dying, and
at that moment no drain points at its server, or its removal has failed.

**`SieveProofs`.** `ParseIsRight` and `OrderDoesNotMatter` are about the operators:
`FindString` returns at most one parser, one of the leftmost, since an order is
injective on a group; a parser with a unique substring is the only leftmost one;
and without a tie the leftmost set is a singleton that no order can change.

**`EventPipelineProofs`.** `PipelineTypes` is inductive; texts must be typed by the
file they are in (`Line`), for `WarningsEnd` rests on it: a line in the log of
logyard_sieve is the head of a warning, in which the warning's substring comes first
and alone, so that the warning event is what `Parse` finds (`QuotedIsWarning`), or the
rest of one about a line of another log: a rest is not long, so the warning about it
has a head only, and only heads have an `echo` of 2. This needs the assumptions
that the star group has that event and that the log of logyard_sieve has no group
of its own (`WarningIsEvent`, `SieveLogIsTailed`), as `etc/sieve.yml` and
`etc/systail.yml` have it. `RecordsAreParsedRight` and `RestartsDoNotMatter` apply
the theorems of `SieveProofs` to the records in flight. For `NoDuplicateAppLog` the
invariant `DInv` speaks of every place a record can be: it is in one log file, in the
subscription of logyard_sieve, among the events, published or lost, but never in two
of these or twice in one (`Apart`), and its id was given out before (`GivenOut`); the
second piece of a warning takes over the id of the record that logyard_sieve has just
taken from its queue, and heads, which have no id, never become events
(`EventsAreNumbered`). `TimelineAccountedFor` follows a record through each step; what the
step of logyard_sieve needs is that a text whose only leftmost substring belongs to
the timeline event is parsed to that event, which the assumption `TimelineIsEvent`
gives (a timeline event of the star group has a substring, the JSON handler and a group
to capture, as in `etc/sieve.yml:81-86`).

**`TailStreamProofs`.** `IInv` adds an account of the buffer: chunks are runs of
consecutive bytes that end at `src` (`ChunkFits`); the bytes in the buffer rise, are
later than all that was read, not later than what has been copied, beyond the floor
of the last `Seek`, and at most as far from the end of the buffer as from the last
byte there is room for (`Held`); and unless the buffer is spoilt, all of it is copied
but the room of a Write that has not copied yet (`Clean`). The distance is what
`SeekIsKept` needs, for `Seek` counts from the end. A spoilt buffer holds unknown bytes
only, of which these claims say nothing, and a Reset leaves an empty one: so they are
there again when the buffer is good again. From the same invariant follow
`StreamTypes`, `WakeupsArrive` and the action property `BytesStayInOrder`.
`TailFindsItsLoop` needs `LoopInv`: the loop ends only after `stopCh` is closed, only
the goroutine that waits for the container closes it, and that one is started by the
last step of `Tail`.

Only model-checked: the liveness properties (temporal reasoning with fairness and
ENABLED is beyond the prover), and of course the violations.

## Not modelled

Formatting of messages, configuration look-ups, the UID file, packaging, and test
doubles: they have no state of their own. Router registration is one message at
the start and one in answer to each `router.start`. The docker_events command
republishes what the stream brings, under keys nobody here subscribes to. The
retry loops of `docker_events` are one step that succeeds or fails. logyard, NATS,
docker, tail, zeromq and the line server are external and modelled by what this
code sees of them.

Not covered by a property, and known: a loop of `pubchannel` that has got past its
first 100 ms never ends, as nobody closes its channel (`pubchannel.go:39`); a system
log whose tailer has died is not tailed again until systail has lost the last one
(`systail/main.go:95`); the line with its whole configuration that
logyard_sieve logs at its start (`logyard_sieve/config.go:25`) is read by systail
like any other; a router that starts between the first advertisement and the
subscription is not told (`router.go:52`); a persist interval of 0 makes
`time.NewTicker` panic (`main.go:44`); a bad `drain_lifetime` leaks a port per
request (`app_log_drain.go:47`); a failed GET of the container list is a nil
dereference (`docker_events.go:80`); `RemoveOrphanedDrains` removes the drains of
another endpoint process, too (`orphan.go:15`).

## Plan

Done, in this order: the tracker and its abstract map with the refinement; the
life of a log file; sessions, boot and listener on top of the abstract map; the
endpoint; the proofs of all their safety invariants; docker log streams with the
timeline channel; sieve, and the pipeline from a system log to an app log; the
proofs of their safety; the proofs of all action properties, and of the safety part
of what the liveness properties promise.

Next, by weight:

1. The retry loops of both requests of `docker_events`.
2. The order in which the records of one log file become app logs.
