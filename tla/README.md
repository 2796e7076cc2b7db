# A TLA+ model of sentinel-drone

sentinel-drone is a fork of Telegraf with plugins for a Filecoin Lotus node. An
*agent* gathers metrics from *inputs*, passes them through *processors* and
*aggregators*, and writes them to *outputs*. This directory models how metrics
move through that pipeline, where they come from, and what runs around it; checks
the models with TLC on small instances, and proves the properties that matter most
with TLAPS for instances of any size.

`PROJECT.json` lists the runs, the source lines each definition models, the
hazards, the findings and the theorems.

## The system

| Component | State it keeps | Operations | What makes it correct |
|---|---|---|---|
| Metric buffer (`internal/models/buffer.go`) | ring of slots, first, last, size, where the outstanding batch came from | Add, Batch, Accept, Reject, Len | every metric is in one place or told its fate once; when there is no room the oldest goes |
| Running output (`internal/models/running_output.go`) | buffer, count of new metrics, count of drops, BatchReady | AddMetric, Write, WriteBatch | once no more arrive, every metric is sent or dropped; the count never skips the batch size; no more drops are reported than there were |
| Flush loop (`agent/agent.go`, `agent/tick.go`) | ticker, flush signal, context | flushLoop, flushOnce, relayTime | ends after the input has; a final Write, where there is one, empties the buffer |
| Delivery tracking (`metric/tracking.go`, `agent/accumulator.go`) | counts of a group, channel of results | AddTrackingMetricGroup, Copy, Accept, Reject, Drop, Delivered | one true report per group, after its last copy; no panic |
| Agent (`agent/agent.go`) | stages and the channels between them | Run and the run* methods, start and stop of service inputs | no send on a closed channel; nothing left behind; shutdown ends |
| Running aggregator (`internal/models/running_aggregator.go`) | aggregate, time window, lock | Add, Push, UpdateWindow | windows partition time; a metric made in time is aggregated; every window is pushed |
| Lotus input (`plugins/inputs/lotus`) | connection, goroutines, last tipsets | Start, run, Stop, GetTips, head buffer Push and Pop | a tipset is sent once it is deep enough, parents first; the end of the headers or a failed walk back is fatal; its goroutines do not panic before Stop |
| Peer ID processor (`plugins/processors/lotus_peer_id`) | peer ID, time of the last failure | Apply | once known, the tag is on every metric |
| Kafka consumer (`plugins/inputs/kafka_consumer`) | semaphore, undelivered messages, sessions | Setup, ConsumeClaim, Handle, onDelivery, Cleanup, Stop | a message is marked only when its own metrics are delivered, or when it is too long; no slot leaks; Stop returns |
| MQTT consumer (`plugins/inputs/mqtt_consumer`) | connection state, semaphore, messages | connect, onConnectionLost, recvMessage, onDelivered, Gather, Stop | no slot is lost with a connection; a lost connection is made again |
| execd input (`plugins/inputs/execd`, `internal/exec_unix.go`) | child process and its pipes | cmdLoop, cmdRun, WaitTimeout, Stop | at most one child; none left behind; Stop returns |
| PostgreSQL output (`plugins/outputs/postgresql`) | connection, known tables, cached tag ids | Connect, Write | what Write reports as written is in the database; a row's tag id means its tags; faults do not block it for good |
| Reload loop (`cmd/telegraf/telegraf.go`) | reload channel, signals | reloadLoop, runAgent | a signal that the run's goroutine takes is obeyed; the loop never waits in vain |
| Log file (`internal/rotate`, `logger`) | file, size, archives, the writer in use | Write, rotate, purge, Close, SetupLogging | lines go to the file with the log's name, except after a reload; a rotation ends if renames succeed |
| Rate limiter (`internal/limiter`) | counter, ticker | run, Stop | at most n + 1 tokens between two ticks |
| Running processor, running input, metric, filter, selfstat, config, parsers, serializers, other plugins | see `PROJECT.json` | | |

How they interact: each input adds metrics through an accumulator, which sends
them on `inputC`. The processors read `inputC` and write `procC`; the
aggregators read that and write `outputC`, to which a second goroutine adds the
aggregates; `runOutputs` reads the last channel and calls `AddMetric` of every
output. Each output has a goroutine, `flushLoop`, that takes batches out of the
buffer and writes them. A metric that is tracked is accepted, rejected or
dropped wherever its journey ends, and its input is told.

The consumers of Kafka and MQTT rely on that report: they
keep a semaphore of as many slots as they asked `WithTracking` for, take one for
each message and give it back on its report, because a report that finds its channel
full panics (`Tracking`). Around the pipeline, the reload loop runs one agent after
the other, each of which sets up the log anew.

What is hard about it: the two goroutines of an output share a ring from which
the newest metrics are taken and to which they may have to be returned after
others have arrived; their counters are atomic only one access at a time;
handles of one group are settled by several goroutines; shutdown has to close
four channels in an order in which no sender is surprised; an aggregator holds
its lock while it sends on a channel that may be full; a report may come before the
input has learnt the ID of what it added; the MQTT callbacks share fields without
a lock; caches of database state outlive the connection; a log file is renamed
under the writer that has just opened it.

## Modules

| Module | Models | Notes |
|---|---|---|
| `MetricQueue` | what a buffer promises | abstract specification: a bounded queue, split where a batch was taken out |
| `Buffer` | `buffer.go` | each operation is under the mutex, hence one step |
| `MCBuffer` | | adds the loop of Reject, turn by turn, to compare with its closed form |
| `RunningOutput` | `running_output.go`, `flushLoop`, `flushOnce`, `runOutputs`, `tick.go` | extends `Buffer`; one step per access to shared state |
| `Tracking` | `tracking.go`, the tracking accumulator | one step per atomic access |
| `Agent` | `Run` and what it calls | one step per channel operation |
| `Lotus` | `lotus.go`: Start, Stop, run, the workers | one step per channel operation or call of the node |
| `TipFeed` | what the tipset source promises | abstract specification: a cursor that follows the chain at a distance |
| `Tips` | `rpc.go`: GetTips, loadTipsets; `head_buffer.go` | implements `TipFeed` |
| `PeerId` | `peerid.go` | one step per Apply |
| `KafkaConsumer` | `kafka_consumer.go` | one goroutine per claim, one for results |
| `MqttConsumer` | `mqtt_consumer.go` | one step per access to a shared field |
| `Execd` | `execd.go`, `exec_unix.go` | cmdLoop, cmdRun, the child |
| `Postgresql` | `plugins/outputs/postgresql` | one step per statement |
| `Aggregator` | windows: `updateWindow`, `push`, Add, Push | time is an integer |
| `Reload` | `reloadLoop`, `runAgent` | one step per channel operation |
| `LogFile` | `file_writer.go`, the writers of `logger.go` | one step per write, rotation or opening |
| `Limiter` | `limiter.go` | one step per branch of its select |
| `MCInputs`, `MCServices` | | several modules that share no state, checked in one run each |
| `BufferProofs`, `RunningOutputProofs`, `TrackingProofs`, `AgentProofs`, `TipsProofs`, `KafkaProofs`, `MqttProofs`, `ServiceProofs` | | theorems |

**Buffer.** The variables are the fields of the struct, plus the slice the
flusher holds (`batch`) and, for each metric, how often it was told to be
written or dropped. A metric is the number of its Add, so the smaller is the
older; zero is nil. The loops of `Batch` and `Reject` are written in closed form:
a slot is described by how many `prev` steps lead to it. `StepsBack`, `moves`,
`landings` and `rotated` are the rotation loop of `Reject`; that they describe it
exactly is itself checked (`ClosedFormIsLoop`). A method call on a nil metric
sets `panicked`: Accept calls one on every metric of its batch, which after an
overrun may hold a nil.

**RunningOutput.** `adder` is the program counter of the goroutine of
`runOutputs`, `flusher` that of `flushLoop` and of the `Write` or `WriteBatch` it is
in. The load, the warning and the store of `droppedMetrics` are separate steps, as
are the increment, the comparison's reset and the signal of `newMetricsCount`. The
plugin's Write succeeds or fails. `aggregating` is chosen at the start: an
AggregatingOutput (Azure Monitor is one) takes metrics under `aggMutex` into
`aggregates`, and Write pushes these to the buffer and resets them before anything else.
A metric that the output's filter discards
never gets here.

**Tracking.** A *handle* is one `trackingMetric`. Counting the outcome, giving up
the reference, and notifying are three steps, so that the steps of other
goroutines come between them. The input keeps to the contract of
`TrackingAccumulator`: it has no more groups unread than it asked room for.

**Agent.** `hasProcessors` and `hasAggregators` choose the shape of the pipeline,
and all four shapes are checked. `Put`, `Take`, `Close` and `Drained` are the
channel operations of Go; a send on a closed channel sets `panicked`. The
processors drop, pass on or copy a metric. The aggregators are one, with its lock:
a metric they do not filter out is added with the lock held, and a push holds it
from its first send to its reset. A service input sends whenever it likes between
its Start and the return of its Stop, which waits for a send under way: "The
Accumulator may be retained and used until Stop returns" (`input.go:18-19`). That
the plugins keep to this is assumed here. Not all do: the goroutines of the Lotus input
outlive Stop, the MQTT consumer's Disconnect waits 200 ms for its callbacks and no longer, and
execd's Stop does not wait for the goroutines that read the child's output. `Lotus` models what happens then. The outputs' goroutines are `RunningOutput`; here they
are the step `OutputsFlushed`.

**Lotus.** `runner` is where `run` is, `warner` and `pump` are the goroutines that log
warnings and feed tipsets, `worker` the two that consume tipsets and headers, and
`recording` counts the goroutines these start. A send on a closed channel, that of
warnings or the agent's `inputC`, sets `process` to "panic", and os.Exit(1) to "exit1"; it
is "crash" after a panic of the code itself, for a version without a "+" (`VersionPanics`) or
a throttle that is not positive (`NewThrottle`).
Calls of the node succeed or fail; a subscription may end on its own, or all with
the connection.

**Tips, TipFeed.** A tipset is the chain that ends in it, so that a reorganisation is
a shorter chain followed by a longer one. `hb` is the head buffer, `sent` what was put
on the channel. `Current` is the first change of a subscription, with the walk
back to the last height seen; `Apply` and `Revert` are the later ones. In `TipFeed` there
is no buffer, only `settled`, how far along the chain everything is sent: the
refinement mapping is "the chain without what is in the buffer".

**PeerId.** `backOff` is the field `curAPIBackOff`, which holds a time before any
throttle until the first call has set it. The node may be replaced by another one.

**KafkaConsumer.** `claim[c]` is where the goroutine of claim c is; it takes a slot
(`sem`), locks, adds the group, records the message in `undelivered` and unlocks. A
group may be settled as soon as it is added, before its message is recorded; only
the mutex keeps onDelivery waiting. A rebalance ends the session, and the next one
has a new handler and begins after the last mark. `Setup` is one step with the check of the
context before it: a Stop between the two does what one right after Setup does.

**MqttConsumer.** `link` is the connection as the library sees it and `state` the field
of that name. The tracking ID of a group is the least one not in use; IDs of groups
under way are never reused. `overwritten` records that `connect` assigned Connected
after onConnectionLost had assigned Disconnected.

**Execd.** `cmd` and `stdin` are the fields that cmdLoop reads while cmdRun sets them.
That exec.Cmd refuses a second Wait, and one before Start, is the library's.

**Postgresql.** The database is `tables`, `tagRows` and `rows`; `known` and `tagCache` are the
output's view of it. A statement may succeed with its reply lost. `epoch` counts
how often somebody dropped the tables: what holds of stored rows is only claimed
while nobody has. The four combinations of tags_as_foreignkeys and
tags_as_jsonb are all initial states.

**Aggregator.** A metric is the time it carries. It waits in `queue` for any time
before it is added; a push comes at the end of the window or any time later.

**Reload.** `reload` is the channel of capacity one that holds TRUE when the loop is
to run again; `handler[i]` is the goroutine of iteration i, which may outlive it in
test mode, `signals[i]` its channel.

**LogFile.** `path` is the file that has the log's name, `file[w]` the one that writer w
has open. `overlapped` are writers whose file was renamed by the Close of another. `old` are
files past the rotation interval: opening one, or a full one, rotates it. A writer without
rotation is a plain file (`NewPlainWriter`), and when the first opening fails the log goes to
stderr (`NewFileWriterFails`). `KeepAll` is the -1 of rotation_max_archives; other negative
values are not considered.

**Limiter.** `emitted` counts the tokens taken since the last tick; a tick may come
late.

## Runs

Every run is exhaustive within its bounds.

| Run | Bounds | Shows |
|---|---|---|
| `output` | capacity 3, batch 2, 5 metrics, 4 during a write; the first flush aligned | both goroutines: `LengthCountsUnsent`, from which Write counts its turns (for longer bursts see `LengthIsRight` under Proofs), `NeverSkipsBatchSize`, `FinalWriteEmpties`, `NeverOverReports`, `Terminates`, `SettledOnceQuiet` |
| `agent` | 1 polled input, 2 service inputs, 1 output, channels of capacity 1, 2 metrics | the four shapes of the pipeline: `NeverSendsOnClosed`, `NothingLeftBehind`, `ServicesStopped`, `ShutdownCompletes` |
| `inputs` | below | where metrics come from: `Tracking`, `Lotus`, `Tips`, `PeerId`, `KafkaConsumer`, `MqttConsumer`, `Execd`; and `Buffer` overrun |
| `services` | below | around the pipeline: `Postgresql`, `Aggregator`, `Reload`, `LogFile`, `Limiter`; and `Buffer` |
| `buffer_loss`, `output_aligned_final`, `output_snapshot`, `output_report`, `lotus_exit`, `postgres_tags`, `log_rename`, `limiter_rate` | | findings, below |

The last two passing runs hold several modules that share no state. A behaviour is
a behaviour of one of them: the initial state chooses which, the others stay as
they begin, and the fairness is that of the one that moves. Nothing is lost by
this, and no product of their state spaces is built.

| Module, in run | Bounds | Properties |
|---|---|---|
| `Tracking`, inputs | 3 groups, 3 handles, room for 2 results | `NeverPanics`, `ReportsRight`: one true report per group, after its last copy; `EveryGroupReported` |
| `Lotus`, inputs | 2 goroutines recording at a time | `PanicsOnlyAfterStop`: its goroutines do not surprise each other; `LostSourceIsFatal`: it does not go on after the end of the headers or a failed walk back |
| `Tips`, inputs | lag 2, heights to 4, 9 changes of the chain | `ParentsFirst`; `FollowsFeed`: it implements `TipFeed` |
| `PeerId`, inputs | 2 identities, throttle 3, 8 time units | `TagsOnceKnown` |
| `KafkaConsumer`, inputs | 2 claims of 2 messages, 1 slot, 2 sessions | `SlotsBalance`, `FindsMessage`, `MarkIsDeserved`, `StopReturns` |
| `MqttConsumer`, inputs | 2 receivers, 1 slot, 2 messages, 2 losses | `SlotsSurviveReconnect`, `Reconnects` |
| `Execd`, inputs | none needed | `NoOrphan`, `ExecdStopReturns` |
| `Postgresql`, services | 6 batches over 2 measurements, a cache of 1, 2 writes, 2 faults | `AcceptedIsStored`, `BatchIsAccepted` |
| `Aggregator`, services | period 2, delay 1, grace 1, 5 time units, 2 metrics | `WindowsCoverTime`, `FreshIsAggregated`, `EveryPeriodPushed` |
| `Reload`, services | 3 iterations, 3 signals | `LoopNotStuck`, `SignalsObeyed` |
| `LogFile`, services | 2 lines a file, 1 archive, 3 lines, 2 seconds, 3 writers | `LogsAtPath`, `RotationEnds` |
| `Limiter`, services | 2 tokens a tick | `OneTokenLate` |
| `Buffer`, services | capacity 4, batch 3, 13 metrics, at most 5 added during a write | `ExactlyOnePlace`, `DropsOldestFirst`; `RefinesQueue`: the ring implements `MetricQueue` |
| `Buffer`, inputs | capacity 4, batch 3, 14 metrics, up to 11 during a write | `ClosedFormIsLoop`: the closed form of Reject is its loop however far the ring is overrun, which `buffer_loss` relies on |

Some of these say what holds *except* in a case the code does not cover, and name
the case: the MQTT consumer with a persistent session may meet a nil map, and a loss
between the connection and the assignment of Connected is hidden for good; execd's
Stop leaves a child alone whose Wait is refused; after a reload the log goes to an
archive until the next rotation, if there is one. Others are about less than one might wish:
what the Lotus input sends after Stop, a Kafka offset that is committed beyond a message not
yet delivered, a second archive of one second that replaces the first, and tag ids cached across
dropped tables are in the models, and no property excludes them.

Why these bounds are enough to be interesting. Capacity 4 and batch 3 do not
divide each other, so a batch wraps around the end of the ring, there are older
metrics beside the batch, and a rejected batch may fit whole, in part or not at
all; 13 metrics go around the ring three times. Capacity 3 and batch 2 give the
flush loop full, partial and empty batches. With three groups and room for two
results the channel of results is full while a group is still waiting. Channels
of capacity one are full after a single send, so every stage of the agent is seen
blocked on the next; two service inputs are needed for one to be started and
stopped again when the other fails. A lag of 2 and chains of up to four tipsets let
a reorganisation stay within the head buffer, empty it, and go below it. Two claims
with one slot block each other. Two faults are a lost connection while the write
recovers from another. A cache of one tag set is evicted by the second. Period 2
with delay and grace 1 makes neighbouring windows overlap at both ends; five time
units are three windows. Three iterations of the reload loop let a goroutine of the
first still be about in the third. Where a theorem covers the property (see Proofs)
the bounds do not matter.

`MaxBurst` is the one bound that changes the answer. As long as at most one more
metric than the capacity is added while a batch is out, the buffer is a bounded
queue; beyond that it is not (see `buffer_loss`).

### Fairness

Goroutines that can run do (weak fairness of the flusher, of a call of AddMetric
that has begun, of each stage), and time passes (the ticker). Metrics, flush
signals, cancellation and new groups come only if they come. `SettledOnceQuiet`
also assumes an output that does not fail for ever (strong fairness of `WriteOk`):
without it a metric may be returned to the buffer time and again. It has a premise,
too, that metrics stop arriving: batches are taken newest first, so that as long as others
arrive an old metric may be overtaken again and again. `Terminates`
is checked in the same run; it does not rest on that, since a Write that fails
also ends.

In `Agent`, Gather and the final writes return, and a select offered the same
branch again and again takes it in the end: Go chooses among ready branches at
random, hence the strong fairness of `GatherStops` and `PushLast`. A goroutine
waiting for a mutex gets it in the end (Go's mutex hands over to a waiter that has
starved), hence that of `AdderAdds`. Nothing is assumed of a service input but
that a send it has begun goes on when the channel has room.

The other modules are alike. In `Lotus`, calls of the node return, well or not. In
`KafkaConsumer` nothing is assumed of the pipeline: Stop returns although no group is
ever settled. In `MqttConsumer` the agent calls Gather every interval, and a broker
that is asked again and again answers in the end (strong fairness of `ConnectDone`).
In `Execd` timers fire and a killed child exits, but no other does. In `Postgresql` the
agent flushes again and again, and the server comes back; faults are finitely many
by their bound. In `Reload` an agent whose context is done returns, which is what
`ShutdownCompletes` of `Agent` shows. In `LogFile` only the steps of the writer are fair, and a rename may fail for ever;
`RotationEnds` has as its premise that it does not, and `KeepsLogOpen` is what fails without it. `Execd` (the done context) and `Limiter` (the shutdown)
use the random choice of a select as above. `Tips` and `PeerId` need none.

`Agent`, `Buffer` and the modules of the last two passing runs may really stop (a
failed start, all metrics added, all handles used, a bound reached), so deadlock is
not checked there; the liveness properties say what must not get stuck.
`RunningOutput` is checked for deadlock.

## Findings

* `buffer_loss` (`buffer.go:229`). When more than capacity + 1 metrics are added
  while a batch is being written and the write then fails, Reject writes the batch
  over newer metrics that are neither accepted nor rejected.
* `output_aligned_final` (`agent.go:565`). With `round_interval`, an agent that is
  stopped before its first aligned flush does not write what its outputs hold,
  although runOutputs "will call Write one final time before returning".
* `output_snapshot` (`running_output.go:197`). A Write may return without an error
  and leave metrics that were there when it began, because newer ones used up its
  turns.
* `output_report` (`running_output.go:242`). Drops made by Reject, and drops counted
  between write's load and its store, are never warned about.
* `lotus_exit` (`lotus.go:197`). Stop makes `run` return the context's error, which
  Start's goroutine answers with os.Exit(1): an orderly shutdown or a reload ends the
  process with status 1, perhaps before the outputs' final writes.
* `postgres_tags` (`tags_cache.go:85`). With a column for each tag, the question
  whether a tag set is recorded compares only the tags of this batch: {t1} finds the
  row of {t1, t2}, and rows are stored with its id.

* `log_rename` (`file_writer.go:139`). While a rename fails, rotateIfNeeded and openCurrent
  call each other without writing anything.
* `limiter_rate` (`limiter.go:51`). A token offered before a tick and taken after it comes on top
  of the n of the new period. `OneTokenLate` shows that it is never more than that one.

## Proofs

TLC checks the instances above; the theorems hold for every value of the
constants. They use the named ASSUMEs only: capacity, batch size, channel
capacity, numbers of slots, lag, period and tokens are positive, other bounds are
natural numbers, sets of groups, handles, claims and receivers are finite.
Bounds such as `MaxMetrics` are constants too, so that a theorem covers behaviours of
any length.

* `BufferProofs!TypeCorrect`, `LengthIsRight`. `TypeOK` is inductive as it stands. The
  work is the arithmetic of `Reject`: `restore` is at most the capacity and the length
  of the batch, so that every slot the rotation reads or writes is a slot. For the
  length, `BatchIsCounted` adds what `batchSize`, which Add lowers when it overruns the
  batch, is in terms of the slice the flusher holds.
* `RunningOutputProofs!CountNeverSkips`, `FinalWriteIsEnough`. The invariant, `OutputInv`,
  is on top of the buffer's: while the adder is between increment and comparison
  the count is at most the batch size, and less elsewhere; a final write begins
  when the adder has finished; and the turns left, times the batch size, exceed what
  is in the buffer, once the aggregates have been pushed.
* `TrackingProofs!NoPanic`, `ReportsAreRight` (and `TypeCorrect`). The inductive
  invariant says that the reference count is the number of handles that have not
  given up their reference, that a handle about to notify is the last of its
  group, that the rejections counted are those of the handles, and that the
  channel holds exactly the groups reported and not read. None of the properties
  is inductive without them: a report is right because whoever makes it is the
  last, which only the count says.
* `AgentProofs!NoSendOnClosed`, `ShutdownIsClean`, `NoServiceLeft` (and
  `TypeCorrect`). The inductive invariant says that a stage that is done has
  drained its source, that a closed channel has no sender left, that service
  inputs start and stop in order, and that every metric made is handed over,
  dropped, in a channel or in the hands of a stage. When Run returns all stages
  are done, so all channels are drained, and what is left of that last disjunction
  is "handed over or dropped".
* `TipsProofs!SendsParentsFirst`, `ImplementsFeed`. The invariant, `TipsInv`: the head
  buffer is the top of the node's chain, and below it every tipset above the
  starting height has been sent. The refinement takes each step to one of `TipFeed`
  or a stutter; the walk back, which counts tipsets by height, needs that the
  heights of a chain increase.
* `KafkaProofs!SlotsAreBalanced`, `DeliveryFindsMessage`, `MarksAreDeserved`. The
  invariant, `KafkaInv`: a message under way is in exactly one place between the adding
  of its group and onDelivery; meanwhile it is recorded, or its claim holds the
  mutex and is about to; results say what became of their metrics; and slots are
  counted. The channel cannot overflow because its results are no more than the
  slots.
* `MqttProofs!SlotsOutliveConnections`. The invariant, `MqttInv`, counts slots and says
  when the map of messages has been made: a receiver without it has a persistent
  session.
* `ServiceProofs!WindowsPartitionTime`, `FreshMetricsStay` (`AggInv`: windows in order,
  what is aggregated belongs to the present one), `AtMostOneTokenLate` (`LimiterInv`:
  what may have been taken while a tick waits), `PeerIsTagged` (`PeerInv`: whoever
  knows the peer ID is not throttled), `LoopGetsItsToken` (`ReloadInv`: one token, in the
  channel, with the loop, or with the goroutine of the last iteration; a further
  iteration on its way is paid for by a SIGHUP).

Only model-checked:

* everything under fairness (`Terminates`, `SettledOnceQuiet`, `EveryGroupReported`,
  `ShutdownCompletes`, `LostSourceIsFatal`, `StopReturns`, `Reconnects`,
  `ExecdStopReturns`, `BatchIsAccepted`, `EveryPeriodPushed`, `SignalsObeyed`,
  `RotationEnds`), which is beyond the prover, as is ENABLED;
* `ExactlyOnePlace`, `DropsOldestFirst` and the refinement of `MetricQueue`, which hold
  for bursts of at most capacity + 1 only;
* `NeverOverReports`, which sums over all metrics, and `ClosedFormIsLoop`, which is
  about a recursive function;
* `PanicsOnlyAfterStop` and `NoOrphan`: `Lotus` has no constant but a bound and `Execd` none
  at all, so that TLC's run is already about every instance, or nearly;
* `AcceptedIsStored` and `LogsAtPath`.

## Not modelled

Configuration, parsers, serializers and filters are pure functions of text.
Statistics are counters; those of the buffer are variables of `Buffer`. Test mode
(`Agent.Test`) runs the inputs once and prints. A panic inside a plugin ends the
process, so nothing is said about what follows it. Of the PostgreSQL output,
do_schema_updates = false, fields as JSON and the texts of the statements are left
out.

Most of the repository, some nine tenths of its lines, is the two hundred other
plugins that it inherits, their parsers and serializers. They are clients of
external systems, mostly without state of their own from one Gather or Write to the
next, and differ, for the agent, only in when they send and whether a write
succeeds, which the models leave open. What was modelled is the machinery that
every metric passes, the plugins this fork adds, and those of the others whose
correctness depends on the order of things: the consumers that acknowledge
messages, and the one that keeps a process running. The map therefore covers
about a fiftieth of the repository's lines, although half of the lines of the files
it touches; the rest would be models of text formats and requests, in which a model
checker has nothing to interleave.
