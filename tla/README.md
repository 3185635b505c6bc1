# TLA+ models of Malstrom

Malstrom is a distributed, stateful stream processor. A job is a dataflow graph
that runs on every worker; a coordinator starts the workers, takes snapshots and
changes the number of workers while the job runs. This directory holds TLA+
models of that machinery, the TLC configurations that check them and proofs that
TLAPS checks. Paths below are relative to `src/malstrom-core/src` unless they
start with `src/`.

## The system

| Component | State | Operations | Talks to |
|---|---|---|---|
| Key distributor `keyed/distributed.rs` | router, remotes with their barrier, suspend, epoch and version state, local barrier, suspend marker and frontier | `run`: poll remotes, one local message, try barrier, try suspend, router lifecycle | distributors of the other workers (FIFO links), local upstream, operators downstream |
| Message router `keyed/distributed/message_router/*` | Normal, Interrogate, Collect or Finished; version, old and new worker set, whitelist, current collection, buffer | `route_message`, `handle_rescale`, `lifecycle` | distributor |
| Stateful operator `operators/stateful_op.rs` | state per key | data, interrogate, collect, acquire, barrier, epoch | distributor upstream of it |
| Worker `worker/mod.rs` | operators | build, execute, snapshot, reconfigure, suspend | coordinator |
| Coordinator `coordinator/*` | active workers, configuration version, phases of the workers in a watch map | start-up, rescale, snapshot, suspend, completion | workers, snapshot store |
| Snapshot store `snapshot/*` | snapshots per worker and version, list of commits | for_version, persist, load, commit | coordinator, workers |
| Operator channels `channels/*` | queues, per-upstream barrier, epoch and suspend state | send, aligned receive | operators |
| Sources and sinks `sources/stateful.rs`, `sinks/stateful.rs` | partitions and their positions | assign, poll, snapshot, rescale | coordinator partition worker, distributor |
| Time operators `operators/time/*` | frontier, held epochs | assign timestamps, generate epochs, split late data | channels |
| Runtimes `runtime/*`, `src/malstrom-k8s/runtime` | threads, links, gRPC streams | spawn, connect, send, receive, rescale service | all |
| Kubernetes operator `src/malstrom-k8s/operator` | the watched job; services and StatefulSets in the API server | reconcile: create, patch, rescale, delete, finalizer | API server, rescale service of the coordinator |

What makes it hard:

* A worker is one thread, but the workers of a job interleave freely. During a
  reconfiguration they are in different router states at the same time, and data,
  key state, `Upgrade` and `AckUpgrade` travel over the same links.
* Barriers, epochs and suspend markers of several inputs have to be aligned,
  while some inputs are not read at all.
* The coordinator waits for the phases of all workers through notifications
  registered at run time; reports of the workers arrive concurrently.
* The whole job can die at any point between the workers' snapshots, the
  coordinator's own and the commit, and starts again from the store.

* On Kubernetes a change of the job is a sequence of calls, each of which may fail
  or be the last one the operator makes, and the pods and the coordinator follow at
  their own speed.

What correctness means: every accepted message reaches the state of exactly one
worker exactly once; the state of a key is in one place; a snapshot is a
consistent cut; nothing follows the epoch that excludes it; operations end;
a committed snapshot is complete and never changes; the coordinator and the
workers agree on the cluster. `PROJECT.json` lists each hazard at its line.

## Modules

* `MessageRouter`: the routing rules of the four router states, one operator each
  (`RouteInterrogate`, `RouteCollect`, `RouteFinished`, and the Normal case in
  `RouteMessage`). The partitioner is the constant `Target`.
* `Distributor` (extends it): the distributors of all workers, their links
  (`chan`), the queue to the stateful operator (`out`) and the operator. One call
  of `Distributor::run` is `BeginRun`, one `ReceiveRemote` for each message that
  was polled, one local step (`NoLocal`, `LocalData`, `LocalEpoch`,
  `LocalBarrier`, `LocalSuspend`, `LocalRescale`) and `RunTail`, which emits
  barrier and suspend marker and takes the router's lifecycle step. The variable
  `turn` holds the worker inside `run`: a run polls every remote before it sends
  anything, so no behaviour is lost by not interleaving the runs of two workers,
  only the runs themselves interleave. `BeginRun` may leave out any filled link: a
  message in transit. Reference counting (`Rc::strong_count`, `try_unwrap`) is
  `Pending`: a message is still in the queue behind the distributor.
  The environment is the coordinator (`StartRescale`, `StartSnapshot`,
  `StartSuspend`, one at a time), the workers that leave (`WorkerLeaves`) and
  the upstreams. Key state is the set of ids of the messages folded into it, so
  that a lost or a doubled update can be seen.
* `Coordinator`: the coordinator loop with a step for every `await`, the watch
  map with the conditions that are registered and fired, the inbound tasks, the
  control loop of every worker, and the snapshot store, across crashes of the
  whole job. What a worker does during an operation is the subject of
  `Distributor`; here it takes some time.
* `OperatorIo`: the edges of a worker's graph. `Send` and `Recv` are `Output::send`
  and `Input::recv` as functions of the channels; `Recv` is left biased, merges
  epochs and waits for alignment exactly as the code does.
* `Dataflow` (extends it): one worker executing a graph of operators, which is a
  constant: any graph that the `StreamBuilder`s can make (`Graph`). A step is one call of `RunnableOperator::step`, in the order of
  `Worker::step`; `ctl` is where `Worker::execute` stands. Sources, timestamp and
  epoch generation, late split, map, filter, flatten, stateful_map, ttl_map and
  sinks are operators; a snapshot, a reconfiguration and a suspension send their
  markers through the graph, and `Restart` builds the operators from the last
  committed snapshot. The reference count of a marker is `InFlight`.
* `ExactlyOnce`: the abstract promise for the state: each record is applied at most
  once, a snapshot copies the state at one moment, a restart returns to the last
  committed copy. `Dataflow` implements it under the mapping `Promise` (the state of
  the folding operator, what it has persisted, what is committed).
* `Partitions`: the partitions of a source and of a stateful sink on all workers. The
  kinds of source differ in `BuildPart`: a stateful one starts at its state, a
  stateless one at the beginning, Kafka at the offset the broker has for the group.
  Of the distributors in front of the two operators it keeps where a message ends up
  while its key moves. `Home`: what the old owner is sent, or sends on, stays with it
  while it holds the partition and follows the state to the new owner afterwards. The
  list of parts takes this way, as worker 0 emits it ahead of the `Rescale`. Records
  for the sink do not always: a worker that has just joined, or one that is neither the
  old nor the new owner and has left the old configuration, sends them straight to the
  new owner (`RoutesAnew`, `ahead`), which may take them before the state arrives
  (`Takers`). `early` is the history of the sink partitions that were begun in this
  way. When such a worker is then asked for its keys it lists the partition, and its
  distributor panics on it (`OnCollect`, `panicked`), as in the run `down_panic`. How
  the distributors do all this is the subject of `Distributor`.
* `Kubernetes`: the operator's reconciliation, one API call per step (`op.pc`), the
  watch it reads from, the controller that makes pods from StatefulSets, and the
  coordinator's process with its rescale service. `FailedCall` covers a call that is
  refused, one whose answer is lost, and the death of the operator. `disturbed` and
  `lost` are history variables and exist for the properties only. `lost` says why
  resources may outlive their job. `disturbed` says what has come between the operator
  and the coordinator since the last answered rescale, and keeps two things apart:
  "cut", a rescale or a creation ended half way or the coordinator's process died; and
  "reverted", the coordinator's pod was replaced because its environment had changed,
  a step of the controller in which nothing fails.
* `MCDistributor`, `MCCoordinator`, `MCDataflow`, `MCPartitions`, `MCKubernetes`:
  instances for TLC. `MCDataflow` also evaluates, on its graph, the hypotheses that the
  theorems on epochs and on the fold make about a job.
* `DistributorProofs`, `MigrationProofs` and `AlignmentProofs` (the distributors),
  `CoordinatorProofs`, `DataflowProofs` and `CountingProofs` (the inside of a worker),
  `PartitionsProofs`, `KubernetesProofs`: the theorems.

`Distributor` and `Coordinator` meet at the operations of the coordinator: the
environment of the first starts a reconfiguration, snapshot or suspension only
when the last one is over, which is what `WorkersAgreeOnConfig` and the sequence
of phases in the second provide. `Dataflow` is the inside of a worker that
`Coordinator` sees as phases, and `Partitions` builds on where the distributor takes a
message.

## Runs

| Run | Instance | Checks |
|---|---|---|
| `scale_up` | {a,b} to {a,b,c}, one key that moves, 2 data messages, upstreams emit all the time | `DeliveredExactlyOnce`, `NeverPanics`, `NormalAfterAllCollected` |
| `state_migration` | the same, the upstreams pause while their worker reconfigures | `OneOwnerPerKey`, `NoUpdateLost` |
| `scale_down` | {a,b} to {b}, 2 keys, 2 data messages, upstreams pause | `DeliveredExactlyOnce`, `NoUpdateLost` |
| `epochs_and_snapshots` | {a,b}, a first reconfiguration that changes nothing, 2 data messages, 1 epoch, 1 barrier | `TypeOK`, `NoLateData`, `SnapshotIsCut` |
| `progress` | {a} to {a,b}, 1 data message, 1 barrier, suspension, fairness | `RescaleCompletes`, `SnapshotCompletes`, `SuspendCompletes`, `EventuallyConsumed` |
| `coordinator` | 2 worker ids, 3 requests (scale to 1 or 2, snapshot, suspend), 1 crash, workers may complete | `CommittedSnapshotIsComplete`, `WorkersAgreeOnConfig`, `NoUnreachable`, `ReturnsOnlyWhenDone`, `CommittedIsImmutable` |
| `dataflow` | 13 operators, 3 records from 2 sources, a late stream, a union; 1 snapshot, reconfiguration or suspension, 1 restart; fairness | `TypeOK`, `EveryRecordCountsOnce`, `NoDataBehindFrontier`, `CompletesOnlyWhenDrained`, `NoExpiredState`, `ImplementsExactlyOnce`, `MarkersLeaveTheGraph`, `ExecutionEnds` |
| `partitions` | {0,1} to {0} or {0,1,2}, 2 source parts with 2 and 1 records, 2 sink parts; 1 rescale, 1 snapshot, 1 restart; all kinds of source, under load | `TypeOK`, `OnePlacePerPartition`, `ReadExactlyOnce`, `NoRecordSkipped`, `NoDataAfterMax`, `SinkCountsEveryRecord`, `SinkCountsNoRecordTwice` |
| `kubernetes` | a job with 3 replicas that is edited twice and may be deleted, 1 fault; fairness | `TypeOK`, `NoOrphans`, `CoordinatorAgrees`, `NoCountedPodRemoved`, `DeletionCompletes`, `PodsFollowJob` |

What the code does not guarantee is part of the statement of these properties, so
that what it does guarantee is checked to its full extent:

* `ExecutionEnds` has two exceptions. A snapshot taken before `generate_epochs` has
  sent an epoch cannot be read back (it persists an `Option<T>` and loads a `T`): the
  worker panics at the restart. And a `generate_epochs` restored with MAX holds back
  the MAX the sources send again, so that execution does not end, although
  `sources/stateful.rs:185` expects no issue from sending it twice.
* `NoRecordSkipped` excludes Kafka after a crash: the group's offset runs ahead of
  the job's snapshot.
* `OnePlacePerPartition` holds for every partition of a source. A partition of a sink is
  excepted once its new owner has begun it ahead of its state (`early`): under load the
  old owner and the new one have it at the same time. The state that arrives replaces
  what the new owner has counted until then (`sinks/stateful.rs:263`), which is the loss
  of `up_lost_update` in a sink. So `SinkCountsEveryRecord` excepts these partitions
  too; it also ends when a worker panics, which loses what it held, when a worker
  leaves (`Distributor` has the messages that are lost then, this module does not) and
  at the first restart, which does not load the sink's state. `SinkCountsNoRecordTwice`
  has no exception: the early count is replaced and never added.
* `NoOrphans` names the two ways in which resources survive their job: it was deleted
  before the finalizer was set, or `job::delete` ignored an error that was not an
  answer of the server. `CoordinatorAgrees` and `NoCountedPodRemoved` have two
  exceptions. A rescale or a creation that was cut in two (`disturbed = "cut"`) is not
  taken up again, because only the replicas of the StatefulSet are compared. And a
  coordinator whose pod was replaced (`disturbed = "reverted"`) resumes with the
  workers of the last committed snapshot, without any fault; what it counts then is
  said exactly: those workers and no others (`Resumed`). The second exception is a
  disagreement with `perform_rescale`, whose comment says that a scale-down first
  instructs the coordinator to remove workers and then removes the pods
  (`src/malstrom-k8s/operator/src/job/patch.rs:96`). Take a job of three workers whose
  snapshot has been committed, and edit it to one. The coordinator gives up two workers
  and answers, the StatefulSet is scaled, and the new scale in the environment of the
  coordinator (`src/malstrom-k8s/operator/crds/src/lib.rs:439`) replaces its pod. The
  new process starts with the three committed workers and counts two whose pods are
  then taken away. TLC finds this within `kubernetes`, with one edit and no fault, as
  soon as the exception is taken out of `NoCountedPodRemoved`. `DeletionCompletes` and `PodsFollowJob`
  except the operator that waits without a time limit for a coordinator which itself
  waits for a pod that is not coming (`Stuck`).

Three runs end in a violation; each is a disagreement between the code and what
the repository says of it (`findings` in `PROJECT.json`):

* `down_panic`: {a,b} shrinks to {b}. a sends the state of key l to b before b has
  taken its own Rescale message. b's operator now holds l, b's interrogation finds
  that l moves from a to b, and its collection looks for b among b's remotes: the
  `expect("partitioner returns valid target")` fails.
* `up_lost_update`: b joins. Its router begins as Normal at version 0 with the new
  worker set, and its own upstream emits a message for a key that b is going to take
  over: b keeps it and its operator updates the key. The `Acquire` with a's state of
  the key arrives later and replaces what b has computed.
* `snapshot_wakeup`: the worker's `SnapshotComplete` is entered into the map after
  the first notification fired and before the second one is registered.
  `notify` does not look at the map, and nothing changes it any more.

The passing runs take the upstreams' behaviour that avoids these (`Quiet`) only
where the property would otherwise be the one that is violated: `scale_up` runs
under full load. `scale_down` has no `NeverPanics` and no `OneOwnerPerKey`; a
worker that panics stops there, which is why it does not check for deadlock. Its
upstreams pause because under load `DeliveredExactlyOnce` does not hold for a
scale-down: a leaving worker can forward a message after it has acknowledged the
survivor's upgrade, and the survivor then drops the link unread
(`keyed/distributed/message_router/finished.rs:85`). Deadlock is off in `progress`
(a suspended job stops), `coordinator` (a completed job stops, and the lost wakeup
stops it too), `partitions` (everything has been read) and `kubernetes` (a deleted
job comes to rest). `dataflow` checks it: an input that met a barrier on one edge and
a suspend marker on another would stop the worker.

Bounds. Two workers are enough for one to hold a key and the other to take it
over; the third in `scale_up` is needed for messages that are forwarded twice and
for acknowledgements that arrive in different orders. Two data messages give one
that is in the state before the key moves and one that arrives at any point of the
move. One barrier and one epoch give every order of the markers of two workers.
`FirstVersion` is 0 for a new job and 1 for one that has been restarted, whose
routers start at version 0 again while the coordinator's counter goes on. In the
coordinator three requests reach scale up, scale down and scale up again, and a
snapshot between two rescales; one crash reaches every restart point.
In `dataflow` the second record is late or moves the epoch, depending on the
timestamp it is given, and the third one meets the others in the union, where a
marker of one side waits for the other side's; a single marker at any moment and a
restart at any moment reach every cut. `MaxIdle` bounds how often a source is polled
in vain. In `partitions` one of the two partitions of an operator moves when a worker joins and
the other one when a worker leaves; the records of a source part go to the sink part
of the other one, so that a reader also sends to a part of which it is neither the old
nor the new owner. A stateful source gets a rescale and a restart in the same
behaviour, the others one of the two (`MaxFaults`). In `kubernetes` three replicas
and two edits reach growing, shrinking and an edit during either; one fault reaches
every point between two calls, and with it every state a second reconciliation can
start from.

Fairness. `progress`: a worker that is inside a run finishes it (one thread); every
worker is scheduled again and again and a link delivers what was sent (strong
fairness of a run that polls everything, since other steps of the worker disable it
in between); the operator behind the distributor is scheduled; and what the
coordinator hands to the worker reaches the distributor (`Worker::step` goes over
all operators in a loop). `snapshot_wakeup`: the async runtime polls tasks that can
go on, channels deliver, workers do not stop inside an operation. `dataflow`: the
worker's thread runs (weak fairness of its next step, it is one loop). `kubernetes`:
the watch delivers, a reconciliation is queued again after every result and every
error, StatefulSets are reconciled by their controller and the coordinator's loop runs;
users, faults and the automatic snapshot are not fair.

## Proofs

`DistributorProofs` proves, for any finite set of workers, any keys, any
partitioner that picks a member of the set it is given, any sequence of
reconfigurations that only add or only remove workers, and any bounds:

* `TypeCorrect`: `Spec => []TypeOK`;
* `NormalIsSafe`: `Spec => []NormalAfterAllCollected`, the rule that the finished
  router goes back to Normal only when all the workers it is connected to have
  finished collecting for the same reconfiguration, and that it stays so.

Neither is inductive. The type of a message that is taken off a link needs
`PolledLinksFilled`: the links a run has still to read hold something, which holds
because no step of another worker comes in between. `NormalAfterAllCollected`
rests on what an `Upgrade` means. The inductive invariant `IInv` adds:
reconfigurations given to a worker are never ahead of the coordinator
(`DeliveredBehind`); a worker that is gone is Normal; a router that is not Normal
works on the last reconfiguration and at its version (`MovesForLastRound`,
`VersionIsRound`); every `Upgrade` on a link and every version in a table of
remotes announces a reconfiguration that its sender has behind it
(`UpgradesAreTrue`, `LastVersionsAreTrue`); and what Normal workers rely on
(`NormalIsSettled`). The step is by one lemma per action. Most actions are calm
(`CalmCore`): they change no router and send no `Upgrade`. The rest use that what
is behind a worker stays behind it (`AnnouncementsStayTrue`): `delivered` only
grows, and a router goes from Finished only to Normal. A new reconfiguration needs
that all routers are Normal, which is the coordinator's rule of one operation at a
time. TLC checks the invariant on the instances as well.

Its second part proves what `scale_up` checks, for reconfigurations that only add
workers (`OnlyJoins`): any number of them, any finite set of workers, any keys, any
number of messages, epochs and snapshots, and upstreams that emit at any moment.

* `NobodyPanics`: `Spec => []NeverPanics`;
* `EveryMessageDeliveredOnce`: `Spec => []DeliveredExactlyOnce`.

The hypotheses are where the code stops giving the guarantee. `Growing`: a cluster
that shrinks panics (`down_panic`) or drops a link that is not empty. `MinimalMoves`:
the partitioner gives a key to a worker that was there before only if the key was its
own before, which is what `rendezvous_select` does; any other user-supplied function
could send a key between two old workers, and then state that arrives early makes the
interrogation list a key that stays. `~Suspends`: nothing sends the request yet. The
instance of `scale_up` satisfies all three. The inductive invariant `DeliveryInv`
adds to `IInv`: the workers that run are the ones the coordinator wants
(`NobodyLeaves`); a worker is connected to all workers of its old and its new set, and
to everybody once it has had the Rescale message (`Connected`); a router collects only
keys that go to another worker and buffers only while it collects
(`CollectsForOthers`); a message is on one link, in one buffer or in one queue until
it is consumed and nowhere after that (`OnePlace`), there only once (`NoRepeat`), and
only between and inside running workers (`AmongMembers`). `NoRepeat` is needed because
`DeliveredExactlyOnce` counts links and not positions; `AmongMembers` and `Connected`
because it counts only links whose reader still polls them. `RoutesInReach` is the
fact about the routing rules: whatever the state of the router, the target is
connected, and a message is buffered only for the key in collection. A data message
that is routed has exactly one `Destination`, and `Routed` shows once, for local and
remote messages, that it lands there and leaves where it was. TLC has checked
`DeliveryInv` on the instance of `scale_up` and on two reconfigurations in a row.

`MigrationProofs` proves what `state_migration` checks, under `OnlyJoins` and `Quiet`,
again for any workers, keys, messages, epochs and snapshots and any number of
reconfigurations:

* `OneOwner`: `Spec => []OneOwnerPerKey`;
* `UpdatesKept`: `Spec => []NoUpdateLost`.

Without `Quiet` the second one fails (`up_lost_update`). The invariant, `Migration`,
follows a key from its old owner in the reconfiguration to the new one. The old owner
holds it (`Holds`) until its router has collected it, and from then on has given it away
(`Given`) and never takes it back. State, and data on its way to the operator, are only
where `Serves` allows it: with the old owner while it holds the key, with the new one
once it is given. A link may carry data of the key to the new owner only from the old
owner, or when the new owner is done with the reconfiguration itself (`MayCarry`). From this come
the two facts the theorems need. There is never state in two of the four places; and on
the link from the old owner, and in the queue of the new one, state is ahead of all data
of its key and finds the operator without any (`StateFirst`, `Vacant`), so that the
`Acquire`, which replaces the state, replaces nothing. The rest is what keeps these two
going: which set and version each router has (`Config`); a whitelist only lists keys that
move away and, after the interrogation, all of them that have state or data before it in
the queue (`KeysToCollect`, `Interrogates`); data of a key in collection is buffered and
not behind the `Collect` in the queue (`Collects`); nothing that belongs to a
reconfiguration is on a link behind its `Upgrade`, nor is data of a later version, so a
worker that has taken the `Upgrade` of all others has all state that comes to it
(`LinkOK`, `Closing`). Each action is the step of one worker (`Alone`) that keeps what it
can see of a key (`Retains`), and `HeldStays` concludes from that that no update is lost.
TLC has checked `MigrationInv` on the instance of `state_migration`, and on one key
and two reconfigurations in a row, of which the second adds a worker to the first.

`AlignmentProofs` proves what `epochs_and_snapshots` checks, for every cluster whose
reconfigurations keep its workers (`Steady`): any finite set of workers, any partitioner,
any number of messages, epochs, snapshots and reconfigurations.

* `NoDataIsLate`: `Spec => []NoLateData`;
* `SnapshotsAreCuts`: `Spec => []SnapshotIsCut`.

`Steady` is what the code needs: while workers join or leave, a message that is sent on
to the new owner of its key can be overtaken by an epoch (the TODO at
`keyed/distributed.rs:138`), so the guarantee is not there to be proved. A cluster of one
set of workers still interrogates, finishes and acknowledges in every reconfiguration;
`Settled` says what that leaves as it was: the remotes of each worker, and that a
message is only ever sent to the owner of its key and by the worker that accepted it.
For the epochs, data on a link is newer than the last epoch its reader has taken and
than the epochs before it, and no epoch on it is ahead of its writer (`LinksInOrder`);
what a distributor has let through is behind its local upstream and all its remotes
(`EpochsMerged`). For the barriers: no two snapshots are under way at once and a
distributor that has passed on the barrier was the last to wait for it (`Rounds`); a
barrier is on a link, once, exactly from the moment its writer has had it until its
reader has noted it (`MarksOnWay`); a remote whose barrier was noted is not read
(`PolledUnbarred`); the job is suspended after its snapshots (`SuspendedLater`). With
them the cut can be followed: on each queue the messages of the snapshot are those
before the barrier (`QueuesAreCut`), an operator's state and what it has persisted are
cut at the same place (`StatesAreCut`), and every accepted message is with one worker
(`Found`, `OneHome`), without which a snapshot that lost a message would still be a cut
of the others.

`CoordinatorProofs` proves, for any number of workers and any bounds on requests and
crashes, with finite and with endless sources, all the safety properties of
`coordinator`:

* `SnapshotsAreComplete` (`CommittedSnapshotIsComplete`), `ConfigurationsAgree`
  (`WorkersAgreeOnConfig`), `NoWorkerPanics` (`NoUnreachable`) and `ReturnsWhenDone`
  (`ReturnsOnlyWhenDone`) as invariants;
* `CommittedSnapshotsStay`: `Spec => CommittedIsImmutable`, an action property.

These properties speak of the moments between two operations or of what is committed;
the invariant has to say what holds in between. `VersionsInOrder`: the snapshots are
numbered in the order of their commits, and the versions do not run out. `LoopShape`
and `ConditionsAreAwaited`: whom the loop deals with at each stage, and that a
condition is in the watch map only while the loop is going to wait for it. `FiredOnce`:
no condition is both registered and fired. `FiredIsTrue`: a condition that has fired
still tells the truth when the loop takes note of it, although the workers went on in
the meantime; the coordinator relies on this and does not look at the map again.
`Lane`: for each worker the messages to it, its control state, the reports from it and
its phase in the map are one of a few combinations at each stage, so that no message
meets a state that does not expect it. `Agreement`: who works with which worker set.
`CompletedMeans`: when the end of the job was noticed all workers had completed, or a
worker was just joining, and then one that has completed keeps the reconfiguration from
ending. `PersistedState`: what the snapshot that is about to be committed holds. One
lemma per action.

`DataflowProofs` proves, for every graph of operators (`Graph`: each edge joins one
output to one input, a stream is registered before what it feeds, only sources take
the root stream, nothing follows a sink), any feeds, timestamps and filters, and any
number of requests and restarts:

* `TypeCorrect` (`TypeOK`);
* `CompletesDrained` (`CompletesOnlyWhenDrained`);
* `SnapshotsComplete`: a committed snapshot holds the state of every stateful operator;
* `EpochsHold` (`NoDataBehindFrontier`), for jobs with `LateStreamApart`;
* `StateExpires` (`NoExpiredState`), for jobs with `LateStreamApart` and `TtlOnTime`.

`Graph` also says that `generate_epochs` follows `assign_timestamps`, and the
timestamps are between `Bound` and MAX: outside of that the subtraction of
`limit_out_of_orderness` may leave the time type, which is the user's affair.
`LateStreamApart` is a condition on the job and not on the code: a job that unites its
late stream with the on-time one gets late data behind the epochs of the latter, as
nothing checks them again; a `ttl_map` on the late stream keeps what comes after its
time (`TtlOnTime`).

Every operator's step has one shape (`Summary`, by `StepSummary`): what the input took
from which edges (`Reception`), what the logic made of it, what was appended to which
edges. `EdgeStep` turns it into three cases for an edge: its head is taken, messages
are appended, or nothing happens to it; all parts of the invariant are proved per
edge from there. The parts:

* Markers. Only the marker of the request in work is in the graph (`OwnMarkers`), the
  root stream carries nothing else (`RootCarriesMarkers`), and no operator is suspended
  outside of a suspension (`NobodySuspends`). The worker takes a snapshot for complete
  when no barrier is left in the graph, which says nothing about the operators by
  itself. `BarrierWave` does: there is a set of operators which the barrier has passed
  and which have persisted their state, and the barrier is on exactly those edges that
  lead out of the set, once. When it is on no edge, the least operator outside of the
  set would have all its inputs from inside and a barrier on each: there is none
  (`WaveOver`).
* The end. Nothing but markers follows MAX on an edge (`NothingAfterMax`); an operator
  sends MAX only after it has taken MAX from all its upstreams, a source when it has
  read everything (`EndsAfterUpstreams`, `SourcesEnd`, `FrontierOfUpstreams`). As the
  loop of `Worker::step` looks at one operator after the other, `PassSoFar` says what
  the pass has found, and that later steps of the pass do not undo it.
* Order (`InOrder`). On an edge of the on-time stream data is newer than the epochs
  before it and than the last one the receiver took, and epochs do not go back
  (`Ordered`); the merged frontier of an input is behind each of its upstreams
  (`MergedSoFar`); what is on an edge is not ahead of its sender (`SentBySender`).
  Between `generate_epochs` and the split it holds for the messages that are not late.

TLC has checked each part on the instance of `dataflow`.

`CountingProofs` proves, for every graph with `OnePathToFold` and `LateStreamKept`:

* `RecordsCountOnce`: `Spec => []EveryRecordCountsOnce`;
* `WorkerImplementsExactlyOnce`: `Spec => ImplementsExactlyOnce`, the refinement of
  `ExactlyOnce`.

The hypotheses are about the job. One that sends a record to the fold on two ways, or
through a flatten, folds it twice because its author wrote it so; one with a filter in
front of the fold leaves records out; a late stream that is filtered loses them. With
`OnePathToFold` a record is fed by one source, once, and every operator before the fold
sends it over one edge that leads there (`WayToFold`), through unions and splits.

A record in one place is a property of the worker as it is now, and it is not inductive:
a restart takes the worker to what a snapshot put together at different moments. So the
invariant (`Counted`) says the same thing (`Once`) of three views of the worker: the
present; while a snapshot is under way, the view in which the operators that the barrier
has passed are as they have persisted themselves, the others as they are, and a queue
holds what is in front of its barrier and nothing where its receiver was passed; and
each snapshot that has been reported or committed, with empty queues. The first two are
`Cutting`s by a set of operators, with the empty set for the first, and the step of an
operator is proved once for both (`StepCounts`): it takes a record from an edge, adds it
to one, or moves neither in the view, because the operator is behind the barrier
(`EdgeEffect`). When the barrier has left the graph, `WaveOver` makes the second view
the snapshot. The number of copies in `EveryRecordCountsOnce` is a cardinality; the
proof says instead that at most one edge before the fold holds the record and once, and
`CopiesCount` translates. `ImplementsExactlyOnce` then needs that the fold has not
counted a record that is in front of it (`FoldApplies`), that the barrier reaches the
fold once in a snapshot, and that a snapshot is not taken for an absent one
(`AbsentAssumption`: `None` stands for Rust's `Option::None`, which is no snapshot).

`PartitionsProofs` proves, for any finite sets of workers and partitions, any number
of records, rescales, snapshots and restarts, and all kinds of source:

* `TypeCorrect` (`TypeOK`), `StatefulReadsOnce` (`ReadExactlyOnce`), `NothingIsSkipped`
  (`NoRecordSkipped`) and `NothingAfterMax` (`NoDataAfterMax`);
* `PartitionsHaveOnePlace` (`OnePlacePerPartition`): a partition of a source always, one
  of a sink unless its new owner has begun it early;
* `SinkMissesNothing` (`SinkCountsEveryRecord`), with the exceptions named above.

The invariant: `Placement` says where a partition may be at each stage of a rescale
(with the worker it belongs to, still to be given away, on its way to its new owner,
nowhere else at rest), and `SinglePlace` that it is in one of these places only. Both
speak of the parts that are `Clean`, which are all parts of the source and the sink
parts that are not `early`: the first record that a new owner takes ahead of the state
is the only step that makes two places of one, and it makes the part early.
`StatefulPositions` and `ReachedPositions` relate what was read to the position the
partition has where it is, in a snapshot too, since a restart goes back to it;
`EnoughRead`, `KnownIsExhausted` and `MaxAfterAll` follow an exhausted partition from
its reader over the announcements to the worker that sends MAX. For the sink `SinkInv`
says that every count of a partition that was not begun early, with a worker or in an
`Acquire` message, and the records still on their way to it, on either way, add up to
those that were read for it: at the moment a partition is handed over its count is in
two hands and has to be right in both. `IsFiniteSet(Parts)` is an assumption because
`list_parts` returns a `Vec`.

`KubernetesProofs` proves, for every number of replicas, of edits and of faults
(`ScaleAssumption`, `BoundsAssumption`):

* `TypeCorrect`: `Spec => []TypeOK`;
* `GuardedDeletionIsClean`: `Spec => []NoOrphans`. A job that is gone has left no
  resource behind, provided that the finalizer guarded its deletion and that no error
  of the deletion was swallowed;
* `OperatorAndCoordinatorAgree`: `Spec => []CoordinatorAgrees`, and `CountedPodsStay`:
  `Spec => NoCountedPodRemoved`, an action property.

`NoOrphans` is not inductive: it speaks of the job when it is gone and says nothing of
the reconciliation that removes it. `IInv` adds: the operator makes only the calls of
the decision it took (`ProperCall`); what the calls of a deletion have removed so far
stays removed until the last one (`DeletionProgress`); and nothing leads back
(`NoWayBack`): a deletion is not revoked, the watch is never ahead of the API server,
and no reconciliation creates resources for a guarded job that is gone. The step is by
one lemma per action; the steps of the pods and of the coordinator share one, as they
leave that part of the state alone (`RuntimeStepsKeepDeletion`).

`CoordinatorAgrees` speaks of the moments between two reconciliations only. The second
invariant, `CInv`, follows the scale through the calls of a rescale: who waits for
which answer (`OneAwaits`), what the StatefulSet's replicas are at each call and when
the coordinator has been told (`Deployed`, `Resizing`), and that the two agree
otherwise (`Agreement`), or that a replaced coordinator has what it resumed with.
`NoCountedPodRemoved` needs more than the present scale of the coordinator: all scales
it has, is going to have and would start with are within the replicas whenever pods may
go, again up to what it has resumed with (`Covered`, `Within`, `Loose`). An answered
rescale ends the exception: it leaves the coordinator with the scale of the request
(`ServeRescale`). TLC has checked both invariants on the
instance.

Only model-checked, and why:

* liveness and everything under fairness, and with it all of `progress`: out of reach of
  the prover;
* `SinkCountsNoRecordTwice`: a proof would add up the counts of two workers and of a
  message, where `SinkInv` follows one of them;
* the safety properties of `scale_down` other than the two that hold for every sequence
  of reconfigurations (`TypeCorrect`, `NormalIsSafe`): `DeliveredExactlyOnce` and
  `NoUpdateLost` hold on its instance, where a worker that panics stops with all it
  holds. The invariants behind the theorems rest on nobody leaving (`NobodyLeaves`,
  `Connected`), and a proof would need others for workers that leave or have stopped;
* `NoLateData` and `SnapshotIsCut` while workers join or leave: the code does not
  guarantee them.

## Not modelled

* The start and the end of threads, the gRPC streams of the Kubernetes runtime (their
  buffers, time limits and reconnections) and the artifact services, see `components`.
  A transport that fails is a fatal error of the worker which nothing handles, so a
  model of it would end with it.
* The hash of the partitioner, encodings (except where an encoded value cannot be read
  back) and object-store I/O are abstracted.
* Liveness of the end of a stream across workers. A worker that joins has no client to
  hear of finished partitions from (`sources/stateful.rs:291`), and what was announced
  by a worker that leaves can be dropped with its client, so MAX need not reach all;
  `Partitions` has the announcements and checks that no MAX is sent too early.
* A single worker that dies is not modelled because nothing in the code notices it.
* A worker that leaves and joins again under the same id (`Distributor`): see the
  hazards.
* Operators that differ from the modelled ones in the user's function only (inspect,
  cloned, filter_map, key_local).
* The `Suspend` request is handled by the coordinator but, as its comment says, not
  sent by anything yet; the models send it.

## Plan

Modelled and checked: the core of the first plan (router, distributor, coordinator),
then the inside of a worker, partitions and the Kubernetes operator. What is left:

1. Proofs: `DeliveredExactlyOnce` and `NoUpdateLost` of a scale-down.
2. A second incarnation of a worker id in `Coordinator` and `Distributor`.
3. The threads of the multi-threaded runtime.
