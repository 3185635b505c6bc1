---------------------------- MODULE Distributor ----------------------------
(***************************************************************************)
(* The key distributor (keyed/distributed.rs) on every worker of a job,    *)
(* the links between the workers, and the stateful operator behind each    *)
(* distributor (operators/stateful_op.rs).                                 *)
(*                                                                         *)
(* A worker is one thread: it runs its operators one after the other.  One *)
(* call of Distributor::run is modelled by BeginRun, one ReceiveRemote per *)
(* message it polled, one step for the local message and one for the tail  *)
(* of the method.  No step of another worker comes in between: a run polls *)
(* all its remotes before it sends anything, so overlapping runs of two    *)
(* workers have the effect of one after the other.                         *)
(*                                                                         *)
(* The local upstream and the coordinator are the environment.  The        *)
(* upstream keeps the promise of an Epoch; the coordinator runs one        *)
(* operation (rescale, snapshot, suspend) at a time.                       *)
(***************************************************************************)
EXTENDS MessageRouter

CONSTANTS
  NoWorker,      \* no distributor is inside run()
  InitWorkers,   \* the workers the job was started with
  Scales,        \* Scales[i]: the worker set of the i-th reconfiguration
  FirstVersion,  \* its first version: 0 for a new job, > 0 after a restart
  MaxData,       \* bound: data messages the upstreams emit
  MaxEpoch,      \* bound: largest epoch (0: the stream has no epochs)
  MaxBarriers,   \* bound: snapshots the coordinator takes
  Suspends,      \* whether the coordinator may suspend the job
  Quiet          \* whether upstreams pause while their worker reconfigures

ASSUME DistributorAssumption ==
  /\ NoWorker \notin Workers
  /\ InitWorkers \in WorkerSets
  /\ Scales \in Seq(WorkerSets)
  /\ FirstVersion \in Nat
  /\ MaxData \in Nat /\ MaxBarriers \in Nat
  /\ MaxEpoch \in Nat
  /\ Suspends \in BOOLEAN /\ Quiet \in BOOLEAN

\* The workers that reconfiguration i starts from.
WorkersBefore(i) == IF i = 1 THEN InitWorkers ELSE Scales[i - 1]

\* Worker ids are 0..n-1, so a reconfiguration only adds or only removes
\* workers.  A worker that has left does not come back (it would be a new
\* process behind the same links).
ASSUME ScalesAssumption ==
  \A i \in DOMAIN Scales :
     /\ WorkersBefore(i) \subseteq Scales[i] \/ Scales[i] \subseteq WorkersBefore(i)
     /\ \A j \in 1..i : Scales[i] \cap WorkersBefore(j) \subseteq WorkersBefore(i)

VARIABLES
  \* RemoteState and the distributor's own fields
  barred, sentSuspend, frontier, localBarrier, localShutdown, localFrontier,
  \* links: chan[<<r, w>>] carries r's messages to w; out[w] feeds the operator
  chan, out, suspended,
  \* the stateful operator: ids of the messages folded into a key's state,
  \* its input frontier, the number of snapshots it has persisted
  opState, opFrontier, persisted, snapshot,
  \* the worker inside run(), where it is, and what it still has to poll
  turn, panicked,
  \* environment: running workers, reconfigurations started and the last one
  \* each worker was given, snapshots started and given, suspension
  alive, round, delivered, barrierRound, taken, suspending, suspendTaken,
  \* history: next message id, times each message was consumed, and the
  \* number of barriers that its source had emitted before it
  nextId, consumed, cut

remoteVars == <<barred, sentSuspend, frontier>>
localVars  == <<localBarrier, localShutdown, localFrontier>>
opVars     == <<opState, opFrontier, persisted, snapshot>>
envVars    == <<alive, round, delivered, barrierRound, taken, suspending, suspendTaken>>
histVars   == <<nextId, consumed, cut>>
vars == <<routerVars, peerVars, remoteVars, localVars, chan, out, suspended,
          opVars, turn, panicked, envVars, histVars>>

Ids    == 1..MaxData
NoTime == 0      \* no epoch seen yet (Option::None); epochs and timestamps are positive
Links  == Workers \X Workers
Idle   == [worker |-> NoWorker, stage |-> "idle", poll |-> {}]
Turns  == [worker : Workers, stage : {"recv", "tail"}, poll : SUBSET Workers] \cup {Idle}

\* A data message; what the code keeps in the value is its identity here.
DataMessage == [key : Keys, id : Ids, ts : Nat \ {NoTime}]

NetworkMessage ==
       [kind : {"Data"}, data : DataMessage, version : Nat]
  \cup [kind : {"Epoch"}, ts : Nat \ {NoTime}]
  \cup [kind : {"BarrierMarker", "SuspendMarker"}]
  \cup [kind : {"Acquire"}, key : Keys, state : SUBSET Ids]
  \cup [kind : {"Upgrade", "AckUpgrade"}, version : Nat]

OperatorMessage ==
       [kind : {"Data"}, data : DataMessage]
  \cup [kind : {"Epoch"}, ts : Nat \ {NoTime}]
  \cup [kind : {"AbsBarrier", "SuspendMarker", "Rescale", "Interrogate"}]
  \cup [kind : {"Collect"}, key : Keys]
  \cup [kind : {"Acquire"}, key : Keys, state : SUBSET Ids]

RouterTypeOK ==
  /\ mode \in [Workers -> Modes]
  /\ version \in [Workers -> Nat] /\ trigger \in [Workers -> Nat]
  /\ oldSet \in [Workers -> WorkerSets]
  /\ newSet \in [Workers -> WorkerSets]
  /\ whitelist \in [Workers -> SUBSET Keys]
  /\ collecting \in [Workers -> Keys \cup {NoKey}]
  /\ collected \in [Workers -> SUBSET Ids]
  /\ buffered \in [Workers -> Seq(DataMessage)]

PeerTypeOK ==
  /\ remotes \in [Workers -> SUBSET Workers]
  /\ lastVersion \in [Workers -> [Workers -> Nat \cup {NoVersion}]]
  /\ lastAck \in [Workers -> [Workers -> Nat \cup {NoVersion}]]
  /\ barred \in [Workers -> [Workers -> BOOLEAN]]
  /\ sentSuspend \in [Workers -> [Workers -> BOOLEAN]]
  /\ frontier \in [Workers -> [Workers -> Nat]]

LocalTypeOK ==
  /\ localBarrier \in [Workers -> BOOLEAN] /\ localShutdown \in [Workers -> BOOLEAN]
  /\ localFrontier \in [Workers -> Nat]
  /\ suspended \in [Workers -> BOOLEAN]
  /\ turn \in Turns
  /\ panicked \in SUBSET Workers

LinkTypeOK ==
  /\ chan \in [Links -> Seq(NetworkMessage)]
  /\ out \in [Workers -> Seq(OperatorMessage)]

OperatorTypeOK ==
  /\ opState \in [Workers -> [Keys -> SUBSET Ids]]
  /\ opFrontier \in [Workers -> Nat]
  /\ persisted \in [Workers -> Nat]
  /\ snapshot \in [1..MaxBarriers -> [Workers -> SUBSET Ids]]

EnvTypeOK ==
  /\ alive \in SUBSET Workers
  /\ round \in 0..Len(Scales) /\ delivered \in [Workers -> 0..Len(Scales)]
  /\ barrierRound \in 0..MaxBarriers /\ taken \in [Workers -> Nat]
  /\ suspending \in BOOLEAN /\ suspendTaken \in SUBSET Workers
  /\ nextId \in 1..(MaxData + 1)
  /\ consumed \in [Ids -> Nat] /\ cut \in [Ids -> Nat]

\* The type invariant: what the fields of the distributors, the links, the
\* operators and the environment may hold.
TypeOK == RouterTypeOK /\ PeerTypeOK /\ LocalTypeOK /\ LinkTypeOK /\ OperatorTypeOK /\ EnvTypeOK

\* Distributor::new on every worker of the first cluster.  Nothing is ever
\* persisted by the distributor, so a restarted job starts like a new one.
Init ==
  /\ mode = [w \in Workers |-> "Normal"]
  /\ version = [w \in Workers |-> 0] /\ trigger = [w \in Workers |-> 0]
  /\ oldSet = [w \in Workers |-> InitWorkers] /\ newSet = [w \in Workers |-> InitWorkers]
  /\ whitelist = [w \in Workers |-> {}]
  /\ collecting = [w \in Workers |-> NoKey]
  /\ collected = [w \in Workers |-> {}]
  /\ buffered = [w \in Workers |-> <<>>]
  /\ remotes = [w \in Workers |-> IF w \in InitWorkers THEN InitWorkers \ {w} ELSE {}]
  /\ lastVersion = [w \in Workers |-> [r \in Workers |-> NoVersion]]
  /\ lastAck = [w \in Workers |-> [r \in Workers |-> NoVersion]]
  /\ barred = [w \in Workers |-> [r \in Workers |-> FALSE]]
  /\ sentSuspend = [w \in Workers |-> [r \in Workers |-> FALSE]]
  /\ frontier = [w \in Workers |-> [r \in Workers |-> NoTime]]
  /\ localBarrier = [w \in Workers |-> FALSE] /\ localShutdown = [w \in Workers |-> FALSE]
  /\ localFrontier = [w \in Workers |-> NoTime]
  /\ chan = [l \in Links |-> <<>>] /\ out = [w \in Workers |-> <<>>]
  /\ suspended = [w \in Workers |-> FALSE]
  /\ opState = [w \in Workers |-> [k \in Keys |-> {}]]
  /\ opFrontier = [w \in Workers |-> NoTime]
  /\ persisted = [w \in Workers |-> 0]
  /\ snapshot = [n \in 1..MaxBarriers |-> [w \in Workers |-> {}]]
  /\ turn = Idle /\ panicked = {}
  /\ alive = InitWorkers /\ round = 0 /\ delivered = [w \in Workers |-> 0]
  /\ barrierRound = 0 /\ taken = [w \in Workers |-> 0]
  /\ suspending = FALSE /\ suspendTaken = {}
  /\ nextId = 1 /\ consumed = [i \in Ids |-> 0] /\ cut = [i \in Ids |-> 0]

----------------------------------------------------------------------------
\* Links and helpers.

Popped(r, w) == [chan EXCEPT ![<<r, w>>] = Tail(@)]

Broadcast(c, w, m) ==
  [l \in Links |-> IF l[1] = w /\ l[2] \in remotes[w] THEN Append(c[l], m) ELSE c[l]]

\* A message of this kind is still somewhere in the operators behind w: the
\* reference count of what it shares has not dropped to one.
Pending(w, kind) == \E i \in DOMAIN out[w] : out[w][i].kind = kind

InRun(w, stage) == turn.worker = w /\ turn.stage = stage

\* merge_timestamps: the smallest, None as soon as one of them is None.
MergeTimestamps(ts) == CHOOSE t \in ts : \A u \in ts : t <= u

\* All frontiers of w, its own upstream's too.
Frontiers(w, remoteFrontier, local) == {remoteFrontier[r] : r \in remotes[w]} \cup {local}

\* Mutant: an epoch is emitted before every input has had one.
HandleEpochUnset(w, remoteFrontier, local) ==
  <<[kind |-> "Epoch", ts |-> MergeTimestamps(Frontiers(w, remoteFrontier, local))]>>

\* Mutant: inputs that have had no epoch yet are left out.
HandleEpochEager(w, remoteFrontier, local) ==
  <<[kind |-> "Epoch",
     ts |-> MergeTimestamps(Frontiers(w, remoteFrontier, local) \ {NoTime})]>>

\* handle_epoch: what the distributor emits with these frontiers.
HandleEpoch(w, remoteFrontier, local) ==
  LET all == Frontiers(w, remoteFrontier, local)
  IN  IF \E t \in all : t # NoTime /\ \A u \in all : t <= u
      THEN <<[kind |-> "Epoch", ts |-> MergeTimestamps(all)]>>
      ELSE <<>>

\* Routing and sending of one data message (handle_local_data_message,
\* handle_remote_data_message, send_data_message); c is the state of the links
\* after the message was taken off its own, next the turn if nothing panics.
HandleData(w, d, sender, msgVersion, c, next) ==
  LET target == RouteMessage(w, d.key, sender, msgVersion)
      fails  == target \notin remotes[w] \cup {w, Buffer}
  IN  /\ whitelist' = [whitelist EXCEPT ![w] = Whitelisted(w, d.key, msgVersion)]
      /\ buffered' = IF target = Buffer
                     THEN [buffered EXCEPT ![w] = Append(@, d)] ELSE buffered
      /\ out' = IF target = w
                THEN [out EXCEPT ![w] = Append(@, [kind |-> "Data", data |-> d])] ELSE out
      /\ chan' = IF target \in remotes[w]
                 THEN [c EXCEPT ![<<w, target>>] =
                         Append(@, [kind |-> "Data", data |-> d, version |-> version[w]])]
                 ELSE c
      /\ panicked' = IF fails THEN panicked \cup {w} ELSE panicked
      /\ turn' = IF fails THEN Idle ELSE next
      /\ UNCHANGED <<mode, version, trigger, oldSet, newSet, collecting, collected>>

----------------------------------------------------------------------------
\* The remote part of run().

\* The remotes a run may poll and whose link has something to deliver.
Pollable(w) ==
  {r \in remotes[w] : ~barred[w][r] /\ ~sentSuspend[w][r] /\ chan[<<r, w>>] # <<>>}

\* A run begins: at most one message of each remote is received.  A message
\* may still be on its way, so any subset of the filled links may deliver.
BeginRun(w) ==
  /\ turn = Idle
  /\ w \in alive \ panicked
  /\ ~suspended[w]
  /\ \E ready \in SUBSET Pollable(w) :
        turn' = [worker |-> w, stage |-> "recv", poll |-> ready]
  /\ UNCHANGED <<routerVars, peerVars, remoteVars, localVars, chan, out, suspended,
                 opVars, panicked, envVars, histVars>>

RemoteData(w, r, m) ==
  /\ m.kind = "Data"
  /\ HandleData(w, m.data, r, m.version, Popped(r, w), [turn EXCEPT !.poll = @ \ {r}])
  /\ UNCHANGED <<peerVars, remoteVars, localVars, suspended, opVars, envVars, histVars>>

RemoteEpoch(w, r, m) ==
  /\ m.kind = "Epoch"
  /\ frontier' = [frontier EXCEPT ![w][r] = m.ts]
  /\ out' = [out EXCEPT ![w] = @ \o HandleEpoch(w, frontier'[w], localFrontier[w])]
  /\ UNCHANGED <<peerVars, barred, sentSuspend>>

RemoteMarker(w, r, m) ==
  /\ \/ /\ m.kind = "BarrierMarker"
        /\ barred' = [barred EXCEPT ![w][r] = TRUE]
        /\ UNCHANGED sentSuspend
     \/ /\ m.kind = "SuspendMarker"
        /\ sentSuspend' = [sentSuspend EXCEPT ![w][r] = TRUE]
        /\ UNCHANGED barred
  /\ UNCHANGED <<peerVars, frontier, out>>

RemoteAcquire(w, r, m) ==
  /\ m.kind = "Acquire"
  /\ out' = [out EXCEPT ![w] = Append(@, m)]
  /\ UNCHANGED <<peerVars, remoteVars>>

\* Mutant: an Upgrade that comes before our own Rescale message is forgotten.
RemoteUpgradeLate(w, r, m) ==
  /\ m.kind = "Upgrade"
  /\ lastVersion' = IF mode[w] = "Normal" THEN lastVersion
                    ELSE [lastVersion EXCEPT ![w][r] = m.version]
  /\ UNCHANGED <<remotes, lastAck, remoteVars, out>>

\* An Upgrade is recorded and acknowledged in whatever state the router is.
RemoteUpgrade(w, r, m) ==
  /\ m.kind = "Upgrade"
  /\ lastVersion' = [lastVersion EXCEPT ![w][r] = m.version]
  /\ UNCHANGED <<remotes, lastAck, remoteVars, out>>

RemoteAckUpgrade(w, r, m) ==
  /\ m.kind = "AckUpgrade"
  /\ lastAck' = [lastAck EXCEPT ![w][r] = m.version]
  /\ UNCHANGED <<remotes, lastVersion, remoteVars, out>>

\* The message of remote r that this run received is handled.
ReceiveRemote(w, r) ==
  /\ InRun(w, "recv") /\ r \in turn.poll
  /\ LET m == Head(chan[<<r, w>>]) IN
     \/ RemoteData(w, r, m)
     \/ /\ \/ RemoteEpoch(w, r, m)
           \/ RemoteMarker(w, r, m)
           \/ RemoteAcquire(w, r, m)
           \/ RemoteUpgrade(w, r, m)
           \/ RemoteAckUpgrade(w, r, m)
        /\ chan' = IF m.kind = "Upgrade"
                   THEN [Popped(r, w) EXCEPT ![<<w, r>>] =
                           Append(@, [kind |-> "AckUpgrade", version |-> m.version])]
                   ELSE Popped(r, w)
        /\ turn' = [turn EXCEPT !.poll = @ \ {r}]
        /\ UNCHANGED <<routerVars, localVars, suspended, opVars, panicked, envVars, histVars>>

----------------------------------------------------------------------------
\* The local part of run(): one message of the local upstream, or none.

\* The run is past its remotes and may receive locally (no unresolved barrier).
AtLocal(w) == InRun(w, "recv") /\ turn.poll = {}
MayReceiveLocal(w) == AtLocal(w) /\ ~localBarrier[w] /\ w \notin suspendTaken
ToTail == [turn EXCEPT !.stage = "tail"]

NoLocal(w) ==
  /\ AtLocal(w)
  /\ turn' = ToTail
  /\ UNCHANGED <<routerVars, peerVars, remoteVars, localVars, chan, out, suspended,
                 opVars, panicked, envVars, histVars>>

\* The reconfiguration under way is over on every worker, and those that left
\* are gone.
RescaleDone ==
  /\ round > 0 => alive = Scales[round]
  /\ \A w \in alive : delivered[w] = round /\ mode[w] = "Normal" /\ ~Pending(w, "Rescale")

\* The upstream of w may emit.  A worker that leaves has given its source
\* partitions away before the Rescale message reaches this distributor.
UpstreamActive(w) ==
  /\ round > 0 /\ delivered[w] = round => w \in Scales[round]
  /\ Quiet => \/ RescaleDone
              \/ delivered[w] < round /\ w \in WorkersBefore(round)

LocalData(w) ==
  /\ MayReceiveLocal(w) /\ nextId <= MaxData /\ UpstreamActive(w)
  /\ \E k \in Keys, ts \in (localFrontier[w] + 1)..(MaxEpoch + 1) :
        HandleData(w, [key |-> k, id |-> nextId, ts |-> ts], w, NoVersion, chan, ToTail)
  /\ nextId' = nextId + 1
  /\ cut' = [cut EXCEPT ![nextId] = taken[w]]
  /\ UNCHANGED <<peerVars, remoteVars, localVars, suspended, opVars, envVars, consumed>>

LocalEpoch(w) ==
  /\ MayReceiveLocal(w)
  /\ \E e \in (localFrontier[w] + 1)..MaxEpoch :
        /\ chan' = Broadcast(chan, w, [kind |-> "Epoch", ts |-> e])
        /\ localFrontier' = [localFrontier EXCEPT ![w] = e]
        /\ out' = [out EXCEPT ![w] = @ \o HandleEpoch(w, frontier[w], e)]
  /\ turn' = ToTail
  /\ UNCHANGED <<routerVars, peerVars, remoteVars, localBarrier, localShutdown, suspended,
                 opVars, panicked, envVars, histVars>>

\* Mutant: the remotes are not told of the barrier.
LocalBarrierSilent(w) ==
  /\ MayReceiveLocal(w) /\ taken[w] < barrierRound
  /\ localBarrier' = [localBarrier EXCEPT ![w] = TRUE]
  /\ taken' = [taken EXCEPT ![w] = @ + 1]
  /\ turn' = ToTail
  /\ UNCHANGED <<routerVars, peerVars, remoteVars, localShutdown, localFrontier, chan, out,
                 suspended, opVars, panicked, alive, round, delivered, barrierRound,
                 suspending, suspendTaken, histVars>>

LocalBarrier(w) ==
  /\ MayReceiveLocal(w) /\ taken[w] < barrierRound
  /\ localBarrier' = [localBarrier EXCEPT ![w] = TRUE]
  /\ chan' = Broadcast(chan, w, [kind |-> "BarrierMarker"])
  /\ taken' = [taken EXCEPT ![w] = @ + 1]
  /\ turn' = ToTail
  /\ UNCHANGED <<routerVars, peerVars, remoteVars, localShutdown, localFrontier, out,
                 suspended, opVars, panicked, alive, round, delivered, barrierRound,
                 suspending, suspendTaken, histVars>>

LocalSuspend(w) ==
  /\ MayReceiveLocal(w) /\ suspending
  /\ localShutdown' = [localShutdown EXCEPT ![w] = TRUE]
  /\ chan' = Broadcast(chan, w, [kind |-> "SuspendMarker"])
  /\ suspendTaken' = suspendTaken \cup {w}
  /\ turn' = ToTail
  /\ UNCHANGED <<routerVars, peerVars, remoteVars, localBarrier, localFrontier, out,
                 suspended, opVars, panicked, alive, round, delivered, barrierRound,
                 taken, suspending, histVars>>

\* RemoteState::default for the workers w connects to in this reconfiguration.
Fresh(w, f, default) ==
  [f EXCEPT ![w] = [r \in Workers |-> IF r \in Scales[round] \ remotes[w] THEN default
                                     ELSE f[w][r]]]

\* handle_rescale_message: connect to the workers that join and, in the
\* normal state, start the interrogation; any other state ignores it.
LocalRescale(w) ==
  /\ MayReceiveLocal(w) /\ delivered[w] < round
  /\ remotes' = [remotes EXCEPT ![w] = @ \cup (Scales[round] \ {w})]
  /\ lastVersion' = Fresh(w, lastVersion, NoVersion) /\ lastAck' = Fresh(w, lastAck, NoVersion)
  /\ barred' = Fresh(w, barred, FALSE) /\ sentSuspend' = Fresh(w, sentSuspend, FALSE)
  /\ frontier' = Fresh(w, frontier, NoTime)
  /\ delivered' = [delivered EXCEPT ![w] = round]
  /\ IF mode[w] = "Normal"
     THEN /\ mode' = [mode EXCEPT ![w] = "Interrogate"]
          /\ trigger' = [trigger EXCEPT ![w] = FirstVersion + round - 1]
          /\ oldSet' = [oldSet EXCEPT ![w] = newSet[w]]
          /\ newSet' = [newSet EXCEPT ![w] = Scales[round]]
          /\ whitelist' = [whitelist EXCEPT ![w] = {}]
          /\ out' = [out EXCEPT ![w] = Append(@, [kind |-> "Interrogate"])]
     ELSE UNCHANGED <<mode, trigger, oldSet, newSet, whitelist, out>>
  /\ turn' = ToTail
  /\ UNCHANGED <<version, collecting, collected, buffered, localVars, chan, suspended, opVars,
                 panicked, alive, round, barrierRound, taken, suspending, suspendTaken, histVars>>

----------------------------------------------------------------------------
\* The tail of run(): barrier, suspend marker, router lifecycle.

\* Mutant: the barrier is passed on without waiting for the remotes.
BarrierResolvedLocally(w) == localBarrier[w]

BarrierResolved(w) ==
  localBarrier[w] /\ \A r \in remotes[w] : barred[w][r] \/ sentSuspend[w][r]

\* Mutant: the barrier flag of the remotes is taken for their suspend flag.
SuspendResolvedIfBarred(w) == localShutdown[w] /\ \A r \in remotes[w] : barred[w][r]

SuspendResolved(w) == localShutdown[w] /\ \A r \in remotes[w] : sentSuspend[w][r]

\* try_emit_barrier and try_emit_shutdown: what they send ...
MarkerOut(w) ==
  (IF BarrierResolved(w) THEN <<[kind |-> "AbsBarrier"]>> ELSE <<>>) \o
  (IF SuspendResolved(w) THEN <<[kind |-> "SuspendMarker"]>> ELSE <<>>)

\* Mutant: the remotes stay barred after the barrier was passed on.
EmitMarkersNoReset(w) ==
  /\ localBarrier' = [localBarrier EXCEPT ![w] = @ /\ ~BarrierResolved(w)]
  /\ UNCHANGED barred
  /\ localShutdown' = [localShutdown EXCEPT ![w] = @ /\ ~SuspendResolved(w)]
  /\ suspended' = [suspended EXCEPT ![w] = @ \/ SuspendResolved(w)]

\* ... and what they do to the distributor.
EmitMarkers(w) ==
  /\ localBarrier' = [localBarrier EXCEPT ![w] = @ /\ ~BarrierResolved(w)]
  /\ barred' = IF BarrierResolved(w)
               THEN [barred EXCEPT ![w] = [r \in Workers |-> FALSE]] ELSE barred
  /\ localShutdown' = [localShutdown EXCEPT ![w] = @ /\ ~SuspendResolved(w)]
  /\ suspended' = [suspended EXCEPT ![w] = @ \/ SuspendResolved(w)]

\* Mutant: acknowledgements alone end the reconfiguration.
UpgradedAckOnly(w) == \A r \in remotes[w] : lastAck[w][r] = version[w]

\* Every remote is done collecting for our version and has acknowledged that we are.
Upgraded(w) ==
  \A r \in remotes[w] : lastVersion[w][r] = version[w] /\ lastAck[w][r] = version[w]

\* lifecycle: the normal router stays, the interrogate and the collect router
\* stay until the operators have dropped their message, the finished router
\* until every remote has upgraded and acknowledged.

LifecycleStays(w) ==
  /\ \/ mode[w] = "Normal"
     \/ mode[w] = "Interrogate" /\ Pending(w, "Interrogate")
     \/ mode[w] = "Collect" /\ collecting[w] # NoKey /\ Pending(w, "Collect")
     \/ mode[w] = "Finished" /\ ~Upgraded(w)
  /\ out' = [out EXCEPT ![w] = @ \o MarkerOut(w)]
  /\ UNCHANGED <<routerVars, peerVars, sentSuspend, frontier, chan, panicked>>

\* InterrogateRouter::lifecycle: the key set is ours alone, start collecting.
InterrogateLifecycle(w) ==
  /\ mode[w] = "Interrogate" /\ ~Pending(w, "Interrogate")
  /\ mode' = [mode EXCEPT ![w] = "Collect"]
  /\ version' = [version EXCEPT ![w] = trigger[w]]
  /\ collecting' = [collecting EXCEPT ![w] = NoKey]
  /\ buffered' = [buffered EXCEPT ![w] = <<>>]
  /\ collected' = [collected EXCEPT ![w] = {}]
  /\ out' = [out EXCEPT ![w] = @ \o MarkerOut(w)]
  /\ UNCHANGED <<trigger, oldSet, newSet, whitelist, peerVars, sentSuspend, frontier, chan, panicked>>

\* The collect router has no collection in the operators any more.
CollectReturned(w) ==
  mode[w] = "Collect" /\ (collecting[w] = NoKey \/ ~Pending(w, "Collect"))
AcquireTargetKnown(w) ==
  collecting[w] # NoKey => NewTarget(w, collecting[w]) \in remotes[w]

\* Mutant: the buffered messages overtake the state they need.
FlushCollectedLate(w) ==
  IF collecting[w] = NoKey THEN chan
  ELSE [chan EXCEPT ![<<w, NewTarget(w, collecting[w])>>] =
          @ \o [i \in DOMAIN buffered[w] |->
                  [kind |-> "Data", data |-> buffered[w][i], version |-> version[w]]]
            \o <<[kind |-> "Acquire", key |-> collecting[w], state |-> collected[w]]>>]

\* Mutant: what was buffered during the collection is dropped.
FlushCollectedOnly(w) ==
  IF collecting[w] = NoKey THEN chan
  ELSE [chan EXCEPT ![<<w, NewTarget(w, collecting[w])>>] =
          Append(@, [kind |-> "Acquire", key |-> collecting[w], state |-> collected[w]])]

\* The collected state goes to the new owner, then what was buffered for it.
FlushCollected(w) ==
  IF collecting[w] = NoKey THEN chan
  ELSE [chan EXCEPT ![<<w, NewTarget(w, collecting[w])>>] =
          @ \o <<[kind |-> "Acquire", key |-> collecting[w], state |-> collected[w]]>>
            \o [i \in DOMAIN buffered[w] |->
                  [kind |-> "Data", data |-> buffered[w][i], version |-> version[w]]]]

\* CollectRouter::lifecycle, one more key to collect.
CollectNextKey(w) ==
  /\ CollectReturned(w) /\ AcquireTargetKnown(w)
  /\ \E k \in whitelist[w] :
        /\ whitelist' = [whitelist EXCEPT ![w] = @ \ {k}]
        /\ collecting' = [collecting EXCEPT ![w] = k]
        /\ out' = [out EXCEPT ![w] = @ \o MarkerOut(w) \o <<[kind |-> "Collect", key |-> k]>>]
  /\ collected' = [collected EXCEPT ![w] = {}]
  /\ buffered' = [buffered EXCEPT ![w] = <<>>]
  /\ chan' = FlushCollected(w)
  /\ UNCHANGED <<mode, version, trigger, oldSet, newSet, peerVars, sentSuspend, frontier, panicked>>

\* CollectRouter::lifecycle, everything is collected: tell the remotes.
CollectLifecycleDone(w) ==
  /\ CollectReturned(w) /\ AcquireTargetKnown(w) /\ whitelist[w] = {}
  /\ mode' = [mode EXCEPT ![w] = "Finished"]
  /\ collecting' = [collecting EXCEPT ![w] = NoKey]
  /\ collected' = [collected EXCEPT ![w] = {}]
  /\ buffered' = [buffered EXCEPT ![w] = <<>>]
  /\ chan' = Broadcast(FlushCollected(w), w, [kind |-> "Upgrade", version |-> version[w]])
  /\ out' = [out EXCEPT ![w] = @ \o MarkerOut(w)]
  /\ UNCHANGED <<version, trigger, oldSet, newSet, whitelist, peerVars, sentSuspend, frontier, panicked>>

\* CollectRouter::lifecycle, the new owner is no remote ("partitioner returns
\* valid target"): the worker panics.
CollectLifecyclePanics(w) ==
  /\ CollectReturned(w) /\ ~AcquireTargetKnown(w)
  /\ panicked' = panicked \cup {w}
  /\ out' = [out EXCEPT ![w] = @ \o MarkerOut(w)]
  /\ UNCHANGED <<routerVars, peerVars, sentSuspend, frontier, chan>>

\* FinishedRouter::lifecycle: forget the workers that leave, pass the Rescale
\* message on, route normally.
FinishedLifecycle(w) ==
  /\ mode[w] = "Finished" /\ Upgraded(w)
  /\ remotes' = [remotes EXCEPT ![w] = @ \ (oldSet[w] \ newSet[w])]
  /\ mode' = [mode EXCEPT ![w] = "Normal"]
  /\ oldSet' = [oldSet EXCEPT ![w] = newSet[w]]
  /\ out' = [out EXCEPT ![w] = @ \o MarkerOut(w) \o <<[kind |-> "Rescale"]>>]
  /\ UNCHANGED <<version, trigger, newSet, whitelist, collecting, collected, buffered,
                 lastVersion, lastAck, sentSuspend, frontier, chan, panicked>>

RunTail(w) ==
  /\ InRun(w, "tail")
  /\ EmitMarkers(w)
  /\ \/ LifecycleStays(w)
     \/ InterrogateLifecycle(w)
     \/ CollectNextKey(w)
     \/ CollectLifecycleDone(w)
     \/ CollectLifecyclePanics(w)
     \/ FinishedLifecycle(w)
  /\ turn' = Idle
  /\ UNCHANGED <<localFrontier, opVars, envVars, histVars>>

----------------------------------------------------------------------------
\* The stateful operator behind the distributor takes one message.

StatefulData(w, m) ==
  /\ m.kind = "Data"
  /\ opState' = [opState EXCEPT ![w][m.data.key] = @ \cup {m.data.id}]
  /\ consumed' = [consumed EXCEPT ![m.data.id] = @ + 1]
  /\ UNCHANGED <<whitelist, collected, opFrontier, persisted, snapshot>>

StatefulInterrogate(w, m) ==
  /\ m.kind = "Interrogate"
  /\ whitelist' = [whitelist EXCEPT ![w] =
                     @ \cup {k \in Keys : opState[w][k] # {} /\ Moves(w, k)}]
  /\ UNCHANGED <<collected, opState, opFrontier, persisted, snapshot, consumed>>

StatefulCollect(w, m) ==
  /\ m.kind = "Collect"
  /\ collected' = [collected EXCEPT ![w] = opState[w][m.key]]
  /\ opState' = [opState EXCEPT ![w][m.key] = {}]
  /\ UNCHANGED <<whitelist, opFrontier, persisted, snapshot, consumed>>

\* Acquired state replaces what the operator has for the key.
StatefulAcquire(w, m) ==
  /\ m.kind = "Acquire"
  /\ opState' = [opState EXCEPT ![w][m.key] = IF m.state = {} THEN @ ELSE m.state]
  /\ UNCHANGED <<whitelist, collected, opFrontier, persisted, snapshot, consumed>>

StatefulBarrier(w, m) ==
  /\ m.kind = "AbsBarrier"
  /\ persisted' = [persisted EXCEPT ![w] = @ + 1]
  /\ snapshot' = [snapshot EXCEPT ![persisted[w] + 1][w] = UNION {opState[w][k] : k \in Keys}]
  /\ UNCHANGED <<whitelist, collected, opState, opFrontier, consumed>>

StatefulEpoch(w, m) ==
  /\ m.kind = "Epoch"
  /\ opFrontier' = [opFrontier EXCEPT ![w] = IF m.ts > @ THEN m.ts ELSE @]
  /\ UNCHANGED <<whitelist, collected, opState, persisted, snapshot, consumed>>

StatefulForward(w, m) ==
  /\ m.kind \in {"Rescale", "SuspendMarker"}
  /\ UNCHANGED <<whitelist, collected, opVars, consumed>>

StatefulOp(w) ==
  /\ turn = Idle
  /\ w \in alive \ panicked
  /\ out[w] # <<>>
  /\ LET m == Head(out[w]) IN
     \/ StatefulData(w, m)
     \/ StatefulInterrogate(w, m)
     \/ StatefulCollect(w, m)
     \/ StatefulAcquire(w, m)
     \/ StatefulBarrier(w, m)
     \/ StatefulEpoch(w, m)
     \/ StatefulForward(w, m)
  /\ out' = [out EXCEPT ![w] = Tail(@)]
  /\ UNCHANGED <<mode, version, trigger, oldSet, newSet, collecting, buffered, peerVars,
                 remoteVars, localVars, chan, suspended, turn, panicked, envVars, nextId, cut>>

----------------------------------------------------------------------------
\* The coordinator, as far as the distributors see it: one operation at a time.

SnapshotDone == \A w \in alive : persisted[w] = barrierRound

\* Workers that join are built with the old and the new workers as their set
\* and with version 0; then everybody is told to reconfigure.
StartRescale ==
  /\ turn = Idle /\ RescaleDone /\ SnapshotDone /\ ~suspending
  /\ round < Len(Scales)
  /\ round' = round + 1
  /\ LET joining == Scales[round + 1] \ alive
         all     == alive \cup joining
     IN  /\ alive' = all
         /\ newSet' = [w \in Workers |-> IF w \in joining THEN all ELSE newSet[w]]
         /\ oldSet' = [w \in Workers |-> IF w \in joining THEN all ELSE oldSet[w]]
         /\ remotes' = [w \in Workers |-> IF w \in joining THEN all \ {w} ELSE remotes[w]]
         /\ delivered' = [w \in Workers |-> IF w \in joining THEN round ELSE delivered[w]]
         /\ taken' = [w \in Workers |-> IF w \in joining THEN barrierRound ELSE taken[w]]
         /\ persisted' = [w \in Workers |-> IF w \in joining THEN barrierRound ELSE persisted[w]]
  /\ UNCHANGED <<mode, version, trigger, whitelist, collecting, collected, buffered,
                 lastVersion, lastAck, remoteVars, localVars, chan, out, suspended, opState,
                 opFrontier, snapshot, turn, panicked, barrierRound, suspending,
                 suspendTaken, histVars>>

\* A worker outside the new set returns once its Rescale message is dropped;
\* its operators go with it.
WorkerLeaves(w) ==
  /\ turn = Idle /\ w \in alive \ panicked
  /\ round > 0 /\ delivered[w] = round /\ w \notin Scales[round]
  /\ mode[w] = "Normal" /\ ~Pending(w, "Rescale")
  /\ alive' = alive \ {w}
  /\ UNCHANGED <<routerVars, peerVars, remoteVars, localVars, chan, out, suspended, opVars,
                 turn, panicked, round, delivered, barrierRound, taken, suspending,
                 suspendTaken, histVars>>

StartSnapshot ==
  /\ turn = Idle /\ RescaleDone /\ SnapshotDone /\ ~suspending
  /\ barrierRound < MaxBarriers
  /\ barrierRound' = barrierRound + 1
  /\ UNCHANGED <<routerVars, peerVars, remoteVars, localVars, chan, out, suspended, opVars,
                 turn, panicked, alive, round, delivered, taken, suspending, suspendTaken,
                 histVars>>

StartSuspend ==
  /\ turn = Idle /\ RescaleDone /\ SnapshotDone /\ ~suspending
  /\ Suspends
  /\ suspending' = TRUE
  /\ UNCHANGED <<routerVars, peerVars, remoteVars, localVars, chan, out, suspended, opVars,
                 turn, panicked, alive, round, delivered, barrierRound, taken, suspendTaken,
                 histVars>>

----------------------------------------------------------------------------
LocalControl(w) == LocalBarrier(w) \/ LocalSuspend(w) \/ LocalRescale(w)

RunStep(w) ==
  \/ \E r \in Workers : ReceiveRemote(w, r)
  \/ NoLocal(w) \/ LocalData(w) \/ LocalEpoch(w) \/ LocalControl(w)
  \/ RunTail(w)

WorkerStep(w) ==
  \/ BeginRun(w)
  \/ RunStep(w)
  \/ StatefulOp(w)
  \/ WorkerLeaves(w)

Next ==
  \/ \E w \in Workers : WorkerStep(w)
  \/ StartRescale
  \/ StartSnapshot
  \/ StartSuspend

Spec == Init /\ [][Next]_vars

\* The worker thread never stops scheduling its operators, links deliver what
\* was sent, and what the coordinator hands to a worker reaches its operators.
Fairness ==
  /\ WF_vars(\E w \in Workers : RunStep(w))
  /\ \A w \in Workers :
        /\ SF_vars(BeginRun(w) /\ turn'.poll = Pollable(w))
        /\ SF_vars(StatefulOp(w))
        /\ SF_vars(LocalControl(w))

FairSpec == Spec /\ Fairness

----------------------------------------------------------------------------
\* Safety.

Accepted == 1..(nextId - 1)

\* Where an accepted message may still be on its way to an operator.  A link
\* counts only while its reader still polls it.
Receivable(r, w) ==
  w \in alive /\ ~suspended[w] /\ (r \in remotes[w] \/ delivered[w] < round)
OnLink(i)    == {l \in Links : Receivable(l[1], l[2]) /\ \E n \in DOMAIN chan[l] :
                    chan[l][n].kind = "Data" /\ chan[l][n].data.id = i}
InBuffer(i)  == {w \in alive : \E n \in DOMAIN buffered[w] : buffered[w][n].id = i}
InQueue(i)   == {w \in alive : \E n \in DOMAIN out[w] :
                    out[w][n].kind = "Data" /\ out[w][n].data.id = i}

\* Every message a distributor accepted from its upstream is delivered to the
\* operator of exactly one worker: while it is not consumed there is exactly
\* one place it can still be consumed from, and it is never consumed twice.
DeliveredExactlyOnce ==
  \A i \in Accepted :
     consumed[i] + Cardinality(OnLink(i)) + Cardinality(InBuffer(i)) + Cardinality(InQueue(i)) = 1

\* Where the state of key k is: in an operator, picked up by a Collect, or
\* inside an Acquire on its way.
StatePlaces(k) ==
  {<<"op", w>> : w \in {w \in alive : opState[w][k] # {}}}
  \cup {<<"collect", w>> : w \in {w \in alive : collecting[w] = k /\ collected[w] # {}}}
  \cup {<<"net", l>> : l \in {l \in Links : \E n \in DOMAIN chan[l] :
             chan[l][n].kind = "Acquire" /\ chan[l][n].key = k /\ chan[l][n].state # {}}}
  \cup {<<"queue", w>> : w \in {w \in alive : \E n \in DOMAIN out[w] :
             out[w][n].kind = "Acquire" /\ out[w][n].key = k /\ out[w][n].state # {}}}

\* The states of key k that the messages of a sequence carry.
Carried(s, k) ==
  UNION {s[n].state : n \in {n \in DOMAIN s : s[n].kind = "Acquire" /\ s[n].key = k}}

Held(k) ==
  UNION ({opState[w][k] : w \in alive}
         \cup {collected[w] : w \in {w \in alive : collecting[w] = k}}
         \cup {Carried(chan[l], k) : l \in Links}
         \cup {Carried(out[w], k) : w \in alive})

\* The state of a key is in one place: two workers never both hold some.
OneOwnerPerKey == \A k \in Keys : Cardinality(StatePlaces(k)) <= 1

\* Nothing that was folded into the state of a key is ever missing from it:
\* every message affects the state exactly once.
NoUpdateLost ==
  \A i \in Accepted : consumed[i] > 0 => \E k \in Keys : i \in Held(k)

\* No expect() of the distributor fails.
NeverPanics == panicked = {}

\* Reconfiguration i is behind r: r has given away all it had to give away.
CollectedFor(r, i) ==
  delivered[r] > i \/ (delivered[r] = i /\ mode[r] \in {"Finished", "Normal"})

\* A worker that has taken part in a reconfiguration routes normally again only
\* after all the workers it is connected to have finished collecting for it.
NormalAfterAllCollected ==
  \A w \in alive : \A r \in remotes[w] :
     mode[w] = "Normal" /\ delivered[w] > 0 => CollectedFor(r, delivered[w])

\* What makes it true, the inductive part: a run polls filled links on a live
\* worker; only live workers reconfigure, all for the last round and at its
\* version; and an Upgrade says the truth about its sender, on a link as well
\* as in the table of the worker that received it.
Upgrades(s) == {s[n].version : n \in {n \in DOMAIN s : s[n].kind = "Upgrade"}}
RoundOf(v)  == v - FirstVersion + 1

PolledLinksFilled == \A r \in turn.poll : chan[<<r, turn.worker>>] # <<>>
RunIsAlive        == turn # Idle => turn.worker \in alive
DeliveredBehind   == \A w \in Workers : delivered[w] <= round
GoneIsNormal      == \A w \in Workers : w \notin alive => mode[w] = "Normal"
MovesForLastRound == \A w \in Workers : mode[w] # "Normal" => delivered[w] = round /\ round > 0
VersionIsRound ==
  \A w \in Workers :
     /\ mode[w] = "Interrogate" => RoundOf(trigger[w]) = delivered[w]
     /\ mode[w] \in {"Collect", "Finished"} => RoundOf(version[w]) = delivered[w]
UpgradesAreTrue ==
  \A r, w \in Workers : \A v \in Upgrades(chan[<<r, w>>]) : CollectedFor(r, RoundOf(v))
LastVersionsAreTrue ==
  \A w, r \in Workers :
     lastVersion[w][r] # NoVersion => CollectedFor(r, RoundOf(lastVersion[w][r]))
NormalIsSettled ==
  \A w \in Workers : \A r \in remotes[w] :
     mode[w] = "Normal" /\ delivered[w] > 0 => CollectedFor(r, delivered[w])

RescaleCore ==
  /\ DeliveredBehind /\ GoneIsNormal /\ MovesForLastRound /\ VersionIsRound
  /\ UpgradesAreTrue /\ LastVersionsAreTrue /\ NormalIsSettled
RescaleInv == PolledLinksFilled /\ RunIsAlive /\ RescaleCore

\* After an epoch no message with an older or equal timestamp follows.
NoLateData ==
  \A w \in alive : \A n \in DOMAIN out[w] :
     out[w][n].kind = "Data" =>
       /\ out[w][n].data.ts > opFrontier[w]
       /\ \A m \in 1..(n - 1) : out[w][m].kind = "Epoch" => out[w][n].data.ts > out[w][m].ts

\* A snapshot that every worker has persisted is a consistent cut: it holds
\* each message emitted before the barrier by its source exactly once, and none
\* emitted after it.
SnapshotIsCut ==
  \A n \in 1..barrierRound :
     (\A w \in alive : persisted[w] >= n) =>
       /\ UNION {snapshot[n][w] : w \in alive} = {i \in Accepted : cut[i] < n}
       /\ \A v, w \in alive : v # w => snapshot[n][v] \cap snapshot[n][w] = {}

----------------------------------------------------------------------------
\* Liveness, under Fairness.

\* A reconfiguration ends: no worker waits for ever for an Upgrade or its
\* acknowledgement, for the interrogation or for a collection.
RescaleCompletes == ~RescaleDone ~> RescaleDone

\* A snapshot ends on all workers: barriers do not wait for each other in a circle.
SnapshotCompletes == ~SnapshotDone ~> SnapshotDone

\* A suspended job stops on all workers.
SuspendCompletes == suspending ~> \A w \in alive : suspended[w]

\* What was accepted from an upstream reaches an operator.
EventuallyConsumed == \A i \in Ids : nextId > i ~> consumed[i] > 0
============================================================================
