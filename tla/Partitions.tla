----------------------------- MODULE Partitions -----------------------------
(***************************************************************************)
(* Partitioned sources and sinks (sources/stateful.rs, sources/stateless.rs,*)
(* sinks/stateful.rs and the Kafka source): which worker reads a partition, *)
(* how partitions move when the worker set changes, what a snapshot keeps   *)
(* of them and when a source declares the end of the stream.                *)
(*                                                                          *)
(* Worker 0 lists the parts; the distributor carries them to the workers    *)
(* that own them.  Of the distributors in front of the source and of the    *)
(* sink (module Distributor) this module keeps where a message ends up: with*)
(* the old owner of its key, behind the state when that has left, or, sent  *)
(* by a third worker or a new one, with the new owner ahead of the state.   *)
(* What a worker that leaves loses of the messages on their way to it is    *)
(* the subject of module Distributor.                                       *)
(***************************************************************************)
EXTENDS Integers, Sequences, FiniteSets

CONSTANTS
  Parts,         \* the parts of the source, and of the sink
  AssignPart(_), \* AssignPart(p): the sink part that takes the records of p
  Length,        \* Length[p]: number of records of part p
  AllWorkers,    \* worker ids; 0 among them
  InitWorkers,   \* the workers of the first configuration
  Scales,        \* worker sets a rescale may ask for
  Owner(_, _),   \* Owner(p, S): rendezvous_select for part p and workers S
  Flavours,      \* kinds of source: "stateful", "stateless", "kafka"
  None,
  MaxScales,     \* bound: rescales
  MaxSnapshots,  \* bound: snapshots
  MaxCrashes,    \* bound: restarts of the job
  MaxFaults      \* MaxFaults[f]: bound on rescales and restarts together

ASSUME PartitionsAssumption ==
  /\ IsFiniteSet(Parts) /\ Length \in [Parts -> Nat] /\ None \notin Nat
  /\ \A p \in Parts : AssignPart(p) \in Parts
  /\ InitWorkers \subseteq AllWorkers /\ 0 \in InitWorkers
  /\ \A S \in Scales : S \subseteq AllWorkers /\ 0 \in S
  /\ \A p \in Parts, S \in Scales \cup {InitWorkers} : Owner(p, S) \in S
  /\ Flavours \subseteq {"stateful", "stateless", "kafka"}
  /\ {MaxScales, MaxSnapshots, MaxCrashes} \subseteq Nat
  /\ MaxFaults \in [Flavours -> Nat]

Operators == {"source", "sink"}

VARIABLES
  flavour,    \* what kind of source the job has
  workers,    \* the worker set before the rescale under way
  target,     \* the worker set after it (the same when there is none)
  phase,      \* phase[o][w]: where w's distributor in front of operator o is
  give,       \* give[o][w]: keys that w's operator o still has to give away
  moving,     \* Acquire messages between the workers
  listed,     \* worker 0 has listed the parts
  toBuild,    \* parts on their way from worker 0 to their owner
  parts,      \* parts[o][w][p]: state of the partition p that w holds, or None
  marked,     \* marked[w]: parts that w knows to be finished (all_partitions)
  clients,    \* clients[w]: workers w exchanges PartitionFinished with
  wire,       \* wire[v][w]: PartitionFinished sent from v to w
  maxSent,    \* maxSent[w]: max_t is taken, Epoch(MAX) is sent
  toSink,     \* toSink[p]: records on their way to sink part p
  ahead,      \* ahead[p]: those on their way straight to its new owner
  early,      \* sink parts that their new owner began ahead of their state
  panicked,   \* workers whose distributor has panicked
  broker,     \* broker[p]: the offset that the Kafka broker has for the group
  barred,     \* workers that have persisted the snapshot under way, or None
  snap,       \* what they have persisted
  committed,  \* the last committed snapshot
  log,        \* log[p]: records read from p, as far as the state knows of them
  counts      \* counts of rescales, of those in which a worker left, of
              \* snapshots and of crashes

jobVars  == <<flavour, workers, target, listed, toBuild>>
moveVars == <<phase, give, moving>>
markVars == <<marked, clients, wire, maxSent>>
flowVars == <<toSink, ahead, early>>
snapVars == <<broker, barred, snap, committed>>
vars     == <<jobVars, moveVars, panicked, parts, markVars, flowVars, snapVars, log, counts>>

Active == workers \cup target
Held(o, w) == {p \in Parts : parts[o][w][p] # None}
NoParts == [p \in Parts |-> None]

\* What a snapshot holds before anything is in it.
Blank(S) == [pos |-> NoParts, log |-> [p \in Parts |-> <<>>], workers |-> S]

----------------------------------------------------------------------------
(* build_part: the record a partition begins with.                         *)

\* Mutant: the state is taken for the last record read.
BuildPartNext(p, state) ==
  CASE flavour = "stateful"  -> IF state = None THEN 0 ELSE state + 1
    [] flavour = "stateless" -> 0
    [] flavour = "kafka"     -> broker[p]

\* StatefulSource: at the state, or at the beginning.
BuildStateful(state) == IF state = None THEN 0 ELSE state

\* StatelessSource: the state is (), reading begins anew.
BuildStateless == 0

\* Kafka: the consumer is assigned without an offset and begins where its group
\* stands.
BuildKafka(p) == broker[p]

BuildPart(p, state) ==
  CASE flavour = "stateful"  -> BuildStateful(state)
    [] flavour = "stateless" -> BuildStateless
    [] flavour = "kafka"     -> BuildKafka(p)

\* Kafka is unbounded: is_finished is false.
IsFinished(p, pos) == flavour # "kafka" /\ pos = Length[p]

\* StatefulSinkPartitionOp::new: a sink loads no partition.
NewSink == [w \in AllWorkers |-> NoParts]

\* Building the operators of all workers of S from a snapshot.
BuildFrom(s) ==
  /\ workers' = s.workers /\ target' = s.workers
  /\ listed' = FALSE /\ toBuild' = {}
  /\ phase' = [o \in Operators |-> [w \in AllWorkers |-> "normal"]]
  /\ give' = [o \in Operators |-> [w \in AllWorkers |-> {}]]
  /\ moving' = {}
  /\ marked' = [w \in AllWorkers |-> {}]
  /\ clients' = [w \in AllWorkers |-> s.workers \ {w}]
  /\ wire' = [v \in AllWorkers |-> [w \in AllWorkers |-> <<>>]]
  /\ maxSent' = [w \in AllWorkers |-> FALSE]
  /\ toSink' = [p \in Parts |-> 0] /\ ahead' = [p \in Parts |-> 0]
  /\ early' = {} /\ panicked' = {}
  /\ parts' = [source |-> [w \in AllWorkers |-> [p \in Parts |->
                 IF w \in s.workers /\ s.pos[p] # None /\ Owner(p, s.workers) = w
                 THEN BuildPart(p, s.pos[p]) ELSE None]],
               sink   |-> NewSink]

Init ==
  /\ flavour \in Flavours
  /\ workers = InitWorkers /\ target = InitWorkers
  /\ listed = FALSE /\ toBuild = {}
  /\ phase = [o \in Operators |-> [w \in AllWorkers |-> "normal"]]
  /\ give = [o \in Operators |-> [w \in AllWorkers |-> {}]]
  /\ moving = {}
  /\ parts = [o \in Operators |-> [w \in AllWorkers |-> NoParts]]
  /\ marked = [w \in AllWorkers |-> {}]
  /\ clients = [w \in AllWorkers |-> InitWorkers \ {w}]
  /\ wire = [v \in AllWorkers |-> [w \in AllWorkers |-> <<>>]]
  /\ maxSent = [w \in AllWorkers |-> FALSE]
  /\ toSink = [p \in Parts |-> 0] /\ ahead = [p \in Parts |-> 0]
  /\ early = {} /\ panicked = {}
  /\ broker = [p \in Parts |-> 0]
  /\ barred = None /\ snap = Blank(InitWorkers) /\ committed = Blank(InitWorkers)
  /\ log = [p \in Parts |-> <<>>]
  /\ counts = [scales |-> 0, shrinks |-> 0, snapshots |-> 0, crashes |-> 0]

----------------------------------------------------------------------------
(* The source.                                                             *)

\* The list-parts operator of worker 0 emits all parts at its first step.
ListParts ==
  /\ ~listed
  /\ listed' = TRUE /\ toBuild' = Parts
  /\ UNCHANGED <<flavour, workers, target, moveVars, panicked, parts, markVars, flowVars, snapVars, log, counts>>

\* Where a message of key p ends up that is sent to the old owner, or that the
\* old owner sends: the old owner keeps it while it has the state or has not
\* seen the Rescale; afterwards it goes to the new owner, behind the Acquire.
Home(o, p) ==
  LET old == Owner(p, workers)
  IN  IF p \in Held(o, old) \/ phase[o][old] = "normal" THEN old
      ELSE IF \E m \in moving : m.op = o /\ m.part = p THEN None
      ELSE Owner(p, target)

\* Mutant: a part is built again although the worker has it.
OnDataRebuild(p) ==
  LET w == Home("source", p)
  IN  /\ p \in toBuild /\ w # None /\ w \notin panicked
      /\ toBuild' = toBuild \ {p}
      /\ parts' = [parts EXCEPT !.source[w][p] = BuildPart(p, None)]
      /\ UNCHANGED <<flavour, workers, target, listed, moveVars, panicked, markVars, flowVars, snapVars, log, counts>>

\* StatefulSourcePartitionOp::on_data: a part that the worker has was loaded
\* from the snapshot and is left alone.
OnData(p) ==
  LET w == Home("source", p)
  IN  /\ p \in toBuild /\ w # None /\ w \notin panicked
      /\ toBuild' = toBuild \ {p}
      /\ parts' = IF p \in Held("source", w) THEN parts
                  ELSE [parts EXCEPT !.source[w][p] = BuildPart(p, None)]
      /\ UNCHANGED <<flavour, workers, target, listed, moveVars, panicked, markVars, flowVars, snapVars, log, counts>>

Unread(w) == {p \in Held("source", w) : parts.source[w][p] < Length[p]}

\* Mutant: the end of the local partitions is the end of the stream.
AllFinishedLocally(w, known) == Held("source", w) # {} /\ Held("source", w) \subseteq known

\* The MAX epoch may be sent: all partitions of the source are finished.
AllFinished(w, known) == known = Parts

\* One PartitionFinished for every other worker and finished part; one message
\* of every client is received (the clients are disjoint from w).
Broadcast(w, finished) ==
  [v \in AllWorkers |-> [x \in AllWorkers |->
     IF v = w /\ x \in clients[w]
     THEN wire[v][x] \o CHOOSE s \in [1..Cardinality(finished) -> finished] :
                          \A p \in finished : \E i \in DOMAIN s : s[i] = p
     ELSE IF x = w /\ v \in clients[w] /\ wire[v][x] # <<>> THEN Tail(wire[v][x])
     ELSE wire[v][x]]]

\* The router of worker w sends a record for sink part q straight to the new
\* owner: a new worker knows no other, and one that is neither owner does so as
\* soon as it has left the old configuration (rule 2).
RoutesAnew(w, q) ==
  LET old == Owner(q, workers)
      new == Owner(q, target)
  IN  /\ old # new
      /\ w \notin workers \/ (w \notin {old, new} /\ phase.sink[w] # "normal")

\* StatefulSink::consume_stream: the records of `polled` for sink part q.
AssignedTo(q, polled) == Cardinality({p \in polled : AssignPart(p) = q})

\* StatefulSourcePartitionOp::on_schedule: the partitions of `polled` return a
\* record each, the others nothing.  A record is routed at once; one that waits
\* in front of the sink's distributor is taken to be read when that takes it.
OnSchedule(w, polled) ==
  LET pos(p)   == IF p \in polled THEN parts.source[w][p] + 1 ELSE parts.source[w][p]
      finished == {p \in Held("source", w) : IsFinished(p, pos(p))} \ marked[w]
      heard    == {Head(wire[v][w]) : v \in {u \in clients[w] : wire[u][w] # <<>>}}
      known    == marked[w] \cup finished \cup heard
  IN  /\ w \in Active \ panicked /\ polled \subseteq Unread(w)
      /\ parts' = [parts EXCEPT !.source[w] = [p \in Parts |-> IF p \in Held("source", w) THEN pos(p) ELSE None]]
      /\ log' = [p \in Parts |-> IF p \in polled THEN Append(log[p], pos(p)) ELSE log[p]]
      /\ toSink' = [q \in Parts |-> toSink[q] + IF RoutesAnew(w, q) THEN 0 ELSE AssignedTo(q, polled)]
      /\ ahead' = [q \in Parts |-> ahead[q] + IF RoutesAnew(w, q) THEN AssignedTo(q, polled) ELSE 0]
      /\ wire' = Broadcast(w, finished)
      /\ marked' = [marked EXCEPT ![w] = known]
      /\ maxSent' = [maxSent EXCEPT ![w] = @ \/ AllFinished(w, known)]
      /\ UNCHANGED <<jobVars, moveVars, panicked, clients, early, snapVars, counts>>

\* librdkafka commits on its own (enable.auto.commit is on unless configured
\* otherwise): the broker learns of what has been read so far.
AutoCommit(w, p) ==
  /\ w \notin panicked
  /\ flavour = "kafka" /\ p \in Held("source", w) /\ broker[p] # parts.source[w][p]
  /\ broker' = [broker EXCEPT ![p] = parts.source[w][p]]
  /\ UNCHANGED <<jobVars, moveVars, panicked, parts, markVars, flowVars, barred, snap, committed, log, counts>>

----------------------------------------------------------------------------
(* The sink: its partitions count the messages they have been given.       *)

\* The record is given to the partition, which is built if there is none.
Counts(w, p) == [parts EXCEPT !.sink[w][p] = IF @ = None THEN 1 ELSE @ + 1]

\* StatefulSinkPartitionOp::on_data.
SinkOnData(p) ==
  LET w == Home("sink", p)
  IN  /\ toSink[p] > 0 /\ w # None /\ w \notin panicked
      /\ toSink' = [toSink EXCEPT ![p] = @ - 1]
      /\ parts' = Counts(w, p)
      /\ UNCHANGED <<jobVars, moveVars, panicked, ahead, early, markVars, snapVars, log, counts>>

\* Who takes a record that was sent straight to the new owner.  A new worker
\* keeps what it is sent; one that has not begun the rescale keeps it when its
\* version is newer (the first rescale of a job has the version of the job);
\* any other sends it to the old owner until that has upgraded.
Takers(p) ==
  LET new == Owner(p, target)
  IN  IF new \notin workers THEN {new}
      ELSE {Home("sink", p)} \cup IF phase.sink[new] = "normal" THEN {new} ELSE {}

\* on_data of a record that may be ahead of the partition's state.
SinkOnDataAhead(p) ==
  \E w \in Takers(p) :
     /\ ahead[p] > 0 /\ w # None /\ w \notin panicked
     /\ ahead' = [ahead EXCEPT ![p] = @ - 1]
     /\ parts' = Counts(w, p)
     /\ early' = IF w = Home("sink", p) THEN early ELSE early \cup {p}
     /\ UNCHANGED <<jobVars, moveVars, panicked, toSink, markVars, snapVars, log, counts>>

----------------------------------------------------------------------------
(* Rescaling.  The Rescale message passes the distributor of the sink when *)
(* the one of the source has finished.                                     *)

MayDisturb == counts.scales + counts.crashes < MaxFaults[flavour]

\* New workers are built; they know everybody.
Rescale(S) ==
  /\ target = workers /\ S # workers /\ S \in Scales
  /\ barred = None /\ counts.scales < MaxScales /\ MayDisturb
  /\ target' = S
  /\ clients' = [w \in AllWorkers |-> IF w \in S \ workers THEN S \ {w} ELSE clients[w]]
  /\ counts' = [counts EXCEPT !.scales = @ + 1, !.shrinks = IF workers \subseteq S THEN @ ELSE @ + 1]
  /\ UNCHANGED <<flavour, workers, listed, toBuild, moveVars, panicked, parts, marked, wire, maxSent,
                 flowVars, snapVars, log>>

\* on_interrogate: the operator names the keys it has.
SourceKeys(w) == Held("source", w)
SinkKeys(w) == Held("sink", w)
Keys(o, w) == IF o = "source" THEN SourceKeys(w) ELSE SinkKeys(w)

\* The worker set that w's distributor has routed with: the one it began with.
OldSet(w) == IF w \in workers THEN workers ELSE target

\* The keys whose owner changes have to be collected (interrogate.rs new), also
\* one that w has been given already.  Worker 0 has listed the parts ahead of
\* the Rescale and has its own.
OnInterrogate(o, w) ==
  /\ target # workers /\ w \in Active \ panicked /\ phase[o][w] = "normal"
  /\ o = "source" /\ w = 0 => listed /\ \A p \in toBuild : Owner(p, workers) # 0
  /\ o = "sink" => phase.source[w] = "finished"
  /\ phase' = [phase EXCEPT ![o][w] = "collect"]
  /\ give' = [give EXCEPT ![o][w] = {p \in Keys(o, w) : Owner(p, OldSet(w)) # Owner(p, target)}]
  /\ UNCHANGED <<jobVars, moving, panicked, parts, markVars, flowVars, snapVars, log, counts>>

\* on_collect: the partition is shut down and its state travels.
SourceState(w, p) == parts.source[w][p]
SinkState(w, p) == parts.sink[w][p]
Collected(o, w, p) == IF o = "source" THEN SourceState(w, p) ELSE SinkState(w, p)

\* Mutant: the partition is not removed.
OnCollectKeep(o, w, p) ==
  /\ w \notin panicked /\ p \in give[o][w] /\ Owner(p, target) # w
  /\ give' = [give EXCEPT ![o][w] = @ \ {p}]
  /\ moving' = moving \cup {[op |-> o, part |-> p, to |-> Owner(p, target), state |-> Collected(o, w, p)]}
  /\ UNCHANGED <<jobVars, phase, panicked, parts, markVars, flowVars, snapVars, log, counts>>

\* The Acquire goes to the new owner.  There is no client for w itself: if w is
\* the new owner its distributor panics ("partitioner returns valid target"),
\* and what w held, left in place here, is lost with it.
OnCollect(o, w, p) ==
  /\ w \notin panicked /\ p \in give[o][w]
  /\ IF Owner(p, target) = w
     THEN /\ panicked' = panicked \cup {w}
          /\ UNCHANGED <<give, moving, parts>>
     ELSE /\ give' = [give EXCEPT ![o][w] = @ \ {p}]
          /\ moving' = moving \cup {[op |-> o, part |-> p, to |-> Owner(p, target), state |-> Collected(o, w, p)]}
          /\ parts' = [parts EXCEPT ![o][w][p] = None]
          /\ UNCHANGED panicked
  /\ UNCHANGED <<jobVars, phase, markVars, flowVars, snapVars, log, counts>>

\* Mutant: the partition starts without its state.
OnAcquireFresh(m) ==
  /\ m \in moving /\ m.to \notin panicked
  /\ moving' = moving \ {m}
  /\ parts' = [parts EXCEPT ![m.op][m.to][m.part] = IF m.op = "sink" THEN 0 ELSE BuildPart(m.part, None)]
  /\ UNCHANGED <<jobVars, phase, give, panicked, markVars, flowVars, snapVars, log, counts>>

\* on_acquire: the partition is built with the state that arrives; one that is
\* there is replaced.
AcquireSource(m) == BuildPart(m.part, m.state)
AcquireSink(m) == m.state
Acquired(m) == IF m.op = "sink" THEN AcquireSink(m) ELSE AcquireSource(m)

OnAcquire(m) ==
  /\ m \in moving /\ m.to \notin panicked
  /\ moving' = moving \ {m}
  /\ parts' = [parts EXCEPT ![m.op][m.to][m.part] = Acquired(m)]
  /\ UNCHANGED <<jobVars, phase, give, panicked, markVars, flowVars, snapVars, log, counts>>

\* The distributor is done and passes the Rescale on; on_rescale of the source:
\* clients of workers that leave are dropped, and none are added, because
\* `!wid` is the complement of the id and no worker has that id.
OnRescale(o, w) ==
  /\ target # workers /\ w \in Active \ panicked /\ phase[o][w] = "collect"
  /\ \A v \in Active : phase[o][v] # "normal" /\ give[o][v] = {}
  /\ ~\E m \in moving : m.op = o /\ m.to = w
  /\ phase' = [phase EXCEPT ![o][w] = "finished"]
  /\ clients' = IF o = "source" THEN [clients EXCEPT ![w] = @ \cap target] ELSE clients
  /\ UNCHANGED <<jobVars, give, moving, panicked, parts, marked, wire, maxSent, flowVars, snapVars, log, counts>>

\* All workers have reported the reconfiguration; the ones that leave are gone.
\* The new owners are the only owners now.
RescaleDone ==
  /\ target # workers
  /\ \A o \in Operators, w \in Active : phase[o][w] = "finished"
  /\ workers' = target
  /\ phase' = [o \in Operators |-> [w \in AllWorkers |-> "normal"]]
  /\ toSink' = [p \in Parts |-> toSink[p] + ahead[p]] /\ ahead' = [p \in Parts |-> 0]
  /\ UNCHANGED <<flavour, target, listed, toBuild, give, moving, panicked, parts, markVars, early,
                 snapVars, log, counts>>

----------------------------------------------------------------------------
(* Snapshots and restarts.                                                 *)

StartSnapshot ==
  /\ barred = None /\ target = workers /\ counts.snapshots < MaxSnapshots
  /\ barred' = {} /\ snap' = Blank(workers)
  /\ counts' = [counts EXCEPT !.snapshots = @ + 1]
  /\ UNCHANGED <<jobVars, moveVars, panicked, parts, markVars, flowVars, broker, committed, log>>

\* Mutant: an offset is committed although nothing has been received.
OnBarrierNoOffset(w, acked) ==
  /\ barred # None /\ w \in workers \ barred
  /\ acked \subseteq {p \in Held("source", w) : flavour = "kafka"}
  /\ barred' = barred \cup {w}
  /\ broker' = [p \in Parts |-> IF p \in acked THEN parts.source[w][p] - 1 ELSE broker[p]]
  /\ UNCHANGED <<jobVars, moveVars, panicked, parts, markVars, flowVars, snap, committed, log, counts>>

\* KafkaSourcePartition::snapshot commits the offset of the last record it has
\* received, which may fail.
KafkaSnapshot(w, acked) ==
  [p \in Parts |-> IF p \in acked THEN parts.source[w][p] - 1 ELSE broker[p]]

\* on_barrier of the source: every partition is persisted.
\* (What the sink persists nobody reads: StatefulSinkPartitionOp::new does not
\* load it.)
OnBarrier(w, acked) ==
  /\ barred # None /\ w \in workers \ barred
  /\ acked \subseteq {p \in Held("source", w) : flavour = "kafka" /\ parts.source[w][p] > 0}
  /\ barred' = barred \cup {w}
  /\ snap' = [snap EXCEPT !.pos = [p \in Parts |-> IF p \in Held("source", w) THEN parts.source[w][p] ELSE @[p]],
                          !.log = [p \in Parts |-> IF p \in Held("source", w) THEN log[p] ELSE @[p]]]
  /\ broker' = KafkaSnapshot(w, acked)
  /\ UNCHANGED <<jobVars, moveVars, panicked, parts, markVars, flowVars, committed, log, counts>>

CommitSnapshot ==
  /\ barred = workers
  /\ committed' = snap /\ barred' = None
  /\ UNCHANGED <<jobVars, moveVars, panicked, parts, markVars, flowVars, broker, snap, log, counts>>

\* A crash, or a suspension that is resumed: what was read after the snapshot
\* is forgotten.
Restart ==
  /\ counts.crashes < MaxCrashes /\ MayDisturb
  /\ BuildFrom(committed)
  /\ log' = committed.log
  /\ barred' = None /\ snap' = committed
  /\ counts' = [counts EXCEPT !.crashes = @ + 1]
  /\ UNCHANGED <<flavour, broker, committed>>

Next ==
  \/ ListParts
  \/ \E p \in Parts : OnData(p) \/ SinkOnData(p) \/ SinkOnDataAhead(p)
  \/ \E w \in AllWorkers : \E polled \in SUBSET Parts : OnSchedule(w, polled)
  \/ \E w \in AllWorkers, p \in Parts : AutoCommit(w, p)
  \/ \E S \in Scales : Rescale(S)
  \/ \E o \in Operators, w \in AllWorkers :
        OnInterrogate(o, w) \/ OnRescale(o, w) \/ \E p \in Parts : OnCollect(o, w, p)
  \/ \E m \in moving : OnAcquire(m)
  \/ RescaleDone
  \/ StartSnapshot \/ CommitSnapshot \/ Restart
  \/ \E w \in AllWorkers : \E acked \in SUBSET Parts : OnBarrier(w, acked)

Spec == Init /\ [][Next]_vars

----------------------------------------------------------------------------
(* Properties.                                                             *)

\* Every variable has its type.
TypeOK ==
  /\ flavour \in Flavours
  /\ workers \subseteq AllWorkers /\ target \subseteq AllWorkers
  /\ phase \in [Operators -> [AllWorkers -> {"normal", "collect", "finished"}]]
  /\ give \in [Operators -> [AllWorkers -> SUBSET Parts]]
  /\ \A m \in moving : m.op \in Operators /\ m.part \in Parts /\ m.to \in AllWorkers /\ m.state \in Nat
  /\ listed \in BOOLEAN /\ toBuild \subseteq Parts
  /\ \A o \in Operators, w \in AllWorkers, p \in Parts : parts[o][w][p] \in Nat \cup {None}
  /\ marked \in [AllWorkers -> SUBSET Parts]
  /\ clients \in [AllWorkers -> SUBSET AllWorkers]
  /\ \A v, w \in AllWorkers : wire[v][w] \in Seq(Parts)
  /\ maxSent \in [AllWorkers -> BOOLEAN]
  /\ toSink \in [Parts -> Nat] /\ ahead \in [Parts -> Nat] /\ broker \in [Parts -> Nat]
  /\ early \subseteq Parts /\ panicked \subseteq AllWorkers

OnePlace(o, p) ==
  Cardinality({w \in AllWorkers : p \in Held(o, w)})
    + Cardinality({m \in moving : m.op = o /\ m.part = p}) <= 1

\* A partition is in one place, with one worker or on its way to one: the same
\* records are never read, nor the same file written, by two workers
\* (sources/stateful.rs:312, sinks/stateful.rs on_collect).  The exception is a
\* sink partition that its new owner has begun ahead of the state, because a
\* record sent by another worker overtook the Acquire (message_router.rs:42).
OnePlacePerPartition ==
  \A p \in Parts : OnePlace("source", p) /\ (p \notin early => OnePlace("sink", p))

\* README.md: every message affects the state exactly once.  A stateful source
\* reads its records in order, each of them once, whatever moves and restarts:
\* what has been read is always what the partition's state says.
ReadExactlyOnce ==
  flavour = "stateful" =>
    \A p \in Parts : log[p] = [i \in 1..Len(log[p]) |-> i]

\* No source skips a record when a partition moves or the job restarts.  The
\* exception is Kafka after a crash: the group's offset is committed with the
\* barrier or on its own, the job's snapshot later or never, and the partition
\* resumes from the former (malstrom-kafka/src/source.rs:117).
NoRecordSkipped ==
  (flavour = "kafka" => counts.crashes = 0) =>
    \A p \in Parts : \A i \in DOMAIN log[p] :
       log[p][i] = 1 \/ \E j \in 1..(i - 1) : log[p][j] = log[p][i] - 1

\* After MAX no worker has anything left to read, also not in a partition it is
\* going to be given: "an edge case where all local partitions finish and we
\* send the MAX time, but then get assigned a new unfinished partition"
\* (sources/stateful.rs:151).  A stateless source that moves starts again and
\* does send data after MAX.
NoDataAfterMax ==
  \A w \in AllWorkers : maxSent[w] /\ (flavour = "stateless" => counts.scales = 0) =>
     /\ \A p \in Parts : Len(log[p]) >= Length[p]
     /\ \A v \in AllWorkers : Unread(v) = {}
     /\ \A m \in moving : m.op = "source" => m.state = Length[m.part]

\* Records that have been read for sink part q, by part and place in its log.
RecordsFor(q) == UNION {{p} \X DOMAIN log[p] : p \in {x \in Parts : AssignPart(x) = q}}
ReadFor(q) == Cardinality(RecordsFor(q))

\* A sink partition has counted every record or the record is on its way, also
\* while the partition moves.  Exceptions: what the new owner of the partition
\* counts ahead of the state is replaced by the state (sinks/stateful.rs:263), a
\* worker that panics has lost the partition it was collecting, a restart does
\* not load the state again (sinks/stateful.rs:158), and a worker that leaves
\* may lose records on their way to it, which this module leaves out.
SinkCountsEveryRecord ==
  counts.shrinks = 0 /\ counts.crashes = 0 /\ panicked = {} =>
    \A p \in Parts \ early :
       LET held == {w \in AllWorkers : p \in Held("sink", w)}
           sent == {m \in moving : m.op = "sink" /\ m.part = p}
           have == IF held # {} THEN parts.sink[CHOOSE w \in held : TRUE][p]
                   ELSE IF sent # {} THEN (CHOOSE m \in sent : TRUE).state ELSE 0
       IN  have + toSink[p] + ahead[p] = ReadFor(p)

\* No record is counted twice, whatever the load during a rescale: the counts of
\* all workers, of the states on their way and of the records on their way stay
\* within what has been read.  A partition that its new owner began early is
\* replaced, never added to (sinks/stateful.rs:263).
SinkCountsNoRecordTwice ==
  \A q \in Parts :
     LET holders == {w \in AllWorkers : q \in Held("sink", w)}
         sent    == {m \in moving : m.op = "sink" /\ m.part = q}
         held    == UNION {{w} \X (1..parts.sink[w][q]) : w \in holders}
         carried == UNION {{m} \X (1..m.state) : m \in sent}
     IN  Cardinality(held) + Cardinality(carried) + toSink[q] + ahead[q] <= ReadFor(q)
=============================================================================
