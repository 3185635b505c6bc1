------------------------------ MODULE Dataflow ------------------------------
(***************************************************************************)
(* One worker executing its stream graph: Worker::step and                 *)
(* Worker::execute (worker/mod.rs), the operators of src/operators and the *)
(* markers a snapshot, a reconfiguration and a suspension send through the *)
(* graph, with restarts from the last committed snapshot.                  *)
(*                                                                         *)
(* The operators are numbered in the order in which the StreamBuilders     *)
(* registered them; operator 0 is the root stream.  A worker is one        *)
(* thread: a step of the specification is one call of                      *)
(* RunnableOperator::step, cursor is the operator the loop of Worker::step *)
(* has reached.  A source is seen as its partition operator with one       *)
(* partition that stays where it is (Partitions models the rest of it).    *)
(***************************************************************************)
EXTENDS OperatorIo

CONSTANTS
  Kind,         \* Kind[op]: what the operator is, op in 1..Len(Kind)
  Inputs,       \* Inputs[op]: edges its Input receives from (several: a union)
  Outputs,      \* Outputs[op]: edges its Output sends to
  Edges,        \* all edges
  Feed,         \* Feed[op]: the records of a source, in order
  Records,      \* all records
  Stamps,       \* Stamps[r]: timestamps that assign_timestamps may give to record r
  Bound,        \* the argument of limit_out_of_orderness
  Kept,         \* the records the filter keeps
  MaxRequests,  \* bound: requests of the coordinator
  MaxCrashes,   \* bound: crashes (or resumptions) of the worker
  MaxIdle       \* bound: polls in vain of sources that still have records

Ops     == 1..Len(Kind)
StampFunctions == {f \in [Records -> Times] : \A r \in Records : f[r] \in Stamps[r]}
Sources == {op \in Ops : Kind[op] = "source"}
Sinks   == {op \in Ops : Kind[op] = "sink"}

\* Streams as the StreamBuilders make them: an edge has one end at an Output and
\* one at an Input, a stream is registered before what it feeds, only sources
\* take the root stream, and nothing comes after a sink.  The jobs considered use
\* generate_epochs as NeedsEpochs offers it, directly after assign_timestamps; the
\* code takes any timed stream.  With timestamps from Bound on the subtraction of
\* limit_out_of_orderness does not leave the time type.
Link(p, i, c, j) == Outputs[p][i] = Inputs[c][j]
Graph ==
  /\ \A e \in Edges : \E p \in 0..Len(Kind), c \in Ops :
       \E i \in DOMAIN Outputs[p], j \in DOMAIN Inputs[c] : Outputs[p][i] = e /\ Inputs[c][j] = e
  /\ \A p, o \in 0..Len(Kind) : \A i \in DOMAIN Outputs[p], k \in DOMAIN Outputs[o] :
       Outputs[p][i] = Outputs[o][k] => p = o /\ i = k
  /\ \A c, o \in Ops : \A j \in DOMAIN Inputs[c], k \in DOMAIN Inputs[o] :
       Inputs[c][j] = Inputs[o][k] => c = o /\ j = k
  /\ \A p \in 0..Len(Kind), c \in Ops : \A i \in DOMAIN Outputs[p], j \in DOMAIN Inputs[c] :
       Link(p, i, c, j) =>
         /\ p < c /\ (p = 0 <=> Kind[c] = "source")
         /\ Kind[c] = "generate_epochs" => Kind[p] = "assign_timestamps"
  /\ \A op \in Ops : Inputs[op] # <<>> /\ (Kind[op] = "sink" => Outputs[op] = <<>>)

ASSUME GraphAssumption ==
  /\ Kind \in Seq(STRING)
  /\ Inputs \in [Ops -> Seq(Edges)] /\ Outputs \in [0..Len(Kind) -> Seq(Edges)] /\ Graph
  /\ Feed \in [Sources -> Seq(Records)] /\ \A op \in Sources : Len(Feed[op]) <= MAX
  /\ Bound \in Nat /\ \A r \in Records : Stamps[r] \subseteq Bound..(MAX - 1)
  /\ Kept \subseteq Records /\ MaxRequests \in Nat /\ MaxCrashes \in Nat /\ MaxIdle \in Nat

VARIABLES
  chan,         \* chan[e]: the messages queued on an edge
  upEpoch,      \* upEpoch[e]: UpstreamState::epoch of the receiver of e
  inFrontier,   \* inFrontier[op], outFrontier[op]: Input::frontier, Output::frontier
  outFrontier,
  suspended,    \* suspended[op]: Output::suspended
  st,           \* st[op]: what the operator's closure has captured
  cursor,       \* the operator Worker::step schedules; 0 after the last one
  allDone,      \* all_done of Worker::step
  ctl,          \* where Worker::execute is
  saving,       \* the snapshot under way: what operators have persisted
  uncommitted,  \* the worker has reported the snapshot, it is not committed yet
  committed,    \* the last committed snapshot, or None
  requests,     \* requests of the coordinator so far
  crashes,      \* crashes so far
  idle,         \* polls in vain so far
  stamp,        \* stamp[r]: the timestamp the assigner computes for r
  sunk          \* history: records each sink has written, over all restarts

ioVars   == <<chan, upEpoch, inFrontier, outFrontier, suspended>>
execVars == <<cursor, allDone, ctl>>
snapVars == <<saving, uncommitted, committed>>
envVars  == <<requests, crashes, idle, stamp>>
vars     == <<ioVars, st, execVars, snapVars, envVars, sunk>>

Markers == [snapshot |-> "AbsBarrier", reconfig |-> "Rescale", suspend |-> "SuspendMarker"]
Working == {"execute"} \cup DOMAIN Markers

Message ==
       [kind : {"Data"}, id : Records, ts : Times, late : BOOLEAN]
  \cup [kind : {"Epoch"}, ts : Times]
  \cup [kind : {"AbsBarrier", "Rescale", "SuspendMarker"}]

ASSUME NoneAssumption == None \notin Message

\* What an operator can find in a snapshot.  None, an absent state or snapshot, is
\* neither the state of the fold nor a snapshot.
Values == Nat \cup {None} \cup [Records -> Nat] \cup SUBSET [id : Records, ts : Times]

ASSUME AbsentAssumption == None \notin [Records -> Nat] /\ None \notin [Ops -> Values]

Data(r, t)  == [kind |-> "Data", id |-> r, ts |-> t, late |-> FALSE]
Epoch(t)    == [kind |-> "Epoch", ts |-> t]
Marker(k)   == [kind |-> k]

\* One call of an operator's logic: the messages it sends and its new state.
Forward(s, m)     == [outs |-> <<m>>, st |-> s]
Result(msgs, s)   == [outs |-> msgs, st |-> s]

----------------------------------------------------------------------------
(* Operators.                                                              *)

\* Mutant: no epoch gets through.
OnAssignTimestampsNoMax(s, m) ==
  CASE m.kind = "Data"  -> Result(<<[m EXCEPT !.ts = stamp[m.id]]>>, s)
    [] m.kind = "Epoch" -> Result(<<>>, s)
    [] OTHER            -> Forward(s, m)

\* operators/time/assign_timestamps.rs: of the epochs only MAX gets through.
OnAssignTimestamps(s, m) ==
  CASE m.kind = "Data"  -> Result(<<[m EXCEPT !.ts = stamp[m.id]]>>, s)
    [] m.kind = "Epoch" -> Result(IF m.ts = MAX THEN <<m>> ELSE <<>>, s)
    [] OTHER            -> Forward(s, m)

\* limit_out_of_orderness: the epoch it proposes for a message, None if it
\* would not be larger than the previous one.
LimitOutOfOrderness(m, prev) ==
  LET new == m.ts - Bound
  IN  IF prev = None \/ new > prev THEN new ELSE None

\* Mutant: the message that carries the timestamp of the epoch is on time.
OnTimeAtEpoch(prev, m) == prev = None \/ prev <= m.ts

\* handle_maybe_late_msg: late is what the previous epoch has promised not to come.
OnTime(prev, m) == prev = None \/ prev < m.ts

\* operators/time/generate_epochs.rs; the state is prev_epoch.
OnGenerateEpochs(prev, m) ==
  CASE m.kind = "Data" ->
         LET new == LimitOutOfOrderness(m, prev)
         IN  Result(<<[m EXCEPT !.late = ~OnTime(prev, m)]>>
                      \o (IF new = None THEN <<>> ELSE <<Epoch(new)>>),
                    Raise(prev, new))
    [] m.kind = "Epoch" ->
         IF prev = None \/ prev < m.ts THEN Result(<<m>>, m.ts) ELSE Result(<<>>, prev)
    [] OTHER -> Forward(prev, m)

\* operators/{map,filter,flatten}.rs on top of stateless_op: the messages sent
\* for one data message.
OnMap(m)     == <<[m EXCEPT !.late = FALSE]>>
OnFilter(m)  == IF m.id \in Kept THEN <<m>> ELSE <<>>
OnFlatten(m) == <<m, m>>

Mapped(op, m) ==
  CASE Kind[op] = "map"     -> OnMap(m)
    [] Kind[op] = "filter"  -> OnFilter(m)
    [] Kind[op] = "flatten" -> OnFlatten(m)

OnStateless(op, s, m) ==
  IF m.kind = "Data" THEN Result(Mapped(op, m), s) ELSE Forward(s, m)

\* operators/stateful_map.rs: the state is the number of times each record was
\* folded in.
OnStatefulMap(s, m) ==
  IF m.kind = "Data" THEN Result(<<m>>, [s EXCEPT ![m.id] = @ + 1]) ELSE Forward(s, m)

\* operators/ttl_map.rs: the state is the entries that have not expired yet.
OnTtlMap(s, m) ==
  CASE m.kind = "Data"  -> Result(<<m>>, s \cup {[id |-> m.id, ts |-> m.ts]})
    [] m.kind = "Epoch" -> Result(<<m>>, {x \in s : x.ts > m.ts})
    [] OTHER            -> Forward(s, m)

\* Both on top of stateful_op.
OnStateful(op, s, m) == IF Kind[op] = "ttl_map" THEN OnTtlMap(s, m) ELSE OnStatefulMap(s, m)

\* The partitioner of an operator's Output: split_mixed_stream separates late
\* messages from the rest, everybody else broadcasts.  A split sends one message
\* at a time, so that the flags of a message are those of the step.
Flags(op, msgs) ==
  {i \in DOMAIN Outputs[op] :
     op # 0 /\ Kind[op] = "split" =>
       \A j \in DOMAIN msgs : msgs[j].kind = "Data" => (i = 2) = msgs[j].late}

\* What an operator does with a message it has received.  A split sends on what
\* it receives, and so do a source, cloned, inspect and inspect_frontier; a
\* stateless sink keeps no message: markers end here.
Handle(op, s, m) ==
  CASE Kind[op] = "assign_timestamps" -> OnAssignTimestamps(s, m)
    [] Kind[op] = "generate_epochs" -> OnGenerateEpochs(s, m)
    [] Kind[op] \in {"map", "filter", "flatten"} -> OnStateless(op, s, m)
    [] Kind[op] \in {"stateful_map", "ttl_map"} -> OnStateful(op, s, m)
    [] Kind[op] = "sink" -> Result(<<>>, s)
    [] OTHER -> Forward(s, m)

----------------------------------------------------------------------------
(* Snapshots: what an operator persists when a barrier reaches it, and     *)
(* what it loads when it is built.                                         *)

Stateful(op)  == Kind[op] \in {"source", "generate_epochs", "stateful_map", "ttl_map"}

\* Mutant: a source persists the position after the next record.
PersistedNext(op, s) == IF Kind[op] = "source" THEN s.pos + 1 ELSE s

Persisted(op, s) == IF Kind[op] = "source" THEN s.pos ELSE s

Fresh(op) ==
  CASE Kind[op] = "source"       -> [pos |-> 0, maxSent |-> FALSE]
    [] Kind[op] = "stateful_map" -> [r \in Records |-> 0]
    [] Kind[op] = "ttl_map"      -> {}
    [] OTHER                     -> None

\* The source keeps no note that it has sent MAX.
Loaded(op, v) == IF Kind[op] = "source" THEN [pos |-> v, maxSent |-> FALSE] ELSE v

\* generate_epochs persists an Option<T> and loads a T: an absent epoch is
\* nil on disk, which deserialize_state cannot read back.
CannotLoad(snap) ==
  snap # None /\ \E op \in Ops : Kind[op] = "generate_epochs" /\ snap[op] = None

\* Building the operators from a snapshot (None: from nothing).
Build(snap) ==
  /\ chan' = Unbounded(Edges)
  /\ upEpoch' = [e \in Edges |-> None]
  /\ inFrontier' = [op \in Ops |-> None]
  /\ outFrontier' = [op \in Ops |-> None]
  /\ suspended' = [op \in Ops |-> FALSE]
  /\ st' = [op \in Ops |-> IF snap = None \/ ~Stateful(op) THEN Fresh(op) ELSE Loaded(op, snap[op])]
  /\ cursor' = Len(Kind)
  /\ allDone' = TRUE
  /\ ctl' = IF CannotLoad(snap) THEN "panicked" ELSE "execute"

Init ==
  /\ chan = Unbounded(Edges)
  /\ upEpoch = [e \in Edges |-> None]
  /\ inFrontier = [op \in Ops |-> None]
  /\ outFrontier = [op \in Ops |-> None]
  /\ suspended = [op \in Ops |-> FALSE]
  /\ st = [op \in Ops |-> Fresh(op)]
  /\ cursor = Len(Kind) /\ allDone = TRUE /\ ctl = "execute"
  /\ saving = [op \in Ops |-> None] /\ uncommitted = FALSE /\ committed = None
  /\ requests = 0 /\ crashes = 0 /\ idle = 0
  /\ stamp \in StampFunctions
  /\ sunk = [op \in Sinks |-> {}]

----------------------------------------------------------------------------
(* Scheduling.                                                             *)

HasTime(op) == Kind[op] # "sink"     \* the sink's Output is of type NoTime

\* Mutant: the frontier of the output decides alone.
IsFinalizedByOutput(op) == HasTime(op) => outFrontier'[op] = MAX

\* StandardOperator::is_finalized in the next state.  The input of a source is
\* of type NoTime, which never keeps a worker running.
IsFinalized(op) ==
  /\ HasTime(op) => outFrontier'[op] = MAX
  /\ op \notin Sources => inFrontier'[op] = MAX
  /\ ~CanProgress(chan', Inputs[op])

\* After a step the operator is stepped again while it has queued work.
Advance(op) ==
  IF CanProgress(chan', Inputs[op])
  THEN UNCHANGED <<cursor, allDone>>
  ELSE /\ cursor' = op - 1
       /\ allDone' = (allDone /\ IsFinalized(op))

Scheduled(op) == ctl \in Working /\ cursor = op /\ ~suspended[op]

IsKind(m, kind) == m # None /\ m.kind = kind
SentEpochs(outs) == {outs[i].ts : i \in {j \in DOMAIN outs : outs[j].kind = "Epoch"}}

\* The input has received in, the logic has answered with r, outs is sent.
Process(op, s, in, r, outs) ==
  /\ chan' = Send(in.chan, Outputs[op], outs, Flags(op, outs))
  /\ upEpoch' = in.epochs
  /\ inFrontier' = [inFrontier EXCEPT ![op] = IF IsKind(in.msg, "Epoch") THEN Raise(@, in.msg.ts) ELSE @]
  /\ outFrontier' = [outFrontier EXCEPT ![op] =
        IF SentEpochs(outs) = {} THEN @
        ELSE Raise(@, CHOOSE t \in SentEpochs(outs) : \A u \in SentEpochs(outs) : t >= u)]
  /\ suspended' = [suspended EXCEPT ![op] = @ \/ \E i \in DOMAIN outs : outs[i].kind = "SuspendMarker"]
  /\ st' = [st EXCEPT ![op] = r.st]
  /\ saving' = IF Stateful(op) /\ IsKind(in.msg, "AbsBarrier")
               THEN [saving EXCEPT ![op] = Persisted(op, s)] ELSE saving
  /\ sunk' = IF op \in Sinks /\ IsKind(in.msg, "Data")
             THEN [sunk EXCEPT ![op] = @ \cup {in.msg.id}] ELSE sunk
  /\ Advance(op)
  /\ UNCHANGED <<ctl, uncommitted, committed, requests, crashes, stamp>>

\* RunnableOperator::step: on_schedule has sent `first`, then a message is
\* received and handled.  An input that reaches the unreachable!() of
\* Input::recv has no step: the worker would be stuck.
Step(op, first, s) ==
  /\ ~MixedAlignment(chan, Inputs[op])
  /\ \E in \in {Recv(chan, upEpoch, Inputs[op])} :
     \E r \in {IF in.msg = None THEN Result(<<>>, s) ELSE Handle(op, s, in.msg)} :
        Process(op, s, in, r, first \o r.outs)

\* StatefulSourcePartition::poll: the next record with its index as timestamp.
Poll(op, pos) == Data(Feed[op][pos], pos - 1)

\* A partition that has a record returns it, or nothing yet (polled); the
\* partition is finished with its last record, and MAX is sent once.
StepSource(op, polled) ==
  LET pos  == IF polled THEN st[op].pos + 1 ELSE st[op].pos
      done == pos = Len(Feed[op])
      max  == done /\ ~st[op].maxSent
  IN  /\ Kind[op] = "source" /\ Scheduled(op)
      /\ IF polled THEN st[op].pos < Len(Feed[op]) ELSE done \/ idle < MaxIdle
      /\ idle' = IF polled \/ done THEN idle ELSE idle + 1
      /\ Step(op,
              (IF polled THEN <<Poll(op, pos)>> ELSE <<>>)
                \o (IF max THEN <<Epoch(MAX)>> ELSE <<>>),
              [pos |-> pos, maxSent |-> st[op].maxSent \/ max])

StepAssignTimestamps(op) ==
  /\ Kind[op] = "assign_timestamps" /\ Scheduled(op)
  /\ Step(op, <<>>, st[op]) /\ UNCHANGED idle

StepGenerateEpochs(op) ==
  /\ Kind[op] = "generate_epochs" /\ Scheduled(op)
  /\ Step(op, <<>>, st[op]) /\ UNCHANGED idle

StepSplit(op) ==
  /\ Kind[op] = "split" /\ Scheduled(op)
  /\ Step(op, <<>>, st[op]) /\ UNCHANGED idle

StepStateless(op) ==
  /\ Kind[op] \in {"map", "filter", "flatten"} /\ Scheduled(op)
  /\ Step(op, <<>>, st[op]) /\ UNCHANGED idle

StepStateful(op) ==
  /\ Kind[op] \in {"stateful_map", "ttl_map"} /\ Scheduled(op)
  /\ Step(op, <<>>, st[op]) /\ UNCHANGED idle

StepSink(op) ==
  /\ Kind[op] = "sink" /\ Scheduled(op)
  /\ Step(op, <<>>, st[op]) /\ UNCHANGED idle

\* An operator whose output is suspended is not scheduled and not asked.
SkipSuspended(op) ==
  /\ ctl \in Working /\ cursor = op /\ suspended[op]
  /\ cursor' = op - 1
  /\ UNCHANGED <<ioVars, st, allDone, ctl, snapVars, envVars, sunk>>

----------------------------------------------------------------------------
(* Worker::execute: what happens between two calls of Worker::step.        *)

NewPass == cursor' = Len(Kind) /\ allDone' = TRUE

\* Nothing from the coordinator: step again.
ContinueExecution ==
  /\ ctl = "execute" /\ cursor = 0 /\ ~allDone
  /\ NewPass
  /\ UNCHANGED <<ioVars, st, ctl, snapVars, envVars, sunk>>

\* The marker of a snapshot, a reconfiguration or a suspension enters the graph.
SendMarker(what) ==
  /\ ctl = "execute" /\ cursor = 0 /\ ~allDone
  /\ requests < MaxRequests /\ ~uncommitted
  /\ requests' = requests + 1
  /\ ctl' = what
  /\ chan' = LET marker == <<Marker(Markers[what])>>
              IN  Send(chan, Outputs[0], marker, Flags(0, marker))
  /\ saving' = [op \in Ops |-> None]
  /\ NewPass
  /\ UNCHANGED <<upEpoch, inFrontier, outFrontier, suspended, st, uncommitted, committed,
                 crashes, idle, stamp, sunk>>

\* strong_count() > 1: somebody still holds the marker.
AwaitMarker ==
  /\ ctl \in DOMAIN Markers /\ cursor = 0
  /\ InFlight(chan, Markers[ctl])
  /\ NewPass
  /\ UNCHANGED <<ioVars, st, ctl, snapVars, envVars, sunk>>

\* Mutant: the marker has only entered the graph.
MarkerDoneEarly ==
  /\ ctl \in DOMAIN Markers /\ cursor = 0
  /\ ctl' = IF ctl = "suspend" THEN "suspended" ELSE "execute"
  /\ uncommitted' = (ctl = "snapshot")
  /\ NewPass
  /\ UNCHANGED <<ioVars, st, saving, committed, envVars, sunk>>

\* The marker has left the graph.
MarkerDone ==
  /\ ctl \in DOMAIN Markers /\ cursor = 0
  /\ ~InFlight(chan, Markers[ctl])
  /\ ctl' = IF ctl = "suspend" THEN "suspended" ELSE "execute"
  /\ uncommitted' = (ctl = "snapshot")
  /\ NewPass
  /\ UNCHANGED <<ioVars, st, saving, committed, envVars, sunk>>

CompleteExecution ==
  /\ ctl = "execute" /\ cursor = 0 /\ allDone
  /\ ctl' = "complete"
  /\ UNCHANGED <<ioVars, st, cursor, allDone, snapVars, envVars, sunk>>

\* The coordinator commits what the worker has reported.
CommitSnapshot ==
  /\ uncommitted
  /\ committed' = saving /\ uncommitted' = FALSE
  /\ UNCHANGED <<ioVars, st, execVars, saving, envVars, sunk>>

\* The job crashes, or was suspended, and is started again.
Restart ==
  /\ ctl \in Working \cup {"suspended"} /\ crashes < MaxCrashes
  /\ crashes' = crashes + 1
  /\ Build(committed)
  /\ saving' = [op \in Ops |-> None] /\ uncommitted' = FALSE
  /\ UNCHANGED <<committed, requests, idle, stamp, sunk>>

StepOperator(op) ==
  \/ StepAssignTimestamps(op) \/ StepGenerateEpochs(op) \/ StepSplit(op)
  \/ StepStateless(op) \/ StepStateful(op) \/ StepSink(op) \/ SkipSuspended(op)

WorkerStep ==
  \/ cursor \in Ops /\ StepOperator(cursor)
  \/ cursor \in Ops /\ \E polled \in BOOLEAN : StepSource(cursor, polled)
  \/ ContinueExecution \/ AwaitMarker \/ MarkerDone \/ CompleteExecution

\* The worker has returned from execute(), or failed to start.
Ended ==
  /\ ctl \in {"complete", "suspended", "panicked"}
  /\ UNCHANGED vars

Next ==
  \/ WorkerStep
  \/ \E what \in DOMAIN Markers : SendMarker(what)
  \/ CommitSnapshot \/ Restart \/ Ended

Spec == Init /\ [][Next]_vars

\* The worker's thread keeps running (a source that has records is polled in
\* vain only MaxIdle times).
Fairness == WF_vars(WorkerStep)

FairSpec == Spec /\ Fairness

----------------------------------------------------------------------------
(* Properties.                                                             *)

\* Every variable has its type.
TypeOK ==
  /\ chan \in [Edges -> Seq(Message)]
  /\ upEpoch \in [Edges -> Times \cup {None}]
  /\ inFrontier \in [Ops -> Times \cup {None}] /\ outFrontier \in [Ops -> Times \cup {None}]
  /\ suspended \in [Ops -> BOOLEAN]
  /\ cursor \in 0..Len(Kind) /\ allDone \in BOOLEAN
  /\ ctl \in Working \cup {"complete", "suspended", "panicked"}
  /\ uncommitted \in BOOLEAN
  /\ requests \in 0..MaxRequests /\ crashes \in 0..MaxCrashes /\ idle \in 0..MaxIdle
  /\ stamp \in StampFunctions
  /\ sunk \in [Sinks -> SUBSET Records]
  /\ \A op \in Ops :
       CASE Kind[op] = "source"          -> st[op].pos \in 0..Len(Feed[op]) /\ st[op].maxSent \in BOOLEAN
         [] Kind[op] = "generate_epochs" -> st[op] \in Times \cup {None}
         [] Kind[op] = "stateful_map"    -> st[op] \in [Records -> Nat]
         [] Kind[op] = "ttl_map"         -> st[op] \subseteq [id : Records, ts : Times]
         [] OTHER                        -> st[op] = None

\* The operator whose state is a fold over all records, the operators before
\* it and the ones after it.  A stream is registered before what it feeds.
Fold == CHOOSE op \in Ops : Kind[op] = "stateful_map"
Feeds(op, c) == \E i \in DOMAIN Outputs[op] : IsInput(Outputs[op][i], Inputs[c])
BeforeFold[op \in Ops] ==
  op = Fold \/ \E c \in Ops : c > op /\ Feeds(op, c) /\ BeforeFold[c]
AfterFold[op \in Ops] ==
  op = Fold \/ \E p \in Ops : p < op /\ Feeds(p, op) /\ AfterFold[p]

Upstream  == {e \in Edges : \E op \in Ops : IsInput(e, Inputs[op]) /\ BeforeFold[op]}
LateEdges == {e \in Edges : \E op \in Ops : IsInput(e, Inputs[op]) /\ ~BeforeFold[op] /\ ~AfterFold[op]}
LateSinks == {op \in Sinks : ~AfterFold[op]}

Queued(r, e) == {i \in DOMAIN chan[e] : chan[e][i].kind = "Data" /\ chan[e][i].id = r}
Copies(r, edges) == Cardinality(UNION {{e} \X Queued(r, e) : e \in edges})

Unread(r) == \E op \in Sources : \E i \in DOMAIN Feed[op] : Feed[op][i] = r /\ i > st[op].pos

WentLate(r) == Copies(r, LateEdges) > 0 \/ \E op \in LateSinks : r \in sunk[op]

\* Every record is in exactly one place: still to be read, on its way to the
\* fold, or counted once in its state; only a record that was late is in none.
\* The barriers of a union have to line up for that to survive a restart, and
\* a snapshot may only be reported when its barrier has left the graph
\* (operator_io.rs:155, worker/mod.rs:294).
EveryRecordCountsOnce ==
  \A r \in Records :
     LET places == (IF Unread(r) THEN 1 ELSE 0) + Copies(r, Upstream) + st[Fold][r]
     IN  places = 1 \/ (places = 0 /\ WentLate(r))

\* Late messages are still among the others between generate_epochs and the
\* split (generate_epochs.rs builds both), and nothing is promised to them.
BeforeSplit(op) == \E k \in Ops : Kind[k] = "split" /\ op <= k

OnTimeOp(op) == (BeforeFold[op] \/ AfterFold[op]) /\ ~BeforeSplit(op)

\* "No messages with a timestamp less than or equal to the timestamp of this
\* Epoch will follow" (types/message.rs:48): what waits at an operator is newer
\* than the epoch its input has reached, on every stream but the late one.
NoDataBehindFrontier ==
  \A op \in Ops : inFrontier[op] # None /\ OnTimeOp(op) =>
     \A i \in DOMAIN Inputs[op] : LET q == chan[Inputs[op][i]] IN
        \A j \in DOMAIN q : q[j].kind = "Data" => q[j].ts > inFrontier[op]

\* A job that keeps its late stream apart: what is before or after the fold gets
\* its input from a source, from its own kind or from the first output of a
\* split, and a split gets it from generate_epochs.
LateStreamApart ==
  \A p \in Ops, c \in Ops : \A i \in DOMAIN Outputs[p], j \in DOMAIN Inputs[c] :
    Link(p, i, c, j) =>
      /\ OnTimeOp(c) => \/ Kind[p] = "source"
                        \/ Kind[p] = "split" /\ i # 2
                        \/ OnTimeOp(p) /\ Kind[p] \notin {"assign_timestamps", "generate_epochs", "split"}
      /\ Kind[c] = "split" => Kind[p] = "generate_epochs"

\* And no ttl_map is fed from the late stream.
TtlOnTime == \A op \in Ops : Kind[op] = "ttl_map" => OnTimeOp(op)

\* A job in which every record has one way to the fold: one source reads it, once,
\* an operator before the fold passes on what it gets, over one edge that leads to
\* the fold, and what a split takes for late is on the late stream.
OnePathToFold ==
  /\ \E op \in Ops : Kind[op] = "stateful_map"
  /\ \A r \in Records : \E op \in Sources : BeforeFold[op] /\ \E i \in DOMAIN Feed[op] : Feed[op][i] = r
  /\ \A o, p \in Sources : \A i \in DOMAIN Feed[o], j \in DOMAIN Feed[p] :
       Feed[o][i] = Feed[p][j] => o = p /\ i = j
  /\ \A op \in Ops : BeforeFold[op] /\ op # Fold =>
       /\ Kind[op] \notin {"filter", "flatten"}
       /\ \A i, j \in DOMAIN Outputs[op] : {Outputs[op][i], Outputs[op][j]} \subseteq Upstream => i = j
       /\ Kind[op] = "split" => 2 \in DOMAIN Outputs[op] /\ Outputs[op][2] \in LateEdges

\* And what is on the late stream gets to a sink.
LateStreamKept ==
  \A op \in Ops : ~BeforeFold[op] /\ ~AfterFold[op] /\ Kind[op] \notin {"source", "sink"} =>
     Kind[op] \notin {"filter", "split"} /\ \E i \in DOMAIN Outputs[op] : Outputs[op][i] \in LateEdges

\* The worker reports ExecutionComplete only when the sources are exhausted
\* and no operator has anything left to do (worker/mod.rs:237, standard.rs:25).
CompletesOnlyWhenDrained ==
  ctl = "complete" => /\ \A op \in Sources : st[op].pos = Len(Feed[op])
                      /\ \A e \in Edges : chan[e] = <<>>

\* An entry of a ttl_map whose time has passed is gone: an epoch removes what
\* has expired and nothing older can come in after it (ttl_map.rs:20).
NoExpiredState ==
  \A op \in Ops : Kind[op] = "ttl_map" /\ inFrontier[op] # None =>
     \A x \in st[op] : x.ts > inFrontier[op]

\* A marker always leaves the graph: no operator keeps it and no input waits
\* for an alignment that does not come, or sees a barrier on one edge and a
\* suspend marker on another (operator_io.rs:213, worker/mod.rs:289, 303, 314).
MarkersLeaveTheGraph == \A what \in DOMAIN Markers : (ctl = what) ~> (ctl # what)

\* generate_epochs was restored with MAX as its previous epoch: it takes the MAX
\* that the sources send once more for an old epoch and keeps it
\* (generate_epochs.rs:109; sources/stateful.rs:185 says that sending it again
\* "should not be an issue").  Its output never reaches MAX.
SwallowsMax == \E op \in Ops : Kind[op] = "generate_epochs" /\ st[op] = MAX /\ outFrontier[op] # MAX

\* Execution ends: the MAX epoch of every source makes its way through unions,
\* splits and time operators to all sinks, or the job is suspended.  A snapshot
\* that was taken too early to be read back, or after MAX has passed, is the
\* exception.
ExecutionEnds == <>(ctl \in {"complete", "suspended", "panicked"} \/ SwallowsMax)

\* The worker's state implements the abstract promise.
Promise == INSTANCE ExactlyOnce WITH
  applied <- st[Fold],
  copy    <- saving[Fold],
  saved   <- IF committed = None THEN [r \in Records |-> 0] ELSE committed[Fold]

ImplementsExactlyOnce == Promise!Spec
=============================================================================
