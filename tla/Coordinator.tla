---------------------------- MODULE Coordinator ----------------------------
(***************************************************************************)
(* The coordinator of a job (coordinator/coordinator.rs), the map of       *)
(* worker phases it watches (coordinator/watchmap.rs), the tasks that fill *)
(* the map from what the workers report (coordinator/communication.rs),    *)
(* the control loop of every worker (worker/mod.rs) and the snapshot store *)
(* (snapshot/slatedb.rs), across restarts of the whole job.                *)
(*                                                                         *)
(* Tasks and threads that interleave: the coordinator loop, which stops at *)
(* every await; one inbound task per worker; the worker threads.  What a   *)
(* worker does between the start and the end of an operation is the        *)
(* dataflow's business (module Distributor): here the operation just takes *)
(* some time.                                                              *)
(***************************************************************************)
EXTENDS Integers, Sequences, FiniteSets

CONSTANTS
  NumWorkers,    \* bound: worker ids are 0 .. NumWorkers - 1
  DefaultScale,  \* the parallelism a job without a snapshot starts with
  Requests,      \* requests users and the snapshot timer send
  MaxRequests,   \* bound: number of those requests
  MaxCrashes,    \* bound: restarts of the whole job
  Finite         \* whether the sources are finite, so that workers complete

Workers == 0..(NumWorkers - 1)
Scale(n) == [op |-> "Scale", desired |-> n]
Snapshot == [op |-> "Snapshot", desired |-> 0]
Suspend  == [op |-> "Suspend", desired |-> 0]

ASSUME CoordinatorAssumption ==
  /\ NumWorkers \in Nat /\ DefaultScale \in 1..NumWorkers
  /\ MaxRequests \in Nat /\ MaxCrashes \in Nat /\ Finite \in BOOLEAN
  /\ Requests \subseteq {Scale(n) : n \in 1..NumWorkers} \cup {Snapshot, Suspend}

VARIABLES
  \* the coordinator loop: where it stands, the request in work, the workers its
  \* reconfiguration leads to, and those that are being started: how far the
  \* future of each is
  pc, step, request, target, joining, awaiting,
  \* CoordinatorState, and the version of the last snapshot
  active, configVersion, snapVersion,
  \* WatchMap: the phase of each worker, conditions registered and fired
  phases, registered, fired,
  \* channels
  requests, submitted, defaultDue, toWorker, fromWorker,
  \* workers: control state, the operation in work, the worker set it knows
  control, job, knownSet,
  \* the store: commits, what each worker and the coordinator wrote per
  \* version; incarnation counts the restarts
  commits, written, saved, incarnation

loopVars   == <<pc, step, request, target, joining, awaiting>>
stateVars  == <<active, configVersion, snapVersion>>
mapVars    == <<phases, registered, fired>>
chanVars   == <<requests, submitted, defaultDue, toWorker, fromWorker>>
workerVars == <<control, job, knownSet>>
storeVars  == <<commits, written, saved, incarnation>>
vars == <<loopVars, stateVars, mapVars, chanVars, workerVars, storeVars>>

None       == -1          \* Option::None of a version
Absent     == "Absent"    \* the map has no entry for the worker
AllWorkers == -1          \* the condition is about every worker of the map
NoJob      == [kind |-> "none"]
Versions   == 0..MaxRequests

Last(s) == IF s = <<>> THEN None ELSE s[Len(s)]

----------------------------------------------------------------------------
\* The watch map.

Condition(w, phase) == [worker |-> w, phase |-> phase]

\* Mutant: one worker in the phase is enough.
HoldsForSome(c, map) ==
  IF c.worker = AllWorkers
  THEN \E w \in Workers : map[w] = c.phase
  ELSE map[c.worker] = c.phase

\* AllPhaseCondition (true of an empty map) and PhaseCondition.
Holds(c, map) ==
  IF c.worker = AllWorkers
  THEN \A w \in Workers : map[w] \in {Absent, c.phase}
  ELSE map[c.worker] = c.phase

\* insert, remove and apply_or_default: change the map, then fire what holds.
Change(map) ==
  /\ phases' = map
  /\ fired' = fired \cup {c \in registered : Holds(c, map)}
  /\ registered' = registered \ {c \in registered : Holds(c, map)}

\* notify only registers; it does not look at the map.
Notify(c) ==
  /\ registered' = registered \cup {c}
  /\ UNCHANGED <<phases, fired>>

\* The await of a notification ends.
Notified(c) ==
  /\ c \in fired
  /\ fired' = fired \ {c}
  /\ UNCHANGED <<phases, registered>>

Send(ws, m) == [w \in Workers |-> IF w \in ws THEN Append(toWorker[w], m) ELSE toWorker[w]]

----------------------------------------------------------------------------
\* Start and restart.

\* execute and CoordinatorState::from_serialized: connect to the workers of the
\* loaded state, whose phases are not known yet.
NoState == [active |-> {}, config |-> None, run |-> None]
LoadPhases(state)   == [w \in Workers |-> IF w \in state.active THEN "Unknown" ELSE Absent]
LoadAwaiting(state) == [w \in Workers |-> IF w \in state.active THEN "send" ELSE "idle"]
LoadCommitted == IF commits = <<>> THEN NoState ELSE saved[Last(commits)]

Init ==
  /\ pc = "buildAll" /\ step = "register" /\ request = Snapshot /\ target = {}
  /\ active = {} /\ configVersion = None /\ snapVersion = None
  /\ joining = {} /\ awaiting = LoadAwaiting(NoState)
  /\ phases = LoadPhases(NoState) /\ registered = {} /\ fired = {}
  /\ requests = <<>> /\ submitted = 0 /\ defaultDue = TRUE
  /\ toWorker = [w \in Workers |-> <<>>] /\ fromWorker = [w \in Workers |-> <<>>]
  /\ control = [w \in Workers |-> "waitBuild"]
  /\ job = [w \in Workers |-> NoJob] /\ knownSet = [w \in Workers |-> {}]
  /\ commits = <<>> /\ incarnation = 0
  /\ written = [w \in Workers |-> [v \in Versions |-> None]]
  /\ saved = [v \in Versions |-> NoState]

\* The process (or every pod) dies and is started again; only the store stays.
Crash ==
  /\ incarnation < MaxCrashes /\ pc # "returned"
  /\ incarnation' = incarnation + 1
  /\ pc' = "buildAll" /\ step' = "register" /\ request' = Snapshot /\ target' = {}
  /\ active' = LoadCommitted.active /\ configVersion' = LoadCommitted.config
  /\ snapVersion' = Last(commits)
  /\ joining' = LoadCommitted.active /\ awaiting' = LoadAwaiting(LoadCommitted)
  /\ phases' = LoadPhases(LoadCommitted) /\ registered' = {} /\ fired' = {}
  /\ requests' = <<>> /\ defaultDue' = (LoadCommitted.active = {})
  /\ toWorker' = [w \in Workers |-> <<>>] /\ fromWorker' = [w \in Workers |-> <<>>]
  /\ control' = [w \in Workers |-> "waitBuild"]
  /\ job' = [w \in Workers |-> NoJob] /\ knownSet' = [w \in Workers |-> {}]
  /\ UNCHANGED <<submitted, commits, written, saved>>

\* A job without workers asks itself for the default scale.
SendDefaultScale ==
  /\ defaultDue /\ pc # "returned"
  /\ defaultDue' = FALSE
  /\ requests' = Append(requests, Scale(DefaultScale))
  /\ UNCHANGED <<loopVars, stateVars, mapVars, submitted, toWorker, fromWorker, workerVars,
                 storeVars>>

\* CoordinatorApi::rescale or the snapshot timer.
Submit ==
  /\ submitted < MaxRequests /\ pc # "returned"
  /\ submitted' = submitted + 1
  /\ \E r \in Requests : requests' = Append(requests, r)
  /\ UNCHANGED <<loopVars, stateVars, mapVars, defaultDue, toWorker, fromWorker, workerVars,
                 storeVars>>

----------------------------------------------------------------------------
\* start_build and start_execution, as futures of one join_all: send, register
\* the condition, wait for it.

JoinStages == {"buildAll", "startAll", "buildNew", "startNew"}
Building   == pc \in {"buildAll", "buildNew"}
Awaited(w) == Condition(w, IF Building THEN "BuildComplete" ELSE "Running")

\* resume_snapshot is only given to the workers of a restarted job.
StartMessage ==
  IF Building
  THEN [kind |-> "StartBuild", set |-> active,
        resume |-> IF pc = "buildAll" THEN snapVersion ELSE None]
  ELSE [kind |-> "StartExecution"]

AwaitSend(w) ==
  /\ pc \in JoinStages /\ awaiting[w] = "send"
  /\ toWorker' = Send({w}, StartMessage)
  /\ awaiting' = [awaiting EXCEPT ![w] = "register"]
  /\ UNCHANGED <<pc, step, request, target, joining, stateVars, mapVars, requests, submitted,
                 defaultDue, fromWorker, workerVars, storeVars>>

AwaitRegister(w) ==
  /\ pc \in JoinStages /\ awaiting[w] = "register"
  /\ Notify(Awaited(w))
  /\ awaiting' = [awaiting EXCEPT ![w] = "wait"]
  /\ UNCHANGED <<pc, step, request, target, joining, stateVars, chanVars, workerVars, storeVars>>

AwaitFired(w) ==
  /\ pc \in JoinStages /\ awaiting[w] = "wait"
  /\ Notified(Awaited(w))
  /\ awaiting' = [awaiting EXCEPT ![w] = "idle"]
  /\ UNCHANGED <<pc, step, request, target, joining, stateVars, chanVars, workerVars, storeVars>>

\* join_all resolves; a build is followed by the start of the same workers.
JoinDone ==
  /\ pc \in JoinStages /\ \A w \in Workers : awaiting[w] = "idle"
  /\ pc' = CASE pc = "buildAll" -> "startAll"
             [] pc = "startAll" -> "arm"
             [] pc = "buildNew" -> "startNew"
             [] pc = "startNew" -> "reconfSend"
  /\ awaiting' = [w \in Workers |-> IF Building /\ w \in joining THEN "send" ELSE "idle"]
  /\ UNCHANGED <<step, request, target, joining, stateVars, mapVars, chanVars, workerVars, storeVars>>

----------------------------------------------------------------------------
\* The main loop.

\* The notification that ends the job is registered once.
ArmCompletion ==
  /\ pc = "arm"
  /\ Notify(Condition(AllWorkers, "Completed"))
  /\ pc' = "loop"
  /\ UNCHANGED <<step, request, target, joining, awaiting, stateVars, chanVars, workerVars, storeVars>>

ReturnCompleted ==
  /\ pc = "loop"
  /\ Notified(Condition(AllWorkers, "Completed"))
  /\ pc' = "returned"
  /\ UNCHANGED <<step, request, target, joining, awaiting, stateVars, chanVars, workerVars, storeVars>>

\* A request is taken; a Scale to the present scale does nothing.
TakeRequest ==
  /\ pc = "loop" /\ requests # <<>>
  /\ request' = Head(requests) /\ requests' = Tail(requests)
  /\ target' = IF request'.op = "Scale" THEN 0..(request'.desired - 1) ELSE {}
  /\ pc' = CASE request'.op = "Snapshot" -> "snapSend"
             [] request'.op = "Suspend"  -> "suspendSend"
             [] request'.op = "Scale"    ->
                  IF request'.desired = Cardinality(active) THEN "reply" ELSE "setup"
  /\ UNCHANGED <<step, joining, awaiting, stateVars, mapVars, submitted, defaultDue, toWorker,
                 fromWorker, workerVars, storeVars>>

\* The answer is sent; a job without workers is over.
Reply ==
  /\ pc = "reply"
  /\ pc' = IF active = {} THEN "returned" ELSE "loop"
  /\ UNCHANGED <<step, request, target, joining, awaiting, stateVars, mapVars, chanVars, workerVars,
                 storeVars>>

\* The phases an operation waits for on all workers, and what comes after.
WaitPhase == [snapStarted |-> "Snapshotting", snapDone |-> "Running",
              reconfStarted |-> "Reconfiguring", reconfDone |-> "Running",
              suspended |-> "Suspended"]

\* Mutant: the operations only wait until it has begun everywhere.
AfterStart == [snapStarted |-> "persist", snapDone |-> "persist",
               reconfStarted |-> "remove", reconfDone |-> "remove", suspended |-> "drain"]

After == [snapStarted |-> "snapDone", snapDone |-> "persist",
          reconfStarted |-> "reconfDone", reconfDone |-> "remove", suspended |-> "drain"]

RegisterAll ==
  /\ pc \in DOMAIN WaitPhase /\ step = "register"
  /\ Notify(Condition(AllWorkers, WaitPhase[pc]))
  /\ step' = "wait"
  /\ UNCHANGED <<pc, request, target, joining, awaiting, stateVars, chanVars, workerVars, storeVars>>

WaitAll ==
  /\ pc \in DOMAIN WaitPhase /\ step = "wait"
  /\ Notified(Condition(AllWorkers, WaitPhase[pc]))
  /\ step' = "register"
  /\ pc' = After[pc]
  /\ UNCHANGED <<request, target, joining, awaiting, stateVars, chanVars, workerVars, storeVars>>

----------------------------------------------------------------------------
\* perform_snapshot_all, and what the loop does after it.

\* Mutant: the version that is committed already is taken again.
NextSnapshotAgain == IF snapVersion = None THEN 0 ELSE snapVersion

NextSnapshot == snapVersion + 1
NextConfig   == configVersion + 1

SnapshotSend ==
  /\ pc = "snapSend"
  /\ toWorker' = Send(active, [kind |-> "Snapshot", version |-> NextSnapshot])
  /\ pc' = "snapStarted"
  /\ UNCHANGED <<step, request, target, joining, awaiting, stateVars, mapVars, requests,
                 submitted, defaultDue, fromWorker, workerVars, storeVars>>

\* The coordinator's own state goes into the snapshot, then it is committed.
SnapshotPersist ==
  /\ pc = "persist"
  /\ saved' = [saved EXCEPT ![NextSnapshot] =
                 [active |-> active, config |-> configVersion, run |-> incarnation]]
  /\ pc' = "commit"
  /\ UNCHANGED <<step, request, target, joining, awaiting, stateVars, mapVars, chanVars,
                 workerVars, commits, written, incarnation>>

SnapshotCommit ==
  /\ pc = "commit"
  /\ commits' = Append(commits, NextSnapshot)
  /\ snapVersion' = NextSnapshot
  /\ pc' = "reply"
  /\ UNCHANGED <<step, request, target, joining, awaiting, active, configVersion, mapVars,
                 chanVars, workerVars, written, saved, incarnation>>

----------------------------------------------------------------------------
\* perform_reconfig_all.

\* Mutant: the workers that run already are set up as well.
NewWorkersAll == target

NewWorkers == target \ active

\* Connect to the workers that join and enter them into the map.
ReconfigSetup ==
  /\ pc = "setup"
  /\ Change([w \in Workers |-> IF w \in NewWorkers THEN "Unknown" ELSE phases[w]])
  /\ active' = active \cup NewWorkers
  /\ joining' = NewWorkers
  /\ awaiting' = [w \in Workers |-> IF w \in NewWorkers THEN "send" ELSE "idle"]
  /\ pc' = "buildNew"
  /\ UNCHANGED <<step, request, target, configVersion, snapVersion, chanVars, workerVars,
                 storeVars>>

ReconfigSend ==
  /\ pc = "reconfSend"
  /\ toWorker' = Send(active, [kind |-> "Reconfigure", set |-> target, version |-> NextConfig])
  /\ pc' = "reconfStarted"
  /\ UNCHANGED <<step, request, target, joining, awaiting, stateVars, mapVars, requests,
                 submitted, defaultDue, fromWorker, workerVars, storeVars>>

\* Mutant: the workers that left stay in the books.
ReconfigRemoveNone ==
  /\ pc = "remove"
  /\ configVersion' = NextConfig
  /\ pc' = "reply"
  /\ UNCHANGED <<step, request, target, joining, awaiting, active, snapVersion, mapVars,
                 chanVars, workerVars, storeVars>>

ReconfigRemove ==
  /\ pc = "remove"
  /\ Change([w \in Workers |-> IF w \in active \ target THEN Absent ELSE phases[w]])
  /\ active' = active \cap target
  /\ configVersion' = NextConfig
  /\ pc' = "reply"
  /\ UNCHANGED <<step, request, target, joining, awaiting, snapVersion, chanVars, workerVars,
                 storeVars>>

----------------------------------------------------------------------------
\* perform_suspend_all.

SuspendSend ==
  /\ pc = "suspendSend"
  /\ toWorker' = Send(active, [kind |-> "Suspend"])
  /\ pc' = "suspended"
  /\ UNCHANGED <<step, request, target, joining, awaiting, stateVars, mapVars, requests,
                 submitted, defaultDue, fromWorker, workerVars, storeVars>>

SuspendDrain ==
  /\ pc = "drain"
  /\ Change([w \in Workers |-> IF w \in active THEN Absent ELSE phases[w]])
  /\ active' = {}
  /\ pc' = "reply"
  /\ UNCHANGED <<step, request, target, joining, awaiting, configVersion, snapVersion,
                 chanVars, workerVars, storeVars>>

----------------------------------------------------------------------------
\* worker_comm_inbound: a report of worker w is entered into the map.

PhaseOf == [BuildComplete |-> "BuildComplete", ExecutionStarted |-> "Running",
            SnapshotStarted |-> "Snapshotting", SnapshotComplete |-> "Running",
            ReconfigurationStarted |-> "Reconfiguring", ReconfigureComplete |-> "Running",
            ExecutionComplete |-> "Completed", SuspendComplete |-> "Suspended",
            Removed |-> Absent]

Inbound(w) ==
  /\ pc # "returned" /\ fromWorker[w] # <<>>
  /\ Change([phases EXCEPT ![w] = PhaseOf[Head(fromWorker[w])]])
  /\ fromWorker' = [fromWorker EXCEPT ![w] = Tail(@)]
  /\ UNCHANGED <<loopVars, stateVars, requests, submitted, defaultDue, toWorker, workerVars,
                 storeVars>>

----------------------------------------------------------------------------
\* A worker: WorkerBuilder::execute, Worker::execute.

Report(w, ms) == fromWorker' = [fromWorker EXCEPT ![w] = @ \o ms]

\* What the worker does on a message: where it goes and what it reports.  The
\* unreachable!() arms make it panic.
ControlAfter(w, kind) ==
  CASE control[w] = "waitBuild" /\ kind = "StartBuild"     -> "waitStart"
    [] control[w] = "waitStart" /\ kind = "StartExecution" -> "running"
    [] control[w] = "running"   /\ kind = "Snapshot"       -> "snapshotting"
    [] control[w] = "running"   /\ kind = "Reconfigure"    -> "reconfiguring"
    [] control[w] = "running"   /\ kind = "Suspend"        -> "suspending"
    [] OTHER -> "panicked"
ReportAfter ==
  [waitStart |-> <<"BuildComplete">>, running |-> <<"ExecutionStarted">>,
   snapshotting |-> <<"SnapshotStarted">>, reconfiguring |-> <<"ReconfigurationStarted">>,
   suspending |-> <<>>, panicked |-> <<>>]

\* for_version: the directory of a version that is not committed is emptied.
ForVersion(w, v) ==
  IF \E i \in DOMAIN commits : commits[i] = v
  THEN written ELSE [written EXCEPT ![w][v] = None]

WorkerReceive(w) ==
  /\ control[w] \in {"waitBuild", "waitStart", "running"} /\ toWorker[w] # <<>>
  /\ LET m     == Head(toWorker[w])
         after == ControlAfter(w, m.kind)
     IN  /\ control' = [control EXCEPT ![w] = after]
         /\ job' = [job EXCEPT ![w] = m]
         /\ knownSet' = IF after \in {"waitStart", "reconfiguring"}
                        THEN [knownSet EXCEPT ![w] = m.set] ELSE knownSet
         /\ written' = IF after = "snapshotting" THEN ForVersion(w, m.version) ELSE written
         /\ Report(w, ReportAfter[after])
  /\ toWorker' = [toWorker EXCEPT ![w] = Tail(@)]
  /\ UNCHANGED <<loopVars, stateVars, mapVars, requests, submitted, defaultDue, commits, saved,
                 incarnation>>

\* perform_snapshot, perform_reconfig, perform_suspend come to their end.
WorkerFinish(w) ==
  /\ \/ /\ control[w] = "snapshotting"
        /\ written' = [written EXCEPT ![w][job[w].version] = incarnation]
        /\ control' = [control EXCEPT ![w] = "running"]
        /\ Report(w, <<"SnapshotComplete">>)
     \/ /\ control[w] = "reconfiguring" /\ w \in job[w].set
        /\ control' = [control EXCEPT ![w] = "running"]
        /\ Report(w, <<"ReconfigureComplete">>)
        /\ UNCHANGED written
     \/ /\ control[w] = "reconfiguring" /\ w \notin job[w].set
        /\ control' = [control EXCEPT ![w] = "removed"]
        /\ Report(w, <<"ReconfigureComplete", "Removed">>)
        /\ UNCHANGED written
     \/ /\ control[w] = "suspending"
        /\ control' = [control EXCEPT ![w] = "suspended"]
        /\ Report(w, <<"SuspendComplete">>)
        /\ UNCHANGED written
  /\ job' = [job EXCEPT ![w] = NoJob]
  /\ UNCHANGED <<loopVars, stateVars, mapVars, requests, submitted, defaultDue, toWorker,
                 knownSet, commits, saved, incarnation>>

\* All operators of the worker are finalized.
WorkerComplete(w) ==
  /\ Finite /\ control[w] = "running"
  /\ control' = [control EXCEPT ![w] = "completed"]
  /\ Report(w, <<"ExecutionComplete">>)
  /\ UNCHANGED <<loopVars, stateVars, mapVars, requests, submitted, defaultDue, toWorker, job,
                 knownSet, storeVars>>

\* The runtime starts a new process in the place of one that was removed.
Respawn(w) ==
  /\ control[w] = "removed" /\ pc # "returned"
  /\ control' = [control EXCEPT ![w] = "waitBuild"]
  /\ UNCHANGED <<loopVars, stateVars, mapVars, chanVars, job, knownSet, storeVars>>

----------------------------------------------------------------------------
CoordinatorStep ==
  \/ \E w \in Workers : AwaitSend(w) \/ AwaitRegister(w) \/ AwaitFired(w)
  \/ JoinDone \/ ArmCompletion \/ ReturnCompleted \/ TakeRequest \/ Reply
  \/ RegisterAll \/ WaitAll
  \/ SnapshotSend \/ SnapshotPersist \/ SnapshotCommit
  \/ ReconfigSetup \/ ReconfigSend \/ ReconfigRemove
  \/ SuspendSend \/ SuspendDrain

WorkerStep(w) ==
  WorkerReceive(w) \/ WorkerFinish(w) \/ WorkerComplete(w)

Next ==
  \/ CoordinatorStep
  \/ \E w \in Workers : Inbound(w) \/ WorkerStep(w) \/ Respawn(w)
  \/ SendDefaultScale \/ Submit \/ Crash

Spec == Init /\ [][Next]_vars

\* The runtime polls every task that can go on, channels deliver, workers do
\* not stop in the middle of an operation.
FairSpec ==
  /\ Spec
  /\ WF_vars(CoordinatorStep) /\ WF_vars(SendDefaultScale)
  /\ \A w \in Workers : WF_vars(Inbound(w)) /\ WF_vars(WorkerReceive(w) \/ WorkerFinish(w))

----------------------------------------------------------------------------
\* Safety.

\* Every snapshot that was ever committed can be restored: each worker of the
\* job at that time has written its state under that version, completely, and
\* in the same run of the job as the others and as the coordinator.
CommittedSnapshotIsComplete ==
  \A i \in DOMAIN commits :
     LET v == commits[i]
     IN  \A w \in saved[v].active : written[w][v] = saved[v].run

\* A committed snapshot is never written to again, whatever crashes.
CommittedIsImmutable ==
  [][\A i \in DOMAIN commits :
       /\ saved'[commits[i]] = saved[commits[i]]
       /\ \A w \in Workers : written'[w][commits[i]] = written[w][commits[i]]]_vars

\* Between two requests all workers of the job have the same idea of who is in
\* it, and it is the coordinator's: no worker is still reconfiguring, and none
\* works with an older worker set.
WorkersAgreeOnConfig ==
  pc = "loop" =>
    \A w \in active : control[w] \in {"running", "completed"} /\ knownSet[w] = active

\* No worker meets an unreachable!(): the coordinator never sends a message that
\* the worker's state does not expect, across rescales, removals and restarts.
NoUnreachable == \A w \in Workers : control[w] # "panicked"

\* The coordinator ends the job only when all its workers have completed, or
\* when there are none left.
ReturnsOnlyWhenDone ==
  pc = "returned" => \A w \in active : control[w] = "completed"

----------------------------------------------------------------------------
\* Liveness.

\* A snapshot that was started on the workers of a job resolves: the coordinator
\* does not miss the end of it and hang.
SnapshotResolves == pc = "snapStarted" /\ active # {} ~> pc = "persist"
============================================================================
