----------------------------- MODULE Kubernetes -----------------------------
(***************************************************************************)
(* A MalstromJob on Kubernetes: the operator that reconciles the job object *)
(* with two services and two StatefulSets, one call of the Kubernetes API   *)
(* at a time, and the coordinator pod it asks to rescale.  The API server,  *)
(* its watch and the StatefulSet controller are external: they appear as    *)
(* the calls and the pods the operator's code relies on.                    *)
(*                                                                          *)
(* A call may be refused, be applied with its answer lost, or never reach   *)
(* the server; the operator's process and the coordinator's may die between *)
(* any two steps; the user may edit or delete the job at any moment.        *)
(***************************************************************************)
EXTENDS Integers, Sequences

CONSTANTS
    MaxScale,      \* the largest number of replicas a user asks for
    InitialScales, \* the numbers of replicas a job is created with
    MaxEdits,      \* bound on the edits of spec.replicas
    MaxFaults      \* bound on failed calls and dead processes

ASSUME ScaleAssumption == MaxScale \in Nat \ {0} /\ InitialScales \subseteq 1..MaxScale
ASSUME BoundsAssumption == MaxEdits \in Nat /\ MaxFaults \in Nat

VARIABLES
    job,           \* the MalstromJob object
    cache,         \* the job as the operator's watch last saw it
    services,      \* the services that exist
    coordinatorSts,\* MALSTROM_K8S_SCALE in the coordinator's template, 0: no such set
    workerSts,     \* replicas and template of the worker StatefulSet
    op,            \* the reconciliation that is running
    pods,          \* the template each worker pod was made from, 0: no such pod
    coord,         \* the coordinator's process
    committed,     \* workers in the last committed snapshot, 0: none
    edits, faults, \* consumed bounds
    disturbed,     \* history: what has come between operator and coordinator
    lost           \* history: why resources may outlive the job

cluster == <<job, cache, services, coordinatorSts, workerSts>>
runtime == <<pods, coord, committed>>
vars == <<cluster, op, runtime, edits, faults, disturbed, lost>>

Scales == 1..MaxScale
Ordinals == 0..(MaxScale - 1)
NoSts == [replicas |-> 0, scale |-> 0]

-----------------------------------------------------------------------------
(* The resources of a job.  Both templates carry the scale in the           *)
(* environment of the main container, the worker set in its replicas too.   *)

CoordinatorSvc == "coordinator"
WorkerSvc == "worker"
CoordinatorTemplate(n) == n
WorkerTemplate(n) == n
CoordinatorSts(n) == CoordinatorTemplate(n)
WorkerSts(n) == [replicas |-> n, scale |-> WorkerTemplate(n)]

(* A process of the coordinator: the workers of its job, the requests it    *)
(* has not served (those of its own and those of the operator's calls) and  *)
(* whether the job runs.  A pod that does not exist has no process.         *)
NoProcess == [up |-> FALSE, scale |-> 0, env |-> 0, started |-> FALSE, requests |-> <<>>]

(* Coordinator::execute: the workers of the last committed snapshot, and    *)
(* only without any a request for the scale of the environment.             *)
Execute(env) ==
    [up |-> TRUE, scale |-> committed, env |-> env, started |-> FALSE,
     requests |-> IF committed = 0 THEN <<[desired |-> env, api |-> FALSE]>>
                                   ELSE <<>>]

Idle == [decision |-> "NoOp", pc |-> "idle", spec |-> 0, deployed |-> 0, answer |-> "none"]

Init ==
    \E n \in InitialScales :
        /\ job = [exists |-> TRUE, replicas |-> n, deleting |-> FALSE, finalizer |-> FALSE]
        /\ cache = job
        /\ services = {}
        /\ coordinatorSts = 0
        /\ workerSts = NoSts
        /\ op = Idle
        /\ pods = [o \in Ordinals |-> 0]
        /\ coord = NoProcess
        /\ committed = 0
        /\ edits = 0 /\ faults = 0
        /\ disturbed = "no" /\ lost = {}

-----------------------------------------------------------------------------
(* The user and the watch. *)

UserRescales ==
    /\ job.exists /\ ~job.deleting /\ edits < MaxEdits
    /\ \E n \in Scales \ {job.replicas} : job' = [job EXCEPT !.replicas = n]
    /\ edits' = edits + 1
    /\ UNCHANGED <<cache, services, coordinatorSts, workerSts, op, runtime, faults,
                   disturbed, lost>>

Gone == [job EXCEPT !.exists = FALSE, !.deleting = FALSE, !.finalizer = FALSE]

(* The object of a job without a finalizer goes away at once. *)
UserDeletes ==
    /\ job.exists /\ ~job.deleting
    /\ job' = IF job.finalizer THEN [job EXCEPT !.deleting = TRUE] ELSE Gone
    /\ lost' = IF job.finalizer THEN lost ELSE lost \cup {"unguarded"}
    /\ UNCHANGED <<cache, services, coordinatorSts, workerSts, op, runtime, edits,
                   faults, disturbed>>

Watch ==
    /\ cache # job
    /\ cache' = job
    /\ UNCHANGED <<job, services, coordinatorSts, workerSts, op, runtime, edits,
                   faults, disturbed, lost>>

-----------------------------------------------------------------------------
(* The operator: make_decision, then the calls of the decision in order.    *)

MakeDecisionClusterFirst ==
    IF workerSts = NoSts /\ cache.finalizer THEN "NoOp"
    ELSE IF cache.deleting THEN "Delete"
    ELSE IF ~cache.finalizer THEN "Put"
    ELSE IF workerSts.replicas # cache.replicas THEN "Patch" ELSE "NoOp"
MakeDecisionGrowOnly ==
    IF cache.deleting THEN "Delete"
    ELSE IF ~cache.finalizer THEN "Put"
    ELSE IF workerSts # NoSts /\ workerSts.replicas < cache.replicas THEN "Patch" ELSE "NoOp"

MakeDecision ==
    IF cache.deleting THEN "Delete"
    ELSE IF ~cache.finalizer THEN "Put"
    ELSE IF workerSts # NoSts /\ workerSts.replicas # cache.replicas THEN "Patch"
    ELSE "NoOp"

FirstCall(decision) ==
    CASE decision = "Delete" -> "delete_coordinator_svc"
      [] decision \in {"Put", "Patch"} -> "coordinator_svc"
      [] OTHER -> "idle"

(* The call after the one at o.pc, when that one has succeeded. *)
CreateCall(o) ==
    CASE o.pc = "coordinator_svc" -> "worker_svc"
      [] o.pc = "worker_svc" -> "coordinator_sts"
      [] o.pc = "coordinator_sts" -> "worker_sts"
      [] o.pc = "worker_sts" -> "status"
      [] o.pc = "status" -> "add_finalizer"
      [] OTHER -> "idle"

(* perform_rescale: pods first to grow, the coordinator first to shrink. *)
RescaleCall(o) ==
    LET grows == o.spec > o.deployed IN
    CASE o.pc = "connect" -> IF grows THEN "scale_sts" ELSE "rescale"
      [] o.pc = "scale_sts" -> IF grows THEN "rescale" ELSE "coordinator_sts"
      [] o.pc = "rescale" -> "reply"
      [] o.pc = "reply" -> IF grows THEN "coordinator_sts" ELSE "scale_sts"

PatchCall(o) ==
    CASE o.pc = "coordinator_svc" -> "worker_svc"
      [] o.pc = "worker_svc" -> "get"
      [] o.pc = "get" -> IF o.deployed # o.spec THEN "connect" ELSE "coordinator_sts"
      [] o.pc \in {"connect", "scale_sts", "rescale", "reply"} -> RescaleCall(o)
      [] o.pc = "coordinator_sts" -> "worker_sts"
      [] o.pc = "worker_sts" -> "status"
      [] OTHER -> "idle"

DeleteCall(o) ==
    CASE o.pc = "delete_coordinator_svc" -> "delete_worker_svc"
      [] o.pc = "delete_worker_svc" -> "delete_coordinator_sts"
      [] o.pc = "delete_coordinator_sts" -> "delete_worker_sts"
      [] o.pc = "delete_worker_sts" -> "delete_finalizer"
      [] OTHER -> "idle"

CallAfter(o) ==
    CASE o.decision = "Put" -> CreateCall(o)
      [] o.decision = "Patch" -> PatchCall(o)
      [] o.decision = "Delete" -> DeleteCall(o)
      [] OTHER -> "idle"

(* Mutants: pods are removed before the coordinator is asked; the worker    *)
(* StatefulSet is not deleted.                                              *)
NextCallPodsFirst(o) ==
    CASE o.pc = "connect" -> "scale_sts"
      [] o.pc = "scale_sts" -> "rescale"
      [] o.pc = "reply" -> "coordinator_sts"
      [] OTHER -> CallAfter(o)
NextCallForgetsWorkers(o) ==
    IF o.pc = "delete_coordinator_sts" THEN "delete_finalizer" ELSE CallAfter(o)

NextCall(o) == CallAfter(o)

Advanced(o) == IF NextCall(o) = "idle" THEN Idle ELSE [o EXCEPT !.pc = NextCall(o)]

Deletions == {"delete_coordinator_svc", "delete_worker_svc", "delete_coordinator_sts",
              "delete_worker_sts"}
ApiCalls == Deletions \cup {"coordinator_svc", "worker_svc", "get", "connect", "scale_sts",
                            "coordinator_sts", "worker_sts", "status", "add_finalizer",
                            "delete_finalizer"}

Reconcile ==
    /\ op.pc = "idle" /\ cache.exists
    /\ MakeDecision # "NoOp"
    /\ op' = [Idle EXCEPT !.decision = MakeDecision, !.pc = FirstCall(MakeDecision),
                          !.spec = cache.replicas]
    /\ UNCHANGED <<cluster, runtime, edits, faults, disturbed, lost>>

(* What the server does when the call at op.pc reaches it. *)
AppliedServices ==
    CASE op.pc = "coordinator_svc" -> services \cup {CoordinatorSvc}
      [] op.pc = "worker_svc" -> services \cup {WorkerSvc}
      [] op.pc = "delete_coordinator_svc" -> services \ {CoordinatorSvc}
      [] op.pc = "delete_worker_svc" -> services \ {WorkerSvc}
      [] OTHER -> services

AppliedCoordinatorSts ==
    CASE op.pc = "coordinator_sts" -> CoordinatorSts(op.spec)
      [] op.pc = "delete_coordinator_sts" -> 0
      [] OTHER -> coordinatorSts

AppliedWorkerSts ==
    CASE op.pc = "worker_sts" -> WorkerSts(op.spec)
      [] op.pc = "scale_sts" -> [workerSts EXCEPT !.replicas = op.spec]
      [] op.pc = "delete_worker_sts" -> NoSts
      [] OTHER -> workerSts

AppliedFinalizer ==
    CASE op.pc = "add_finalizer" -> [job EXCEPT !.finalizer = TRUE]
      [] op.pc = "delete_finalizer" -> Gone
      [] OTHER -> job

Applied ==
    /\ services' = AppliedServices
    /\ coordinatorSts' = AppliedCoordinatorSts
    /\ workerSts' = AppliedWorkerSts
    /\ job' = AppliedFinalizer
    /\ cache' = cache

(* Calls on the job object find none once it is gone; the coordinator is    *)
(* reached through its service.                                             *)
Accepted ==
    /\ op.pc \in {"add_finalizer", "status", "delete_finalizer"} => job.exists
    /\ op.pc \in {"get", "scale_sts"} => workerSts # NoSts
    /\ op.pc = "connect" => coord.up /\ CoordinatorSvc \in services

(* The scale the coordinator will have when it has served its requests, or  *)
(* will start with.                                                         *)
Target ==
    IF ~coord.up THEN (IF committed # 0 THEN committed ELSE coordinatorSts)
    ELSE IF coord.requests = <<>> THEN coord.scale
    ELSE coord.requests[Len(coord.requests)].desired

(* A job created a second time with another scale does not pass by the      *)
(* coordinator.  No fault is needed for it: the operator creates the job    *)
(* until its watch has seen the finalizer.                                  *)
Bypassed ==
    /\ op.decision = "Put"
    /\ \/ op.pc = "coordinator_sts" /\ workerSts.replicas \notin {0, op.spec}
       \/ op.pc = "worker_sts" /\ Target # op.spec

(* A change that ends half way is not taken up again when the replicas of   *)
(* the StatefulSet are the ones of the job.  A call that fails, or finds no *)
(* coordinator because its pod is being replaced, is enough.                *)
HalfDone ==
    /\ op.decision \in {"Put", "Patch"} /\ workerSts # NoSts
    /\ workerSts'.replicas # Target'

(* What comes between operator and coordinator, until an answered rescale   *)
(* brings them together: a change was cut in two.                           *)
CutIf(condition) == IF condition THEN "cut" ELSE disturbed

ApiCall ==
    /\ op.pc \in ApiCalls /\ Accepted
    /\ Applied
    /\ LET o == IF op.pc = "get" THEN [op EXCEPT !.deployed = workerSts.replicas] ELSE op
       IN  op' = Advanced(o)
    /\ disturbed' = CutIf(Bypassed)
    /\ UNCHANGED <<runtime, edits, faults, lost>>

RequestDifference(o) == [desired |-> o.deployed - o.spec, api |-> TRUE]
RequestDeployed(o) == [desired |-> o.deployed, api |-> TRUE]
Request(o) == [desired |-> o.spec, api |-> TRUE]

(* CoordinatorOperatorService::rescale: the request waits for the           *)
(* coordinator, the operator for the answer.                                *)
Rescale ==
    /\ op.pc = "rescale" /\ coord.up
    /\ coord' = [coord EXCEPT !.requests = Append(@, Request(op))]
    /\ op' = Advanced(op)
    /\ UNCHANGED <<cluster, pods, committed, edits, faults, disturbed, lost>>

Reply ==
    /\ op.pc = "reply" /\ op.answer = "ok"
    /\ op' = Advanced([op EXCEPT !.answer = "none"])
    /\ UNCHANGED <<cluster, runtime, edits, faults, disturbed, lost>>

(* A call that cannot be done: on_error queues the job again. *)
OnError ==
    /\ \/ op.pc \in ApiCalls /\ ~Accepted
       \/ op.pc = "rescale" /\ ~coord.up
       \/ op.pc = "reply" /\ op.answer = "error"
    /\ op' = Idle
    /\ UNCHANGED <<cluster, runtime, edits, faults, lost>>
    /\ disturbed' = CutIf(HalfDone)

(* Nobody waits for the answer of the coordinator any more. *)
Unawaited(c) ==
    [c EXCEPT !.requests = [i \in DOMAIN @ |-> [@[i] EXCEPT !.api = FALSE]]]

(* A call fails, or the operator dies: before or after the server has done  *)
(* what the call asks for.                                                  *)
FailedCall ==
    /\ op.pc # "idle" /\ faults < MaxFaults
    /\ \/ UNCHANGED cluster
       \/ op.pc \in ApiCalls /\ Accepted /\ Applied
    /\ op' = Idle
    /\ coord' = Unawaited(coord)
    /\ faults' = faults + 1
    /\ UNCHANGED <<pods, committed, edits, lost>>
    /\ disturbed' = CutIf(Bypassed \/ HalfDone)

(* job::delete returns an error only when the server has answered one: a    *)
(* deletion that never reached the server counts as done.                   *)
SwallowedError ==
    /\ op.pc \in Deletions /\ faults < MaxFaults
    /\ op' = Advanced(op)
    /\ faults' = faults + 1
    /\ lost' = lost \cup {"swallowed"}
    /\ UNCHANGED <<cluster, runtime, edits, disturbed>>

Operator == Reconcile \/ ApiCall \/ Rescale \/ Reply \/ OnError

-----------------------------------------------------------------------------
(* The StatefulSet controller: pods are made and removed in parallel, and   *)
(* replaced when the template has changed.                                  *)

CreatePod(o) ==
    /\ o < workerSts.replicas /\ pods[o] = 0
    /\ pods' = [pods EXCEPT ![o] = workerSts.scale]
    /\ UNCHANGED <<cluster, op, coord, committed, edits, faults, disturbed, lost>>

RemovePod(o) ==
    /\ pods[o] # 0
    /\ o >= workerSts.replicas \/ pods[o] # workerSts.scale
    /\ pods' = [pods EXCEPT ![o] = 0]
    /\ UNCHANGED <<cluster, op, coord, committed, edits, faults, disturbed, lost>>

StartCoordinator ==
    /\ coordinatorSts # 0 /\ ~coord.up
    /\ coord' = Execute(coordinatorSts)
    /\ UNCHANGED <<cluster, op, pods, committed, edits, faults, disturbed, lost>>

(* The process ends: whoever waits for an answer gets an error, and the     *)
(* next process knows the committed snapshot only.                          *)
CoordinatorEnds ==
    /\ coord' = NoProcess
    /\ op' = IF op.pc = "reply" /\ op.answer = "none"
              THEN [op EXCEPT !.answer = "error"] ELSE op
    /\ UNCHANGED <<cluster, pods, committed, edits, lost>>

(* The scale is in the environment of the pod, so every rescale replaces    *)
(* the coordinator's pod, and no fault is needed for a process that begins  *)
(* again with the workers of the last committed snapshot.                   *)
ReplaceCoordinator ==
    /\ coord.up /\ coord.env # coordinatorSts
    /\ CoordinatorEnds
    /\ disturbed' = IF Target' # Target /\ disturbed = "no" THEN "reverted" ELSE disturbed
    /\ UNCHANGED faults

CoordinatorDies ==
    /\ coord.up /\ faults < MaxFaults
    /\ CoordinatorEnds
    /\ disturbed' = CutIf(Target' # Target)
    /\ faults' = faults + 1

Controller ==
    \/ \E o \in Ordinals : CreatePod(o) \/ RemovePod(o)
    \/ StartCoordinator \/ ReplaceCoordinator

-----------------------------------------------------------------------------
(* The coordinator's process: it waits for every worker of its job to       *)
(* build, then serves one request at a time.                                *)

Present(n) == \A o \in Ordinals : o < n => pods[o] # 0

StartJob ==
    /\ coord.up /\ ~coord.started /\ Present(coord.scale)
    /\ coord' = [coord EXCEPT !.started = TRUE]
    /\ UNCHANGED <<cluster, op, pods, committed, edits, faults, disturbed, lost>>

(* The workers a request needs: none when it changes nothing. *)
Needed(desired) ==
    IF desired = coord.scale THEN 0
    ELSE IF desired > coord.scale THEN desired ELSE coord.scale

ServeRescale ==
    /\ coord.up /\ coord.started /\ coord.requests # <<>>
    /\ LET r == Head(coord.requests) IN
       /\ Present(Needed(r.desired))
       /\ coord' = [coord EXCEPT !.scale = r.desired, !.requests = Tail(@)]
       /\ op' = IF r.api THEN [op EXCEPT !.answer = "ok"] ELSE op
       /\ disturbed' = IF r.api THEN "no" ELSE disturbed
    /\ UNCHANGED <<cluster, pods, committed, edits, faults, lost>>

AutoSnapshot ==
    /\ coord.up /\ coord.started /\ coord.scale # 0 /\ Present(coord.scale)
    /\ committed # coord.scale
    /\ committed' = coord.scale
    /\ UNCHANGED <<cluster, op, pods, coord, edits, faults, disturbed, lost>>

CoordinatorStep == StartJob \/ ServeRescale

Next ==
    \/ UserRescales \/ UserDeletes \/ Watch
    \/ Operator \/ FailedCall \/ SwallowedError
    \/ Controller \/ CoordinatorDies
    \/ CoordinatorStep \/ AutoSnapshot

Spec == Init /\ [][Next]_vars

(* The watch delivers, a reconciliation that has ended is queued again      *)
(* (after 5 or 10 seconds), the controller and the coordinator's loop run.  *)
FairSpec == Spec /\ WF_vars(Watch) /\ WF_vars(Operator)
                 /\ WF_vars(Controller) /\ WF_vars(CoordinatorStep)

-----------------------------------------------------------------------------
(* Properties *)

(* Every variable has its type. *)
TypeOK ==
    /\ job \in [exists : BOOLEAN, replicas : Scales, deleting : BOOLEAN,
                finalizer : BOOLEAN]
    /\ cache \in [exists : BOOLEAN, replicas : Scales, deleting : BOOLEAN,
                  finalizer : BOOLEAN]
    /\ services \subseteq {CoordinatorSvc, WorkerSvc}
    /\ coordinatorSts \in 0..MaxScale
    /\ workerSts \in [replicas : 0..MaxScale, scale : 0..MaxScale]
    /\ op \in [decision : {"Put", "Delete", "Patch", "NoOp"},
               pc : ApiCalls \cup {"idle", "rescale", "reply"},
               spec : 0..MaxScale, deployed : 0..MaxScale,
               answer : {"none", "ok", "error"}]
    /\ pods \in [Ordinals -> 0..MaxScale]
    /\ coord \in [up : BOOLEAN, scale : 0..MaxScale, env : 0..MaxScale,
                  started : BOOLEAN,
                  requests : Seq([desired : Scales, api : BOOLEAN])]
    /\ committed \in 0..MaxScale
    /\ edits \in 0..MaxEdits /\ faults \in 0..MaxFaults
    /\ disturbed \in {"no", "reverted", "cut"}
    /\ lost \subseteq {"unguarded", "swallowed"}

(* A job that is gone leaves nothing behind, however often its              *)
(* reconciliations failed or the operator died: the finalizer holds the     *)
(* object until both services and both StatefulSets are deleted             *)
(* (reconcile, job::delete).  The two ways out are named: the job was       *)
(* deleted before the operator had set the finalizer, which it does last,   *)
(* or job::delete took a deletion that never reached the server for done.   *)
NoOrphans ==
    ~job.exists /\ lost = {} =>
        services = {} /\ coordinatorSts = 0 /\ workerSts = NoSts

(* What a process has that begins with the committed workers, or without    *)
(* any with the scale of its environment.                                   *)
Resumed ==
    IF committed # 0 THEN committed ELSE IF coord.up THEN coord.env ELSE coordinatorSts

(* A pod that goes away for good although the coordinator counts its worker *)
(* in a job that is to stay.                                                *)
CountedPodRemoved(o) ==
    /\ pods[o] # 0 /\ pods'[o] = 0
    /\ o >= workerSts.replicas
    /\ job.exists /\ ~job.deleting /\ lost = {}
    /\ coord.up /\ o < coord.scale

(* perform_rescale, "scale down: 1. Instruct coordinator to remove          *)
(* worker(s), 2. Remove pods": no pod is taken away for good while a        *)
(* coordinator counts its worker.  Two things break this.  A rescale or a   *)
(* creation was cut in two (Bypassed, HalfDone, CoordinatorDies).  Or the   *)
(* coordinator's pod was replaced, which needs no fault: then it counts     *)
(* exactly the workers it has resumed with.                                 *)
NoCountedPodRemoved ==
    [][\A o \in Ordinals : CountedPodRemoved(o) =>
         disturbed = "cut" \/ (disturbed = "reverted" /\ coord.scale = Resumed)]_vars

(* Between reconciliations the coordinator runs, or is about to run, the    *)
(* job on as many workers as the StatefulSet has pods, although the         *)
(* operator never compares the two (compare_with_cluster reads the          *)
(* StatefulSet only).  The exceptions: a rescale or a creation was cut in   *)
(* two (Bypassed, HalfDone, CoordinatorDies), or the coordinator's pod was  *)
(* replaced after the rescale and has resumed with the committed workers    *)
(* instead, which happens without any fault.                                *)
CoordinatorAgrees ==
    /\ op.pc = "idle" /\ disturbed # "cut"
    /\ job.exists /\ job.finalizer /\ ~job.deleting
    => \/ Target = workerSts.replicas
       \/ disturbed = "reverted" /\ Target = Resumed

(* The operator waits for an answer of a coordinator that waits for a pod   *)
(* the StatefulSet will not make.  The request has no timeout, and a job is *)
(* reconciled once at a time: nothing else happens to this job.             *)
Stuck ==
    /\ op.pc = "reply" /\ op.answer = "none" /\ coord.up
    /\ LET n == IF ~coord.started THEN coord.scale ELSE Needed(Head(coord.requests).desired)
       IN  \E o \in Ordinals : o < n /\ o >= workerSts.replicas /\ pods[o] = 0

(* A deleted job goes away, whatever failed before, unless the operator is  *)
(* stuck for ever in a rescale (api_client.rescale is awaited without a     *)
(* timeout, patch.rs).                                                      *)
DeletionCompletes == <>[](job.deleting => Stuck)

(* The user guide, "simply change spec.replicas [...] The operator will     *)
(* then automatically take care of rescaling the job": in the end there is  *)
(* one pod for every replica the job asks for and no other, unless the      *)
(* operator is stuck.                                                       *)
PodsFollowJob ==
    <>[](job.exists /\ ~job.deleting /\ ~Stuck =>
            /\ workerSts.replicas = job.replicas
            /\ \A o \in Ordinals : (pods[o] # 0) = (o < job.replicas))
=============================================================================
