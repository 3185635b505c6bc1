-------------------------- MODULE KubernetesProofs --------------------------
(***************************************************************************)
(* Proofs about module Kubernetes, for every number of replicas and every  *)
(* number of edits and faults: the types, that a job whose deletion was    *)
(* guarded by the finalizer leaves nothing behind, that the operator and   *)
(* the coordinator agree on the scale between reconciliations, and that no *)
(* pod of a worker the coordinator counts is taken away.                   *)
(***************************************************************************)
EXTENDS Kubernetes, SequenceTheorems, TLAPS

JobType == [exists : BOOLEAN, replicas : Scales, deleting : BOOLEAN, finalizer : BOOLEAN]
Requests == [desired : Scales, api : BOOLEAN]
OpType == [decision : {"Put", "Delete", "Patch", "NoOp"},
           pc : ApiCalls \cup {"idle", "rescale", "reply"},
           spec : 0..MaxScale, deployed : 0..MaxScale, answer : {"none", "ok", "error"}]
CoordType == [up : BOOLEAN, scale : 0..MaxScale, env : 0..MaxScale,
              started : BOOLEAN, requests : Seq(Requests)]

PutCalls == {"coordinator_svc", "worker_svc", "coordinator_sts", "worker_sts", "status",
             "add_finalizer"}
PatchCalls == {"coordinator_svc", "worker_svc", "get", "connect", "scale_sts", "rescale",
               "reply", "coordinator_sts", "worker_sts", "status"}
DeleteCalls == Deletions \cup {"delete_finalizer"}

\* The operator makes only the calls of its decision, with a scale of the job.
ProperCall(o) ==
  /\ o.decision = "NoOp" => o.pc = "idle"
  /\ o.decision = "Put" => o.pc \in PutCalls
  /\ o.decision = "Patch" => o.pc \in PatchCalls
  /\ o.decision = "Delete" => o.pc \in DeleteCalls
  /\ o.pc # "idle" => o.spec \in Scales

\* What the calls of a deletion have removed stays removed: nobody else makes
\* resources, and only one reconciliation of a job runs at a time.
DeletionProgress ==
  op.decision = "Delete" /\ lost = {} =>
    /\ op.pc # "delete_coordinator_svc" => CoordinatorSvc \notin services
    /\ op.pc \in {"delete_coordinator_sts", "delete_worker_sts", "delete_finalizer"} =>
         services = {}
    /\ op.pc \in {"delete_worker_sts", "delete_finalizer"} => coordinatorSts = 0
    /\ op.pc = "delete_finalizer" => workerSts = NoSts

Doomed(j) == j.deleting \/ ~j.exists

\* A deletion is not taken back: the operator deletes only what is to be
\* deleted, the watch is never ahead of the server, and once a guarded job is
\* gone no reconciliation makes resources for it.
NoWayBack ==
  /\ op.decision = "Delete" => Doomed(job) /\ Doomed(cache)
  /\ Doomed(cache) => Doomed(job)
  /\ ~job.exists /\ lost = {} => op.decision \in {"Delete", "NoOp"} /\ Doomed(cache)

IInv == TypeOK /\ ProperCall(op) /\ DeletionProgress /\ NoWayBack /\ NoOrphans

-----------------------------------------------------------------------------
(* The operators the actions are built from.                               *)

LEMMA TypeOKShape ==
  TypeOK <=> /\ job \in JobType /\ cache \in JobType
             /\ services \subseteq {CoordinatorSvc, WorkerSvc}
             /\ coordinatorSts \in 0..MaxScale
             /\ workerSts \in [replicas : 0..MaxScale, scale : 0..MaxScale]
             /\ op \in OpType
             /\ pods \in [Ordinals -> 0..MaxScale]
             /\ coord \in CoordType
             /\ committed \in 0..MaxScale
             /\ edits \in 0..MaxEdits /\ faults \in 0..MaxFaults
             /\ disturbed \in {"no", "reverted", "cut"}
             /\ lost \subseteq {"unguarded", "swallowed"}
  BY Zenon DEF TypeOK, JobType, OpType, CoordType, Requests

LEMMA ScalesAreCounts == Scales \subseteq 0..MaxScale /\ 0 \in 0..MaxScale
  BY ScaleAssumption DEF Scales

LEMMA IdleIsProper == Idle \in OpType /\ ProperCall(Idle)
  BY ScalesAreCounts DEF Idle, OpType, ProperCall, Scales

LEMMA NextCallIsProper ==
  ASSUME NEW o \in OpType, ProperCall(o), o.pc # "idle"
  PROVE  Advanced(o) \in OpType /\ ProperCall(Advanced(o))
<1>1. CASE NextCall(o) = "idle"
  BY <1>1, IdleIsProper DEF Advanced
<1>2. CASE NextCall(o) # "idle"
  <2>1. o.decision \in {"Put", "Patch", "Delete"}
    BY DEF ProperCall, OpType
  <2>2. CASE o.decision = "Put"
    <3>1. o.pc \in PutCalls
      BY <2>2 DEF ProperCall
    <3>2. NextCall(o) \in PutCalls \cup {"idle"}
      BY <2>2, <3>1 DEF NextCall, CallAfter, CreateCall, PutCalls
    <3> QED BY <1>2, <2>2, <3>2 DEF Advanced, OpType, ProperCall, PutCalls, ApiCalls
  <2>3. CASE o.decision = "Patch"
    <3>1. o.pc \in PatchCalls
      BY <2>3 DEF ProperCall
    <3>2. PatchCall(o) \in PatchCalls \cup {"idle"}
      BY <3>1 DEF PatchCall, RescaleCall, PatchCalls
    <3>3. NextCall(o) \in PatchCalls
      BY <1>2, <2>3, <3>2 DEF NextCall, CallAfter
    <3> QED BY <1>2, <2>3, <3>3 DEF Advanced, OpType, ProperCall, PatchCalls, ApiCalls
  <2>4. CASE o.decision = "Delete"
    <3>1. o.pc \in DeleteCalls
      BY <2>4 DEF ProperCall
    <3>2. NextCall(o) \in DeleteCalls \cup {"idle"}
      BY <2>4, <3>1 DEF NextCall, CallAfter, DeleteCall, DeleteCalls, Deletions
    <3> QED BY <1>2, <2>4, <3>2 DEF Advanced, OpType, ProperCall, DeleteCalls, Deletions, ApiCalls
  <2> QED BY <2>1, <2>2, <2>3, <2>4
<1> QED BY <1>1, <1>2

-----------------------------------------------------------------------------
(* Parts of the state that the steps of one process leave alone.           *)

\* What the invariant says about deletion depends on the cluster, the
\* operator and lost alone.
DeletionInv == ProperCall(op) /\ DeletionProgress /\ NoWayBack /\ NoOrphans

LEMMA RuntimeStepsKeepDeletion ==
  ASSUME DeletionInv, UNCHANGED <<cluster, lost>>,
         op' = op \/ op' = [op EXCEPT !.answer = op'.answer], op \in OpType
  PROVE  DeletionInv'
<1>1. op'.decision = op.decision /\ op'.pc = op.pc /\ op'.spec = op.spec
  BY DEF OpType
<1> QED
  BY <1>1 DEF DeletionInv, ProperCall, DeletionProgress, NoWayBack, NoOrphans, Doomed, cluster

-----------------------------------------------------------------------------
(* The user and the watch.                                                 *)

LEMMA UserRescalesStep ==
  ASSUME IInv, UserRescales  PROVE IInv'
<1> USE TypeOKShape
<1>1. TypeOK'
  <2>1. job' \in JobType /\ edits' \in 0..MaxEdits
    BY BoundsAssumption DEF IInv, UserRescales, JobType
  <2> QED BY <2>1 DEF IInv, UserRescales, runtime, TypeOK, JobType
<1>2. Doomed(job)' <=> Doomed(job)
  BY DEF IInv, UserRescales, Doomed, JobType
<1>3. job'.exists = job.exists
  BY DEF IInv, UserRescales, JobType
<1> QED
  BY <1>1, <1>2, <1>3 DEF IInv, UserRescales, runtime, ProperCall, DeletionProgress, NoWayBack,
                          NoOrphans, Doomed

LEMMA UserDeletesStep ==
  ASSUME IInv, UserDeletes  PROVE IInv'
<1>1. job \in JobType /\ Gone \in JobType
  BY DEF IInv, TypeOK, JobType, Gone
<1>2. job' \in JobType
  BY <1>1 DEF UserDeletes, JobType
<1>3. lost' \subseteq {"unguarded", "swallowed"}
  BY DEF IInv, TypeOK, UserDeletes
<1>4. TypeOK'
  BY <1>2, <1>3 DEF IInv, TypeOK, JobType, UserDeletes, runtime
<1>5. Doomed(job')
  BY <1>1 DEF UserDeletes, Gone, JobType, Doomed
<1>6. CASE job.finalizer
  <2>1. job'.exists /\ lost' = lost
    BY <1>1, <1>6 DEF UserDeletes, JobType
  <2> QED
    BY <1>4, <1>5, <2>1 DEF IInv, UserDeletes, runtime, ProperCall, DeletionProgress, NoWayBack,
                            NoOrphans, Doomed
<1>7. CASE ~job.finalizer
  <2>1. lost' # {}
    BY <1>7 DEF UserDeletes
  <2> QED
    BY <1>4, <1>5, <2>1 DEF IInv, UserDeletes, runtime, ProperCall, DeletionProgress, NoWayBack,
                            NoOrphans, Doomed
<1> QED BY <1>6, <1>7

LEMMA WatchStep ==
  ASSUME IInv, Watch  PROVE IInv'
<1>1. TypeOK'
  BY DEF IInv, TypeOK, Watch, runtime
<1> QED
  BY <1>1 DEF IInv, Watch, runtime, ProperCall, DeletionProgress, NoWayBack, NoOrphans, Doomed

-----------------------------------------------------------------------------
(* The operator.                                                           *)

LEMMA ReconcileStep ==
  ASSUME IInv, Reconcile  PROVE IInv'
<1>1. MakeDecision \in {"Put", "Delete", "Patch"}
  BY DEF Reconcile, MakeDecision
<1>2. MakeDecision = "Delete" <=> cache.deleting
  BY DEF MakeDecision
<1>3. FirstCall(MakeDecision) = IF MakeDecision = "Delete" THEN "delete_coordinator_svc"
                                                          ELSE "coordinator_svc"
  BY <1>1 DEF FirstCall
<1>4. op' = [decision |-> MakeDecision, pc |-> FirstCall(MakeDecision), spec |-> cache.replicas,
             deployed |-> 0, answer |-> "none"]
  BY DEF Reconcile, Idle
<1>5. cache.replicas \in Scales
  BY DEF IInv, TypeOK
<1>6. op' \in OpType
  BY <1>1, <1>3, <1>4, <1>5, ScalesAreCounts DEF OpType, ApiCalls, Deletions
<1>7. ProperCall(op)'
  BY <1>1, <1>3, <1>4, <1>5 DEF ProperCall, PutCalls, PatchCalls, DeleteCalls, Deletions
<1>8. TypeOK'
  BY <1>6 DEF IInv, TypeOK, Reconcile, cluster, runtime, OpType
<1>9. DeletionProgress'
  BY <1>3, <1>4 DEF DeletionProgress
<1>10. NoWayBack'
  BY <1>2, <1>4, <1>1 DEF NoWayBack, IInv, Reconcile, cluster, Doomed
<1>11. NoOrphans'
  BY DEF IInv, NoOrphans, Reconcile, cluster
<1> QED BY <1>7, <1>8, <1>9, <1>10, <1>11 DEF IInv

LEMMA AppliedType ==
  ASSUME TypeOK, ProperCall(op), op.pc \in ApiCalls, Applied
  PROVE  /\ job' \in JobType /\ cache' \in JobType
         /\ services' \subseteq {CoordinatorSvc, WorkerSvc}
         /\ coordinatorSts' \in 0..MaxScale
         /\ workerSts' \in [replicas : 0..MaxScale, scale : 0..MaxScale]
<1>1. op.spec \in 0..MaxScale
  BY DEF TypeOK
<1>2. job \in JobType /\ Gone \in JobType /\ [job EXCEPT !.finalizer = TRUE] \in JobType
  BY DEF TypeOK, JobType, Gone
<1>3. job' \in JobType
  <2>1. job' \in {[job EXCEPT !.finalizer = TRUE], Gone, job}
    BY DEF Applied, AppliedFinalizer
  <2> QED BY <1>2, <2>1
<1>4. cache' \in JobType
  BY DEF TypeOK, JobType, Applied
<1>5. services' \subseteq {CoordinatorSvc, WorkerSvc}
  <2>1. services' \in {services \cup {CoordinatorSvc}, services \cup {WorkerSvc},
                       services \ {CoordinatorSvc}, services \ {WorkerSvc}, services}
    BY DEF Applied, AppliedServices
  <2> QED BY <2>1 DEF TypeOK
<1>6. coordinatorSts' \in 0..MaxScale
  <2>1. coordinatorSts' \in {op.spec, 0, coordinatorSts}
    BY DEF Applied, AppliedCoordinatorSts, CoordinatorSts, CoordinatorTemplate
  <2> QED BY <1>1, <2>1, ScalesAreCounts DEF TypeOK
<1>7. workerSts' \in [replicas : 0..MaxScale, scale : 0..MaxScale]
  <2>1. workerSts' \in {[replicas |-> op.spec, scale |-> op.spec],
                        [workerSts EXCEPT !.replicas = op.spec],
                        [replicas |-> 0, scale |-> 0], workerSts}
    BY DEF Applied, AppliedWorkerSts, WorkerSts, WorkerTemplate, NoSts
  <2>2. workerSts \in [replicas : 0..MaxScale, scale : 0..MaxScale]
    BY DEF TypeOK
  <2> QED BY <1>1, <2>1, <2>2, ScalesAreCounts
<1> QED BY <1>3, <1>4, <1>5, <1>6, <1>7

\* Only the last call of a deletion removes the job.
LEMMA AppliedJob ==
  ASSUME TypeOK, Applied
  PROVE  /\ op.pc = "delete_finalizer" => ~job'.exists /\ ~job'.deleting
         /\ op.pc # "delete_finalizer" => job'.exists = job.exists /\ job'.deleting = job.deleting
<1>1. job \in JobType
  BY DEF TypeOK, JobType
<1>2. CASE op.pc = "delete_finalizer"
  <2>1. job' = Gone
    BY <1>2 DEF Applied, AppliedFinalizer
  <2> QED BY <1>1, <1>2, <2>1 DEF Gone, JobType
<1>3. CASE op.pc # "delete_finalizer"
  <2>1. job' \in {[job EXCEPT !.finalizer = TRUE], job}
    BY <1>3 DEF Applied, AppliedFinalizer
  <2> QED BY <1>1, <1>3, <2>1 DEF JobType
<1> QED BY <1>2, <1>3

\* A call of a deletion removes its resource and makes none.
LEMMA AppliedDeletion ==
  ASSUME TypeOK, op.pc \in DeleteCalls, Applied
  PROVE  /\ services' \subseteq services
         /\ coordinatorSts' \in {0, coordinatorSts}
         /\ workerSts' \in {NoSts, workerSts}
         /\ op.pc = "delete_coordinator_svc" => CoordinatorSvc \notin services'
         /\ op.pc = "delete_worker_svc" => WorkerSvc \notin services'
         /\ op.pc = "delete_coordinator_sts" => coordinatorSts' = 0
         /\ op.pc = "delete_worker_sts" => workerSts' = NoSts
<1>1. services' = IF op.pc = "delete_coordinator_svc" THEN services \ {CoordinatorSvc}
                  ELSE IF op.pc = "delete_worker_svc" THEN services \ {WorkerSvc} ELSE services
  BY DEF Applied, AppliedServices, DeleteCalls, Deletions
<1>2. coordinatorSts' = IF op.pc = "delete_coordinator_sts" THEN 0 ELSE coordinatorSts
  BY DEF Applied, AppliedCoordinatorSts, DeleteCalls, Deletions
<1>3. workerSts' = IF op.pc = "delete_worker_sts" THEN NoSts ELSE workerSts
  BY DEF Applied, AppliedWorkerSts, DeleteCalls, Deletions
<1> QED BY <1>1, <1>2, <1>3

\* What a call that reaches the server does to the parts of the invariant that
\* do not depend on the next call.
LEMMA AppliedStep ==
  ASSUME IInv, op.pc \in ApiCalls, Applied, lost' = lost
  PROVE  /\ NoOrphans'
         /\ Doomed(cache)' => Doomed(job)'
         /\ ~job'.exists /\ lost = {} => op.decision = "Delete" /\ Doomed(cache)'
         /\ op.decision = "Delete" => Doomed(job)' /\ Doomed(cache)'
<1>1. cache' = cache
  BY DEF Applied
<1>2. op.decision \in {"Put", "Patch", "Delete"}
  BY DEF IInv, ProperCall, TypeOK, ApiCalls, Deletions
<1>3. op.pc = "delete_finalizer" => op.decision = "Delete"
  BY <1>2 DEF IInv, ProperCall, PutCalls, PatchCalls
<1>4. ~job'.exists /\ lost = {} => op.decision = "Delete" /\ Doomed(cache)
  BY <1>2, <1>3, AppliedJob DEF IInv, NoWayBack, Doomed
<1>5. op.decision = "Delete" => Doomed(job') /\ Doomed(cache)
  BY AppliedJob DEF IInv, NoWayBack, Doomed
<1>6. Doomed(cache) => Doomed(job')
  BY AppliedJob DEF IInv, NoWayBack, Doomed
<1>7. ASSUME ~job'.exists, lost = {}
      PROVE  services' = {} /\ coordinatorSts' = 0 /\ workerSts' = NoSts
  <2>1. op.decision = "Delete" /\ op.pc \in DeleteCalls
    BY <1>4, <1>7 DEF IInv, ProperCall
  <2>2. services = {} /\ coordinatorSts = 0 /\ workerSts = NoSts
    <3>1. CASE op.pc = "delete_finalizer"
      BY <1>7, <2>1, <3>1 DEF IInv, DeletionProgress
    <3>2. CASE op.pc # "delete_finalizer"
      BY <1>7, <3>2, AppliedJob DEF IInv, NoOrphans
    <3> QED BY <3>1, <3>2
  <2> QED BY <2>1, <2>2, AppliedDeletion DEF IInv
<1>8. NoOrphans'
  BY <1>7 DEF NoOrphans
<1> QED BY <1>1, <1>4, <1>5, <1>6, <1>8 DEF Doomed

LEMMA AdvancedDecision ==
  ASSUME NEW o \in OpType
  PROVE  Advanced(o).decision \in {o.decision, "NoOp"}
  BY DEF Advanced, Idle, OpType

LEMMA AdvancedDeletion ==
  ASSUME NEW o \in OpType, o.decision = "Delete", o.pc \in DeleteCalls,
         Advanced(o).decision = "Delete"
  PROVE  /\ Advanced(o).pc = "delete_worker_svc" => o.pc = "delete_coordinator_svc"
         /\ Advanced(o).pc = "delete_coordinator_sts" => o.pc = "delete_worker_svc"
         /\ Advanced(o).pc = "delete_worker_sts" => o.pc = "delete_coordinator_sts"
         /\ Advanced(o).pc = "delete_finalizer" => o.pc = "delete_worker_sts"
         /\ Advanced(o).pc \in DeleteCalls \ {"delete_coordinator_svc"}
<1>1. NextCall(o) = DeleteCall(o)
  BY DEF NextCall, CallAfter
<1>2. NextCall(o) # "idle" /\ Advanced(o) = [o EXCEPT !.pc = DeleteCall(o)]
  BY <1>1 DEF Advanced, Idle
<1>3. Advanced(o).pc = DeleteCall(o)
  BY <1>2 DEF OpType
<1>4. o.pc \in {"delete_coordinator_svc", "delete_worker_svc", "delete_coordinator_sts",
                "delete_worker_sts", "delete_finalizer"}
  BY DEF DeleteCalls, Deletions
<1>5. /\ DeleteCall(o) = "delete_worker_svc" => o.pc = "delete_coordinator_svc"
      /\ DeleteCall(o) = "delete_coordinator_sts" => o.pc = "delete_worker_svc"
      /\ DeleteCall(o) = "delete_worker_sts" => o.pc = "delete_coordinator_sts"
      /\ DeleteCall(o) = "delete_finalizer" => o.pc = "delete_worker_sts"
      /\ DeleteCall(o) \in (DeleteCalls \ {"delete_coordinator_svc"}) \cup {"idle"}
  BY <1>4 DEF DeleteCall, DeleteCalls, Deletions
<1> QED BY <1>1, <1>2, <1>3, <1>5

LEMMA ApiCallStep ==
  ASSUME IInv, ApiCall  PROVE IInv'
<1> DEFINE o == IF op.pc = "get" THEN [op EXCEPT !.deployed = workerSts.replicas] ELSE op
<1>1. op \in OpType /\ ProperCall(op) /\ op.pc \in ApiCalls /\ op.pc # "idle" /\ TypeOK
  BY TypeOKShape DEF IInv, ApiCall, ApiCalls, Deletions
<1>2. o \in OpType /\ o.decision = op.decision /\ o.pc = op.pc /\ o.spec = op.spec
  <2>1. workerSts.replicas \in 0..MaxScale
    BY DEF IInv, TypeOK
  <2> QED BY <1>1, <2>1 DEF OpType
<1>3. ProperCall(o) /\ o.pc # "idle"
  BY <1>1, <1>2 DEF ProperCall
<1>4. op' = Advanced(o) /\ Applied /\ lost' = lost
  BY DEF ApiCall
<1> HIDE DEF o
<1>5. op' \in OpType /\ ProperCall(op')
  BY <1>2, <1>3, <1>4, NextCallIsProper
<1>6. disturbed' \in {"no", "reverted", "cut"}
  BY DEF ApiCall, CutIf, IInv, TypeOK
<1>7. TypeOK'
  BY <1>1, <1>4, <1>5, <1>6, AppliedType
     DEF IInv, ApiCall, TypeOK, OpType, JobType, runtime
<1>8. op'.decision \in {op.decision, "NoOp"}
  BY <1>2, <1>4, AdvancedDecision
<1>9. NoWayBack' /\ NoOrphans'
  BY <1>1, <1>4, <1>8, AppliedStep DEF NoWayBack
<1>10. DeletionProgress'
  <2> SUFFICES ASSUME op'.decision = "Delete", lost = {}
               PROVE  /\ op'.pc # "delete_coordinator_svc" => CoordinatorSvc \notin services'
                      /\ op'.pc \in {"delete_coordinator_sts", "delete_worker_sts", "delete_finalizer"}
                           => services' = {}
                      /\ op'.pc \in {"delete_worker_sts", "delete_finalizer"} => coordinatorSts' = 0
                      /\ op'.pc = "delete_finalizer" => workerSts' = NoSts
    BY <1>4 DEF DeletionProgress
  <2>1. op.decision = "Delete" /\ op.pc \in DeleteCalls
    BY <1>1, <1>8 DEF ProperCall
  <2>2. /\ op'.pc = "delete_worker_svc" => op.pc = "delete_coordinator_svc"
        /\ op'.pc = "delete_coordinator_sts" => op.pc = "delete_worker_svc"
        /\ op'.pc = "delete_worker_sts" => op.pc = "delete_coordinator_sts"
        /\ op'.pc = "delete_finalizer" => op.pc = "delete_worker_sts"
        /\ op'.pc \in DeleteCalls \ {"delete_coordinator_svc"}
    BY <1>2, <1>4, <2>1, AdvancedDeletion
  <2>3. services' \subseteq {CoordinatorSvc, WorkerSvc}
    BY <1>1, <1>4, AppliedType
  <2> USE AppliedDeletion, <1>1, <1>4, <2>1, <2>3 DEF IInv, DeletionProgress
  <2>4. CASE op'.pc = "delete_worker_svc"
    BY <2>2, <2>4
  <2>5. CASE op'.pc = "delete_coordinator_sts"
    BY <2>2, <2>5
  <2>6. CASE op'.pc = "delete_worker_sts"
    BY <2>2, <2>6
  <2>7. CASE op'.pc = "delete_finalizer"
    BY <2>2, <2>7
  <2> QED BY <2>2, <2>4, <2>5, <2>6, <2>7 DEF DeleteCalls, Deletions
<1> QED BY <1>5, <1>7, <1>9, <1>10 DEF IInv

\* A reconciliation that ends: nothing is under way.
LEMMA IdleStep ==
  ASSUME IInv, op' = Idle, UNCHANGED lost,
         UNCHANGED cluster \/ (op.pc \in ApiCalls /\ Applied)
  PROVE  DeletionInv'
<1>1. op'.decision = "NoOp" /\ ProperCall(op)'
  BY IdleIsProper DEF Idle
<1>2. DeletionProgress'
  BY <1>1 DEF DeletionProgress
<1>3. CASE UNCHANGED cluster
  BY <1>1, <1>2, <1>3 DEF DeletionInv, IInv, NoWayBack, NoOrphans, Doomed, cluster
<1>4. CASE op.pc \in ApiCalls /\ Applied
  <2>1. NoOrphans' /\ NoWayBack'
    BY <1>1, <1>4, AppliedStep DEF NoWayBack
  <2> QED BY <1>1, <1>2, <2>1 DEF DeletionInv
<1> QED BY <1>3, <1>4

LEMMA OnErrorStep ==
  ASSUME IInv, OnError  PROVE IInv'
<1>1. op' = Idle /\ op' \in OpType /\ UNCHANGED <<cluster, runtime, edits, faults, lost>>
  BY IdleIsProper DEF OnError
<1>2. disturbed' \in {"no", "reverted", "cut"}
  BY DEF OnError, CutIf, IInv, TypeOK
<1>3. TypeOK'
  BY <1>1, <1>2 DEF IInv, TypeOK, OpType, cluster, runtime
<1>4. DeletionInv'
  BY <1>1, IdleStep
<1> QED BY <1>3, <1>4 DEF IInv, DeletionInv

LEMMA ReplyStep ==
  ASSUME IInv, Reply  PROVE IInv'
<1> DEFINE o == [op EXCEPT !.answer = "none"]
<1>1. op \in OpType /\ o \in OpType /\ o.decision = op.decision /\ o.pc = op.pc /\ o.spec = op.spec
  BY TypeOKShape DEF IInv, OpType
<1>2. ProperCall(o) /\ o.pc = "reply"
  BY <1>1 DEF IInv, ProperCall, Reply
<1>3. op' = Advanced(o) /\ UNCHANGED <<cluster, runtime, edits, faults, disturbed, lost>>
  BY DEF Reply
<1> HIDE DEF o
<1>4. op' \in OpType /\ ProperCall(op)'
  BY <1>1, <1>2, <1>3, NextCallIsProper
<1>5. op.decision # "Delete" /\ op'.decision # "Delete" /\ op'.decision \in {op.decision, "NoOp"}
  BY <1>1, <1>2, <1>3, AdvancedDecision DEF ProperCall, DeleteCalls, Deletions
<1>6. TypeOK'
  BY <1>3, <1>4 DEF IInv, TypeOK, OpType, cluster, runtime
<1>7. DeletionProgress' /\ NoWayBack' /\ NoOrphans'
  BY <1>3, <1>5 DEF IInv, DeletionProgress, NoWayBack, NoOrphans, Doomed, cluster
<1> QED BY <1>4, <1>6, <1>7 DEF IInv

LEMMA RescaleStep ==
  ASSUME IInv, Rescale  PROVE IInv'
<1>1. op \in OpType /\ op.pc = "rescale" /\ op.spec \in Scales /\ coord \in CoordType
  BY TypeOKShape DEF IInv, Rescale, ProperCall
<1>2. op' = Advanced(op) /\ UNCHANGED <<cluster, pods, committed, edits, faults, disturbed, lost>>
  BY DEF Rescale
<1>3. op' \in OpType /\ ProperCall(op)'
  BY <1>1, <1>2, NextCallIsProper DEF IInv
<1>4. op.decision # "Delete" /\ op'.decision # "Delete" /\ op'.decision \in {op.decision, "NoOp"}
  BY <1>1, <1>2, AdvancedDecision DEF IInv, ProperCall, DeleteCalls, Deletions
<1>5. coord' \in CoordType
  <2>1. Request(op) \in Requests
    BY <1>1 DEF Request, Requests
  <2>2. Append(coord.requests, Request(op)) \in Seq(Requests)
    BY <1>1, <2>1, AppendProperties DEF CoordType
  <2>3. coord' = [coord EXCEPT !.requests = Append(coord.requests, Request(op))]
    BY DEF Rescale
  <2> QED BY <1>1, <2>2, <2>3 DEF CoordType
<1>6. TypeOK'
  BY <1>2, <1>3, <1>5 DEF IInv, TypeOK, OpType, CoordType, Requests, cluster
<1>7. DeletionProgress' /\ NoWayBack' /\ NoOrphans'
  BY <1>2, <1>4 DEF IInv, DeletionProgress, NoWayBack, NoOrphans, Doomed, cluster
<1> QED BY <1>3, <1>6, <1>7 DEF IInv

LEMMA UnawaitedType ==
  ASSUME NEW c \in CoordType  PROVE Unawaited(c) \in CoordType
<1> DEFINE q == [i \in DOMAIN c.requests |-> [c.requests[i] EXCEPT !.api = FALSE]]
<1>1. c.requests \in Seq(Requests) /\ DOMAIN c.requests = 1..Len(c.requests)
      /\ Len(c.requests) \in Nat
  BY LenProperties DEF CoordType
<1>2. \A i \in 1..Len(c.requests) : q[i] \in Requests
  <2> TAKE i \in 1..Len(c.requests)
  <2>1. c.requests[i] \in Requests
    BY <1>1, ElementOfSeq
  <2>2. [c.requests[i] EXCEPT !.api = FALSE] \in Requests
    BY <2>1 DEF Requests
  <2> QED BY <1>1, <2>2
<1>3. q \in Seq(Requests)
  <2>1. q \in [1..Len(c.requests) -> Requests]
    BY <1>1, <1>2
  <2> QED BY <1>1, <2>1, SeqDef
<1>4. Unawaited(c) = [c EXCEPT !.requests = q]
  BY DEF Unawaited
<1> QED BY <1>3, <1>4 DEF CoordType

LEMMA FailedCallStep ==
  ASSUME IInv, FailedCall  PROVE IInv'
<1>1. op' = Idle /\ op' \in OpType /\ UNCHANGED <<pods, committed, edits, lost>>
  BY IdleIsProper DEF FailedCall
<1>2. UNCHANGED cluster \/ (op.pc \in ApiCalls /\ Applied)
  BY DEF FailedCall
<1>3. disturbed' \in {"no", "reverted", "cut"} /\ faults' \in 0..MaxFaults
  BY BoundsAssumption DEF FailedCall, CutIf, IInv, TypeOK
<1>4. coord' \in CoordType
  BY UnawaitedType, TypeOKShape DEF FailedCall, IInv
<1>5. TypeOK'
  <2>1. /\ job' \in JobType /\ cache' \in JobType
        /\ services' \subseteq {CoordinatorSvc, WorkerSvc}
        /\ coordinatorSts' \in 0..MaxScale
        /\ workerSts' \in [replicas : 0..MaxScale, scale : 0..MaxScale]
    BY <1>2, AppliedType, TypeOKShape DEF IInv, cluster
  <2> QED
    BY <1>1, <1>3, <1>4, <2>1 DEF IInv, TypeOK, OpType, CoordType, Requests, JobType
<1>6. DeletionInv'
  BY <1>1, <1>2, IdleStep
<1> QED BY <1>5, <1>6 DEF IInv, DeletionInv

LEMMA SwallowedErrorStep ==
  ASSUME IInv, SwallowedError  PROVE IInv'
<1>1. op \in OpType /\ ProperCall(op) /\ op.pc \in Deletions /\ op.pc # "idle"
  BY TypeOKShape DEF IInv, SwallowedError, Deletions
<1>2. op' = Advanced(op) /\ UNCHANGED <<cluster, runtime, edits, disturbed>> /\ lost' # {}
  BY DEF SwallowedError
<1>3. op' \in OpType /\ ProperCall(op)'
  BY <1>1, <1>2, NextCallIsProper
<1>4. op'.decision \in {op.decision, "NoOp"}
  BY <1>1, <1>2, AdvancedDecision
<1>5. faults' \in 0..MaxFaults /\ lost' \subseteq {"unguarded", "swallowed"}
  BY BoundsAssumption DEF SwallowedError, IInv, TypeOK
<1>6. TypeOK'
  BY <1>2, <1>3, <1>5 DEF IInv, TypeOK, OpType, cluster, runtime
<1>7. DeletionProgress' /\ NoWayBack' /\ NoOrphans'
  BY <1>2, <1>4 DEF IInv, DeletionProgress, NoWayBack, NoOrphans, Doomed, cluster
<1> QED BY <1>3, <1>6, <1>7 DEF IInv

LEMMA OperatorStep ==
  ASSUME IInv, Operator  PROVE IInv'
  BY ReconcileStep, ApiCallStep, RescaleStep, ReplyStep, OnErrorStep DEF Operator

-----------------------------------------------------------------------------
(* Pods and the coordinator's process.                                     *)

LEMMA PodStep ==
  ASSUME IInv, NEW o \in Ordinals, CreatePod(o) \/ RemovePod(o)  PROVE IInv'
<1>1. UNCHANGED <<cluster, op, coord, committed, edits, faults, disturbed, lost>>
  BY DEF CreatePod, RemovePod
<1>2. pods' \in [Ordinals -> 0..MaxScale]
  <2>1. workerSts.scale \in 0..MaxScale /\ 0 \in 0..MaxScale /\ pods \in [Ordinals -> 0..MaxScale]
    BY ScalesAreCounts DEF IInv, TypeOK
  <2>2. pods' = [pods EXCEPT ![o] = workerSts.scale] \/ pods' = [pods EXCEPT ![o] = 0]
    BY DEF CreatePod, RemovePod
  <2> QED BY <2>1, <2>2
<1>3. TypeOK'
  BY <1>1, <1>2 DEF IInv, TypeOK, cluster
<1>4. DeletionInv'
  BY <1>1, RuntimeStepsKeepDeletion, TypeOKShape DEF IInv, DeletionInv, cluster
<1> QED BY <1>3, <1>4 DEF IInv, DeletionInv

LEMMA StartCoordinatorStep ==
  ASSUME IInv, StartCoordinator  PROVE IInv'
<1>1. UNCHANGED <<cluster, op, pods, committed, edits, faults, disturbed, lost>>
  BY DEF StartCoordinator
<1>2. coord' \in CoordType
  <2>1. coordinatorSts \in Scales /\ committed \in 0..MaxScale /\ coordinatorSts \in 0..MaxScale
    BY ScaleAssumption DEF IInv, TypeOK, StartCoordinator, Scales
  <2>2. [desired |-> coordinatorSts, api |-> FALSE] \in Requests
    BY <2>1 DEF Requests
  <2>3. <<[desired |-> coordinatorSts, api |-> FALSE]>> \in Seq(Requests) /\ <<>> \in Seq(Requests)
    BY <2>2
  <2> QED BY <2>1, <2>3 DEF StartCoordinator, Execute, CoordType
<1>3. TypeOK'
  BY <1>1, <1>2 DEF IInv, TypeOK, cluster, CoordType, Requests
<1>4. DeletionInv'
  BY <1>1, RuntimeStepsKeepDeletion, TypeOKShape DEF IInv, DeletionInv, cluster
<1> QED BY <1>3, <1>4 DEF IInv, DeletionInv

LEMMA CoordinatorEndsStep ==
  ASSUME IInv, CoordinatorEnds, faults' \in 0..MaxFaults,
         disturbed' \in {"no", "reverted", "cut"}
  PROVE  IInv'
<1>1. UNCHANGED <<cluster, pods, committed, edits, lost>>
  BY DEF CoordinatorEnds
<1>2. op \in OpType /\ (op' = op \/ op' = [op EXCEPT !.answer = "error"])
  BY TypeOKShape DEF IInv, CoordinatorEnds
<1>3. op' \in OpType /\ (op' = op \/ op' = [op EXCEPT !.answer = op'.answer])
  BY <1>2 DEF OpType
<1>4. coord' \in CoordType
  BY ScalesAreCounts DEF CoordinatorEnds, NoProcess, CoordType
<1>5. TypeOK'
  BY <1>1, <1>3, <1>4 DEF IInv, TypeOK, cluster, CoordType, Requests, OpType
<1>6. DeletionInv'
  BY <1>1, <1>2, <1>3, RuntimeStepsKeepDeletion DEF IInv, DeletionInv, cluster
<1> QED BY <1>5, <1>6 DEF IInv, DeletionInv

LEMMA ControllerStep ==
  ASSUME IInv, Controller \/ CoordinatorDies  PROVE IInv'
<1>1. CASE \E o \in Ordinals : CreatePod(o) \/ RemovePod(o)
  BY <1>1, PodStep
<1>2. CASE StartCoordinator
  BY <1>2, StartCoordinatorStep
<1>3. CASE ReplaceCoordinator
  <2>1. faults' \in 0..MaxFaults /\ CoordinatorEnds /\ disturbed' \in {"no", "reverted", "cut"}
    BY <1>3 DEF ReplaceCoordinator, IInv, TypeOK
  <2> QED BY <2>1, CoordinatorEndsStep
<1>4. CASE CoordinatorDies
  <2>1. faults' \in 0..MaxFaults /\ CoordinatorEnds /\ disturbed' \in {"no", "reverted", "cut"}
    BY <1>4, BoundsAssumption DEF CoordinatorDies, CutIf, IInv, TypeOK
  <2> QED BY <2>1, CoordinatorEndsStep
<1> QED BY <1>1, <1>2, <1>3, <1>4 DEF Controller

LEMMA ServeRescaleStep ==
  ASSUME IInv, ServeRescale  PROVE IInv'
<1> DEFINE r == Head(coord.requests)
<1>1. UNCHANGED <<cluster, pods, committed, edits, faults, lost>>
      /\ op' = (IF r.api THEN [op EXCEPT !.answer = "ok"] ELSE op)
      /\ disturbed' = (IF r.api THEN "no" ELSE disturbed)
      /\ coord' = [coord EXCEPT !.scale = r.desired, !.requests = Tail(coord.requests)]
  BY DEF ServeRescale
<1>2. coord \in CoordType /\ op \in OpType
  BY TypeOKShape DEF IInv
<1>3. coord.requests \in Seq(Requests) /\ coord.requests # <<>>
  BY <1>2 DEF CoordType, ServeRescale
<1>4. r \in Requests /\ Tail(coord.requests) \in Seq(Requests)
  BY <1>3
<1>5. r.desired \in 0..MaxScale
  BY <1>4, ScalesAreCounts DEF Requests
<1>6. coord' \in CoordType
  BY <1>1, <1>2, <1>4, <1>5 DEF CoordType
<1>7. op' \in OpType /\ (op' = op \/ op' = [op EXCEPT !.answer = op'.answer])
  BY <1>1, <1>2 DEF OpType
<1>8. disturbed' \in {"no", "reverted", "cut"}
  BY <1>1 DEF IInv, TypeOK
<1>9. TypeOK'
  BY <1>1, <1>6, <1>7, <1>8 DEF IInv, TypeOK, cluster, CoordType, Requests, OpType
<1>10. DeletionInv'
  BY <1>1, <1>2, <1>7, RuntimeStepsKeepDeletion DEF IInv, DeletionInv, cluster
<1> QED BY <1>9, <1>10 DEF IInv, DeletionInv

LEMMA CoordinatorProcessStep ==
  ASSUME IInv, StartJob \/ AutoSnapshot  PROVE IInv'
<1>1. UNCHANGED <<cluster, op, pods, edits, faults, disturbed, lost>>
  BY DEF StartJob, AutoSnapshot
<1>2. coord \in CoordType /\ op \in OpType
  BY TypeOKShape DEF IInv
<1>3. coord' \in CoordType
  BY <1>2 DEF StartJob, AutoSnapshot, CoordType
<1>4. committed' \in 0..MaxScale
  BY <1>2 DEF IInv, TypeOK, StartJob, AutoSnapshot, CoordType
<1>5. TypeOK'
  BY <1>1, <1>3, <1>4 DEF IInv, TypeOK, cluster, CoordType, Requests
<1>6. DeletionInv'
  BY <1>1, <1>2, RuntimeStepsKeepDeletion DEF IInv, DeletionInv, cluster
<1> QED BY <1>5, <1>6 DEF IInv, DeletionInv

-----------------------------------------------------------------------------
(* The invariant and the theorems.                                         *)

LEMMA InitEstablishes == Init => IInv
<1> SUFFICES ASSUME Init PROVE IInv
  OBVIOUS
<1>1. PICK n \in InitialScales :
        /\ job = [exists |-> TRUE, replicas |-> n, deleting |-> FALSE, finalizer |-> FALSE]
        /\ cache = job /\ services = {} /\ coordinatorSts = 0 /\ workerSts = NoSts
        /\ op = Idle /\ pods = [o \in Ordinals |-> 0] /\ coord = NoProcess /\ committed = 0
        /\ edits = 0 /\ faults = 0 /\ disturbed = "no" /\ lost = {}
  BY DEF Init
<1>2. n \in Scales
  BY ScaleAssumption DEF Scales
<1>3. coord \in CoordType /\ op \in OpType /\ ProperCall(op) /\ op.decision = "NoOp"
  BY <1>1, IdleIsProper, ScalesAreCounts DEF NoProcess, CoordType, Idle
<1>4. job \in JobType /\ cache \in JobType
  BY <1>1, <1>2 DEF JobType
<1>5. TypeOK
  <2>1. pods \in [Ordinals -> 0..MaxScale] /\ coordinatorSts \in 0..MaxScale /\ committed \in 0..MaxScale
    BY <1>1, ScalesAreCounts
  <2>2. workerSts \in [replicas : 0..MaxScale, scale : 0..MaxScale]
    BY <1>1, ScalesAreCounts DEF NoSts
  <2>3. edits \in 0..MaxEdits /\ faults \in 0..MaxFaults
    BY <1>1, BoundsAssumption
  <2>4. disturbed \in {"no", "reverted", "cut"}
    BY <1>1
  <2>5. services \subseteq {CoordinatorSvc, WorkerSvc} /\ lost \subseteq {"unguarded", "swallowed"}
    BY <1>1
  <2> QED BY <1>3, <1>4, <2>1, <2>2, <2>3, <2>4, <2>5, TypeOKShape
<1>6. DeletionProgress /\ NoWayBack /\ NoOrphans
  BY <1>1, <1>3 DEF DeletionProgress, NoWayBack, NoOrphans, Doomed
<1> QED BY <1>3, <1>5, <1>6 DEF IInv

LEMMA NextPreserves == IInv /\ [Next]_vars => IInv'
<1> SUFFICES ASSUME IInv, [Next]_vars PROVE IInv'
  OBVIOUS
<1>1. CASE UserRescales \/ UserDeletes \/ Watch
  BY <1>1, UserRescalesStep, UserDeletesStep, WatchStep
<1>2. CASE Operator \/ FailedCall \/ SwallowedError
  BY <1>2, OperatorStep, FailedCallStep, SwallowedErrorStep
<1>3. CASE Controller \/ CoordinatorDies
  BY <1>3, ControllerStep
<1>4. CASE CoordinatorStep \/ AutoSnapshot
  BY <1>4, ServeRescaleStep, CoordinatorProcessStep DEF CoordinatorStep
<1>5. CASE UNCHANGED vars
  BY <1>5 DEF vars, cluster, runtime, IInv, TypeOK, ProperCall, DeletionProgress, NoWayBack,
              NoOrphans, Doomed
<1> QED BY <1>1, <1>2, <1>3, <1>4, <1>5 DEF Next

\* The reconciliation, the cluster it works on and the coordinator's process
\* keep their types, for every number of replicas, edits and faults; a scale
\* that is asked for is one a user has written.
THEOREM TypeCorrect == Spec => []TypeOK
<1>1. IInv => TypeOK
  BY DEF IInv
<1> QED BY <1>1, InitEstablishes, NextPreserves, PTL DEF Spec

\* However often calls fail, processes die and the job is edited: a job whose
\* deletion the finalizer guarded, and no error of which was swallowed, leaves
\* no service and no StatefulSet behind (reconcile, job::delete, finalizer).
THEOREM GuardedDeletionIsClean == Spec => []NoOrphans
<1>1. IInv => NoOrphans
  BY DEF IInv
<1> QED BY <1>1, InitEstablishes, NextPreserves, PTL DEF Spec

-----------------------------------------------------------------------------
(* The operator and the coordinator.                                       *)

Alive == job.exists /\ ~job.deleting
Grows == op.spec > op.deployed
Replicas == workerSts.replicas

\* A request that somebody waits for is the last one, and that somebody is the
\* reconciliation that runs.
OneAwaits ==
  /\ op.answer # "none" => op.pc = "reply"
  /\ \A i \in 1..Len(coord.requests) : coord.requests[i].api =>
       i = Len(coord.requests) /\ op.pc = "reply" /\ op.answer = "none"
  /\ op.pc = "reply" /\ op.answer = "none" =>
       /\ coord.up /\ Len(coord.requests) > 0
       /\ coord.requests[Len(coord.requests)].desired = op.spec
       /\ coord.requests[Len(coord.requests)].api

\* A job with a finalizer has its StatefulSet, and the watch knows of a finalizer
\* only when there has been one.
Deployed ==
  /\ workerSts # NoSts => Replicas \in Scales
  /\ Alive /\ job.finalizer => workerSts # NoSts
  /\ Alive /\ (cache.finalizer \/ op.decision = "Patch") => job.finalizer
  /\ op.decision = "Patch" \/ op.pc \in {"status", "add_finalizer"} => workerSts # NoSts

\* The replicas in the course of a rescale.
Resizing ==
  op.decision = "Patch" =>
    /\ op.pc \in {"connect", "scale_sts"} => Replicas = op.deployed
    /\ op.pc \in {"rescale", "reply"} => Replicas = IF Grows THEN op.spec ELSE op.deployed
    /\ op.pc \in {"coordinator_sts", "worker_sts", "status"} => Replicas = op.spec

\* Where the coordinator has been told the new scale.
Told ==
  /\ op.decision = "Patch"
  /\ \/ op.pc = "reply" /\ op.answer = "ok"
     \/ op.pc = "scale_sts" /\ ~Grows
     \/ op.pc \in {"coordinator_sts", "worker_sts"}

\* Where the operator takes it that the coordinator has the scale of the
\* StatefulSet.
Settled ==
  \/ op.pc = "idle" /\ job.finalizer
  \/ op.decision = "Patch" /\ op.pc \in {"coordinator_svc", "worker_svc", "get"}
  \/ op.pc \in {"status", "add_finalizer"}

\* The coordinator's pod has been replaced after the rescale: its process has the
\* committed workers, or none and the request for the scale of its environment.
Resuming ==
  /\ disturbed = "reverted"
  /\ coord.up =>
       \/ Len(coord.requests) = 0 /\ coord.scale = Resumed
       \/ /\ coord.scale = 0 /\ committed = 0 /\ Len(coord.requests) = 1
          /\ coord.requests[1].desired = coord.env

\* The scale the coordinator is going to have.
Agrees(n) == Target = n \/ Resuming

Agreement ==
  Alive /\ disturbed # "cut" =>
    (Settled => Agrees(Replicas)) /\ (Told => Agrees(op.spec))

\* All scales the coordinator is going to have are at most n.
Within(n) ==
  IF coord.up
  THEN coord.scale <= n /\ \A i \in 1..Len(coord.requests) : coord.requests[i].desired <= n
  ELSE Target <= n

\* The same, but for what a replaced coordinator has resumed with.
Loose(n) ==
  /\ disturbed = "reverted"
  /\ coord.up =>
       /\ coord.scale <= n \/ coord.scale = Resumed
       /\ \A i \in 1..Len(coord.requests) :
            \/ coord.requests[i].desired <= n
            \/ /\ i = 1 /\ coord.scale = 0 /\ committed = 0
               /\ coord.requests[i].desired = coord.env

AtMost(n) == Within(n) \/ Loose(n)

\* Before there is a StatefulSet the coordinator has no workers.
NoPodsYet ==
  Alive /\ workerSts = NoSts =>
    /\ \A o \in Ordinals : pods[o] = 0
    /\ coord.scale = 0 /\ committed = 0 /\ Len(coord.requests) <= 1

\* There are pods for the workers the coordinator counts.
Covered ==
  Alive /\ disturbed # "cut" /\ workerSts # NoSts =>
    /\ AtMost(Replicas) /\ (Told => AtMost(op.spec))
    /\ op.decision = "Put" /\ op.pc = "worker_sts" => Replicas = op.spec

CInv == OneAwaits /\ Deployed /\ Resizing /\ Agreement /\ NoPodsYet /\ Covered

-----------------------------------------------------------------------------
(* Lemmas about them.                                                      *)

LEMMA Shapes ==
  ASSUME TypeOK
  PROVE  /\ Replicas \in 0..MaxScale /\ op.spec \in 0..MaxScale /\ op.deployed \in 0..MaxScale
         /\ coordinatorSts \in 0..MaxScale /\ committed \in 0..MaxScale /\ coord.scale \in 0..MaxScale
         /\ coord.requests \in Seq(Requests) /\ Len(coord.requests) \in Nat
         /\ \A i \in 1..Len(coord.requests) : coord.requests[i] \in Requests
         /\ \A i \in 1..Len(coord.requests) : coord.requests[i].desired \in 1..MaxScale
         /\ 0..MaxScale \subseteq Int
<1>1. coord \in CoordType /\ op \in OpType /\ workerSts \in [replicas : 0..MaxScale, scale : 0..MaxScale]
      /\ coordinatorSts \in 0..MaxScale /\ committed \in 0..MaxScale
  BY TypeOKShape
<1>2. coord.requests \in Seq(Requests) /\ coord.scale \in 0..MaxScale
  BY <1>1 DEF CoordType
<1>3. Len(coord.requests) \in Nat /\ \A i \in 1..Len(coord.requests) : coord.requests[i] \in Requests
  BY <1>2
<1>4. \A i \in 1..Len(coord.requests) : coord.requests[i].desired \in 1..MaxScale
  BY <1>3 DEF Requests, Scales
<1> QED BY <1>1, <1>2, <1>3, <1>4, ScaleAssumption DEF OpType, Replicas

TargetView ==
  IF ~coord.up THEN (IF committed # 0 THEN committed ELSE coordinatorSts)
  ELSE IF Len(coord.requests) = 0 THEN coord.scale
  ELSE coord.requests[Len(coord.requests)].desired

LEMMA TargetIs == TypeOK => Target = TargetView
<1> SUFFICES ASSUME TypeOK PROVE Target = TargetView
  OBVIOUS
<1>1. coord.requests \in Seq(Requests)
  BY Shapes
<1>2. coord.requests = <<>> <=> Len(coord.requests) = 0
  BY <1>1
<1> QED BY <1>2 DEF Target, TargetView

LEMMA TargetNext == TypeOK' => Target' = TargetView'
<1> DEFINE Same == Target = TargetView
<1>1. TypeOK => Same
  BY TargetIs
<1> HIDE DEF Same
<1>2. TypeOK' => Same'
  BY <1>1, PTL
<1> QED BY <1>2 DEF Same

LEMMA TargetType == TypeOK => Target \in 0..MaxScale
<1> SUFFICES ASSUME TypeOK PROVE Target \in 0..MaxScale
  OBVIOUS
<1>1. Len(coord.requests) # 0 => coord.requests[Len(coord.requests)].desired \in 1..MaxScale
  BY Shapes
<1> QED BY <1>1, Shapes, TargetIs DEF TargetView

\* What the coordinator is going to have lies within the bound of all it is
\* going to have.
LEMMA TargetWithin ==
  ASSUME TypeOK, NEW n, Within(n)
  PROVE  Target <= n
<1>1. CASE coord.up
  <2>1. coord.scale <= n /\ \A i \in 1..Len(coord.requests) : coord.requests[i].desired <= n
    BY <1>1 DEF Within
  <2>2. Len(coord.requests) # 0 => coord.requests[Len(coord.requests)].desired <= n
    BY <2>1, Shapes
  <2> QED BY <1>1, <2>1, <2>2, TargetIs DEF TargetView
<1>2. CASE ~coord.up
  BY <1>2 DEF Within
<1> QED BY <1>1, <1>2

LEMMA AtMostGrows ==
  ASSUME TypeOK, NEW n \in 0..MaxScale, NEW m \in 0..MaxScale, n <= m, AtMost(n)
  PROVE  AtMost(m)
<1>1. Target \in 0..MaxScale /\ 0..MaxScale \subseteq Int
  BY TargetType, Shapes
<1>2. CASE Within(n)
  BY SMTT(30), <1>1, <1>2, Shapes DEF Within, AtMost
<1>3. CASE Loose(n)
  BY <1>1, <1>3, Shapes DEF Loose, AtMost
<1> QED BY <1>2, <1>3 DEF AtMost

LEMMA ResumingTarget == TypeOK /\ Resuming => Target = Resumed
BY TargetIs DEF Resuming, Resumed, TargetView

\* Steps that change nothing of what Target and Within speak of.
SameScales ==
  /\ coord'.up = coord.up /\ coord'.scale = coord.scale /\ coord'.env = coord.env
  /\ Len(coord'.requests) = Len(coord.requests)
  /\ \A i \in 1..Len(coord.requests) : coord'.requests[i].desired = coord.requests[i].desired
  /\ committed' = committed

LEMMA TargetStays ==
  ASSUME TypeOK, TypeOK', SameScales, coordinatorSts' = coordinatorSts \/ coord.up \/ committed # 0
  PROVE  Target' = Target
<1>1. Len(coord.requests) # 0 => Len(coord.requests) \in 1..Len(coord.requests)
  BY Shapes
<1>2. TargetView' = TargetView
  BY <1>1 DEF SameScales, TargetView
<1> QED BY <1>2, TargetIs, TargetNext

\* Agrees and AtMost of the next state, for a number that is not one of it.
AgreesNext(n) == Target' = n \/ Resuming'

WithinNext(n) ==
  IF coord'.up
  THEN coord'.scale <= n /\ \A i \in 1..Len(coord'.requests) : coord'.requests[i].desired <= n
  ELSE Target' <= n

LooseNext(n) ==
  /\ disturbed' = "reverted"
  /\ coord'.up =>
       /\ coord'.scale <= n \/ coord'.scale = Resumed'
       /\ \A i \in 1..Len(coord'.requests) :
            \/ coord'.requests[i].desired <= n
            \/ /\ i = 1 /\ coord'.scale = 0 /\ committed' = 0
               /\ coord'.requests[i].desired = coord'.env

LEMMA NextForms ==
  /\ AgreesNext(Replicas') => Agrees(Replicas)'
  /\ AgreesNext(op'.spec) => Agrees(op.spec)'
  /\ WithinNext(Replicas') \/ LooseNext(Replicas') => AtMost(Replicas)'
  /\ WithinNext(op'.spec) \/ LooseNext(op'.spec) => AtMost(op.spec)'
BY DEF AgreesNext, Agrees, WithinNext, LooseNext, AtMost, Within, Loose

LEMMA ScalesStay ==
  ASSUME TypeOK, SameScales, disturbed' = disturbed
  PROVE  /\ Resuming => Resuming'
         /\ \A n : Loose(n) => LooseNext(n)
         /\ Target' = Target => \A n : Agrees(n) => AgreesNext(n)
         /\ Target' = Target => \A n : Within(n) => WithinNext(n)
         /\ Target' = Target => \A n : AtMost(n) => WithinNext(n) \/ LooseNext(n)
<1>1. coord.up => Resumed' = Resumed
  BY DEF SameScales, Resumed
<1>2. Resuming => Resuming'
  <2>1. Len(coord.requests) = 1 => coord'.requests[1].desired = coord.requests[1].desired
    BY DEF SameScales
  <2> QED BY <1>1, <2>1 DEF SameScales, Resuming
<1>3. \A n : Loose(n) => LooseNext(n)
  BY <1>1 DEF SameScales, Loose, LooseNext
<1>4. Target' = Target => \A n : Within(n) => WithinNext(n)
  BY DEF SameScales, Within, WithinNext
<1>5. Target' = Target => \A n : Agrees(n) => AgreesNext(n)
  BY <1>2 DEF Agrees, AgreesNext
<1> QED BY <1>2, <1>3, <1>4, <1>5 DEF AtMost

\* All parts of the invariant but OneAwaits follow when the scales stay, nothing
\* comes back to life and the operator stays where it is.
LEMMA QuietStep ==
  ASSUME TypeOK, TypeOK', CInv, SameScales, OneAwaits',
         UNCHANGED <<coordinatorSts, workerSts, op, disturbed>>,
         workerSts = NoSts /\ (\A o \in Ordinals : pods[o] = 0) => \A o \in Ordinals : pods'[o] = 0,
         Alive' => Alive /\ job'.finalizer = job.finalizer,
         Alive' /\ cache'.finalizer => job'.finalizer
  PROVE  CInv'
<1>1. Target' = Target
  BY TargetStays
<1>2. (Told' <=> Told) /\ Replicas' = Replicas /\ (Grows' <=> Grows)
  BY DEF Told, Replicas, Grows
<1>3. Alive' => (Settled' <=> Settled)
  BY DEF Settled
<1>4. Deployed'
  BY <1>2 DEF CInv, Deployed
<1>5. Resizing'
  BY <1>2 DEF CInv, Resizing
<1>6. Agreement'
  <2>1. (Agrees(Replicas) => Agrees(Replicas)') /\ (Agrees(op.spec) => Agrees(op.spec)')
    BY <1>1, <1>2, ScalesStay, NextForms
  <2> QED BY <1>2, <1>3, <2>1 DEF CInv, Agreement
<1>7. NoPodsYet'
  BY DEF CInv, NoPodsYet, SameScales
<1>8. AtMost(Replicas) => AtMost(Replicas)'
  BY <1>1, <1>2, ScalesStay, NextForms
<1>9. AtMost(op.spec) => AtMost(op.spec)'
  BY <1>1, ScalesStay, NextForms
<1>10. Covered'
  BY <1>2, <1>8, <1>9 DEF CInv, Covered
<1> QED BY <1>4, <1>5, <1>6, <1>7, <1>10 DEF CInv

LEMMA UserAndWatch ==
  ASSUME IInv, IInv', CInv, UserRescales \/ UserDeletes \/ Watch
  PROVE  CInv'
<1>1. UNCHANGED <<coordinatorSts, workerSts, pods, coord, committed, op, disturbed>>
  BY DEF UserRescales, UserDeletes, Watch, runtime
<1>2. SameScales /\ OneAwaits'
  BY <1>1 DEF SameScales, CInv, OneAwaits
<1>3. job \in JobType
  BY TypeOKShape DEF IInv
<1>4. Alive' => Alive /\ job'.finalizer = job.finalizer /\ (cache'.finalizer => cache.finalizer \/ job.finalizer)
  <2>1. CASE UserRescales
    BY <1>3, <2>1 DEF UserRescales, Alive, JobType
  <2>2. CASE UserDeletes
    BY <1>3, <2>2 DEF UserDeletes, Alive, JobType, Gone
  <2>3. CASE Watch
    BY <2>3 DEF Watch, Alive
  <2> QED BY <2>1, <2>2, <2>3
<1>5. Alive' /\ cache'.finalizer => job'.finalizer
  BY <1>4 DEF CInv, Deployed
<1> QED BY <1>1, <1>2, <1>4, <1>5, QuietStep DEF IInv

\* A deletion asks nothing of the rest of the invariant.
LEMMA DeadStep ==
  ASSUME OneAwaits', ~Alive', op'.decision \in {"Delete", "NoOp"}, ProperCall(op'),
         workerSts' # NoSts => Replicas' \in Scales
  PROVE  CInv'
<1>1. op'.pc \notin {"status", "add_finalizer"} /\ op'.decision # "Patch"
  BY DEF ProperCall, DeleteCalls, Deletions
<1> QED BY <1>1 DEF CInv, Deployed, Resizing, Agreement, NoPodsYet, Covered

\* The operator between two calls, the coordinator left alone.
LEMMA NobodyAwaits ==
  ASSUME OneAwaits, UNCHANGED coord, op'.pc # "reply", op'.answer = "none",
         op.pc # "reply" \/ op.answer # "none"
  PROVE  OneAwaits'
BY DEF OneAwaits

LEMMA AdvancedFields ==
  ASSUME NEW o \in OpType
  PROVE  /\ NextCall(o) = "idle" => Advanced(o) = Idle
         /\ NextCall(o) # "idle" =>
              /\ Advanced(o).decision = o.decision /\ Advanced(o).pc = NextCall(o)
              /\ Advanced(o).spec = o.spec /\ Advanced(o).deployed = o.deployed
              /\ Advanced(o).answer = o.answer
BY DEF Advanced, OpType

LEMMA ReconcileAgrees ==
  ASSUME IInv, IInv', CInv, Reconcile
  PROVE  CInv'
<1>1. UNCHANGED <<job, cache, coordinatorSts, workerSts, pods, coord, committed, disturbed>>
  BY DEF Reconcile, cluster, runtime
<1>2. /\ op.pc = "idle"
      /\ op'.decision = MakeDecision /\ op'.pc \in {"delete_coordinator_svc", "coordinator_svc"}
      /\ op'.answer = "none"
  <2>1. MakeDecision \in {"Put", "Delete", "Patch"} /\ op.pc = "idle"
    BY DEF Reconcile, MakeDecision
  <2>2. FirstCall(MakeDecision) \in {"delete_coordinator_svc", "coordinator_svc"}
    BY <2>1 DEF FirstCall
  <2>3. op' = [decision |-> MakeDecision, pc |-> FirstCall(MakeDecision), spec |-> cache.replicas,
               deployed |-> 0, answer |-> "none"]
    BY DEF Reconcile, Idle
  <2> QED BY <2>1, <2>2, <2>3
<1>3. op'.decision = "Patch" => cache.finalizer /\ workerSts # NoSts
  BY <1>2 DEF MakeDecision
<1>4. OneAwaits' /\ SameScales
  BY <1>1, <1>2, NobodyAwaits DEF CInv, SameScales
<1>5. Target' = Target
  BY <1>1, <1>4, TargetStays DEF IInv
<1>6. Replicas' = Replicas /\ ~Told' /\ (Alive' <=> Alive)
  BY <1>1, <1>2 DEF Replicas, Told, Alive
<1>7. Deployed'
  BY <1>1, <1>2, <1>3, <1>6 DEF CInv, Deployed
<1>8. Alive /\ Settled' => Settled
  BY <1>2, <1>3 DEF CInv, Deployed, Settled
<1>9. Agreement'
  <2>1. Agrees(Replicas) => Agrees(Replicas)'
    BY <1>1, <1>4, <1>5, <1>6, ScalesStay, NextForms DEF IInv
  <2> QED BY <1>1, <1>6, <1>8, <2>1 DEF CInv, Agreement
<1>10. AtMost(Replicas) => AtMost(Replicas)'
  BY <1>1, <1>4, <1>5, <1>6, ScalesStay, NextForms DEF IInv
<1>11. Covered'
  BY <1>1, <1>2, <1>6, <1>10 DEF CInv, Covered
<1>12. Resizing' /\ NoPodsYet'
  BY <1>1, <1>2, <1>6 DEF CInv, Resizing, NoPodsYet
<1> QED BY <1>4, <1>7, <1>9, <1>11, <1>12 DEF CInv

LEMMA ReplyAgrees ==
  ASSUME IInv, IInv', CInv, Reply
  PROVE  CInv'
<1> DEFINE o == [op EXCEPT !.answer = "none"]
<1>1. UNCHANGED <<job, cache, coordinatorSts, workerSts, pods, coord, committed, disturbed>>
  BY DEF Reply, cluster, runtime
<1>2. op.pc = "reply" /\ op.answer = "ok" /\ op' = Advanced(o)
  BY DEF Reply
<1>3. op \in OpType /\ o \in OpType
  BY TypeOKShape DEF IInv, OpType
<1>4. op.decision = "Patch"
  BY <1>2, <1>3 DEF IInv, ProperCall, OpType, PutCalls, DeleteCalls, Deletions
<1>5. o.decision = "Patch" /\ o.pc = "reply" /\ o.spec = op.spec /\ o.deployed = op.deployed
      /\ o.answer = "none"
  BY <1>2, <1>3, <1>4 DEF OpType
<1> HIDE DEF o
<1>6. NextCall(o) = IF Grows THEN "coordinator_sts" ELSE "scale_sts"
  BY <1>5 DEF NextCall, CallAfter, PatchCall, RescaleCall, Grows
<1>7. /\ op'.decision = "Patch" /\ op'.pc = IF Grows THEN "coordinator_sts" ELSE "scale_sts"
      /\ op'.spec = op.spec /\ op'.deployed = op.deployed /\ op'.answer = "none"
  BY <1>2, <1>3, <1>5, <1>6, AdvancedFields
<1>8. OneAwaits' /\ SameScales
  BY <1>1, <1>2, <1>7, NobodyAwaits DEF CInv, SameScales
<1>9. Target' = Target
  BY <1>1, <1>8, TargetStays DEF IInv
<1>10. /\ Replicas' = Replicas /\ (Grows' <=> Grows) /\ (Alive' <=> Alive)
       /\ Told /\ ~Settled'
  BY <1>1, <1>2, <1>4, <1>7 DEF Replicas, Grows, Alive, Told, Settled
<1>11. Deployed'
  BY <1>1, <1>4, <1>7, <1>10 DEF CInv, Deployed
<1>12. Resizing'
  BY <1>2, <1>4, <1>7, <1>10 DEF CInv, Resizing
<1>13. Agreement'
  <2>1. Agrees(op.spec) => Agrees(op.spec)'
    BY <1>1, <1>7, <1>8, <1>9, ScalesStay, NextForms DEF IInv
  <2> QED BY <1>1, <1>10, <2>1 DEF CInv, Agreement
<1>14. NoPodsYet'
  BY <1>1, <1>10 DEF CInv, NoPodsYet
<1>15. (AtMost(Replicas) => AtMost(Replicas)') /\ (AtMost(op.spec) => AtMost(op.spec)')
  BY <1>1, <1>7, <1>8, <1>9, <1>10, ScalesStay, NextForms DEF IInv
<1>16. Covered'
  BY <1>1, <1>7, <1>10, <1>15 DEF CInv, Covered
<1> QED BY <1>8, <1>11, <1>12, <1>13, <1>14, <1>16 DEF CInv

\* A call for a job that is not to be deleted, when it reaches the server.
LEMMA AppliedLive ==
  ASSUME IInv, op.decision \in {"Put", "Patch"}, op.pc \in ApiCalls, Applied
  PROVE  /\ cache' = cache /\ (Alive' <=> Alive)
         /\ coordinatorSts' = IF op.pc = "coordinator_sts" THEN op.spec ELSE coordinatorSts
         /\ op.pc \in {"worker_sts", "scale_sts"} => Replicas' = op.spec /\ workerSts' # NoSts
         /\ op.pc \notin {"worker_sts", "scale_sts"} => workerSts' = workerSts /\ Replicas' = Replicas
         /\ op.pc = "add_finalizer" => job'.finalizer
         /\ op.pc # "add_finalizer" => job'.finalizer = job.finalizer
<1>1. op.pc \in PutCalls \cup PatchCalls /\ op.pc # "idle"
  BY DEF IInv, ProperCall, ApiCalls, Deletions
<1>2. op.pc \notin DeleteCalls
  BY <1>1 DEF PutCalls, PatchCalls, DeleteCalls, Deletions
<1>3. op.spec \in Scales /\ op.spec # 0
  BY <1>1 DEF IInv, ProperCall, Scales
<1>4. workerSts \in [replicas : 0..MaxScale, scale : 0..MaxScale] /\ job \in JobType
  BY TypeOKShape DEF IInv
<1>5. op.pc = "worker_sts" => workerSts' = [replicas |-> op.spec, scale |-> op.spec]
  BY DEF Applied, AppliedWorkerSts, WorkerSts, WorkerTemplate
<1>6. op.pc = "scale_sts" => workerSts' = [workerSts EXCEPT !.replicas = op.spec]
  BY DEF Applied, AppliedWorkerSts
<1>7. op.pc \notin {"worker_sts", "scale_sts"} => workerSts' = workerSts
  BY <1>2 DEF Applied, AppliedWorkerSts, DeleteCalls, Deletions
<1>8. op.pc \in {"worker_sts", "scale_sts"} => Replicas' = op.spec /\ workerSts' # NoSts
  BY <1>3, <1>4, <1>5, <1>6 DEF Replicas, NoSts
<1>9. coordinatorSts' = IF op.pc = "coordinator_sts" THEN op.spec ELSE coordinatorSts
  BY <1>2 DEF Applied, AppliedCoordinatorSts, CoordinatorSts, CoordinatorTemplate, DeleteCalls, Deletions
<1>10. job' = IF op.pc = "add_finalizer" THEN [job EXCEPT !.finalizer = TRUE] ELSE job
  BY <1>2 DEF Applied, AppliedFinalizer, DeleteCalls
<1>11. CASE op.pc = "add_finalizer"
  <2>1. job'.finalizer /\ job'.exists = job.exists /\ job'.deleting = job.deleting
    BY <1>4, <1>10, <1>11 DEF JobType
  <2> QED BY <1>7, <1>8, <1>9, <1>11, <2>1 DEF Alive, Applied, Replicas
<1>12. CASE op.pc # "add_finalizer"
  <2>1. job' = job
    BY <1>10, <1>12
  <2> QED BY <1>7, <1>8, <1>9, <1>12, <2>1 DEF Alive, Applied, Replicas
<1> QED BY <1>11, <1>12

\* The operator after a call, for the two decisions.
LEMMA PutNext ==
  ASSUME IInv, ApiCall, op.decision = "Put"
  PROVE  /\ op.pc \in PutCalls
         /\ op.pc = "add_finalizer" => op' = Idle
         /\ op.pc # "add_finalizer" =>
              /\ op'.decision = "Put" /\ op'.pc = CreateCall(op) /\ op'.spec = op.spec
              /\ op'.answer = op.answer
              /\ op'.pc \in PutCalls \ {"coordinator_svc"}
<1>1. op.pc \in PutCalls /\ op \in OpType
  BY TypeOKShape DEF IInv, ProperCall
<1>2. NextCall(op) = CreateCall(op)
  BY DEF NextCall, CallAfter
<1>3. op' = Advanced(op)
  BY <1>1 DEF ApiCall, PutCalls
<1>4. op.pc = "add_finalizer" => CreateCall(op) = "idle"
  BY DEF CreateCall
<1>5. op.pc # "add_finalizer" => CreateCall(op) \in PutCalls \ {"coordinator_svc"}
  BY <1>1 DEF CreateCall, PutCalls
<1>6. "idle" \notin PutCalls
  BY DEF PutCalls
<1> QED BY <1>1, <1>2, <1>3, <1>4, <1>5, <1>6, AdvancedFields

LEMMA PatchNext ==
  ASSUME IInv, ApiCall, op.decision = "Patch"
  PROVE  /\ op.pc \in PatchCalls \ {"rescale", "reply"}
         /\ op.pc = "status" => op' = Idle
         /\ op.pc # "status" =>
              /\ op'.decision = "Patch" /\ op'.spec = op.spec /\ op'.answer = op.answer
              /\ op'.deployed = IF op.pc = "get" THEN Replicas ELSE op.deployed
              /\ op'.pc = CASE op.pc = "coordinator_svc" -> "worker_svc"
                            [] op.pc = "worker_svc" -> "get"
                            [] op.pc = "get" ->
                                 IF Replicas # op.spec THEN "connect" ELSE "coordinator_sts"
                            [] op.pc = "connect" -> IF Grows THEN "scale_sts" ELSE "rescale"
                            [] op.pc = "scale_sts" -> IF Grows THEN "rescale" ELSE "coordinator_sts"
                            [] op.pc = "coordinator_sts" -> "worker_sts"
                            [] op.pc = "worker_sts" -> "status"
<1> DEFINE o == IF op.pc = "get" THEN [op EXCEPT !.deployed = workerSts.replicas] ELSE op
<1>1. op.pc \in PatchCalls \ {"rescale", "reply"} /\ op \in OpType
  BY TypeOKShape DEF IInv, ProperCall, ApiCall, ApiCalls, Deletions
<1>2. workerSts.replicas \in 0..MaxScale
  BY DEF IInv, TypeOK
<1>3. /\ o \in OpType /\ o.decision = "Patch" /\ o.pc = op.pc /\ o.spec = op.spec /\ o.answer = op.answer
      /\ o.deployed = IF op.pc = "get" THEN Replicas ELSE op.deployed
  BY <1>1, <1>2 DEF OpType, Replicas
<1>4. op' = Advanced(o)
  BY DEF ApiCall
<1> HIDE DEF o
<1>5. NextCall(o) = PatchCall(o)
  BY <1>3 DEF NextCall, CallAfter
<1>6. op.pc = "status" => PatchCall(o) = "idle"
  BY <1>3 DEF PatchCall
<1>7. op.pc # "status" =>
        PatchCall(o) = CASE op.pc = "coordinator_svc" -> "worker_svc"
                         [] op.pc = "worker_svc" -> "get"
                         [] op.pc = "get" ->
                              IF Replicas # op.spec THEN "connect" ELSE "coordinator_sts"
                         [] op.pc = "connect" -> IF Grows THEN "scale_sts" ELSE "rescale"
                         [] op.pc = "scale_sts" -> IF Grows THEN "rescale" ELSE "coordinator_sts"
                         [] op.pc = "coordinator_sts" -> "worker_sts"
                         [] op.pc = "worker_sts" -> "status"
  BY <1>1, <1>3 DEF PatchCall, RescaleCall, Grows, PatchCalls
<1>8. op.pc # "status" => PatchCall(o) # "idle"
  BY <1>1, <1>7 DEF PatchCalls
<1> QED BY <1>1, <1>3, <1>4, <1>5, <1>6, <1>7, <1>8, AdvancedFields

\* A call that reaches the server leaves the coordinator within the replicas.
LEMMA AppliedWithin ==
  ASSUME IInv, IInv', CInv, op.decision \in {"Put", "Patch"}, op.pc \in ApiCalls, Applied,
         SameScales, Alive, disturbed # "cut", disturbed' = disturbed, ~Bypassed,
         workerSts' # NoSts
  PROVE  AtMost(Replicas)'
<1>1. op.spec \in Int /\ op.deployed \in Int /\ Replicas \in Int
  BY Shapes DEF IInv
<1>2. workerSts # NoSts => AtMost(Replicas) /\ (Told => AtMost(op.spec))
  BY DEF CInv, Covered
<1>3. op.pc # "coordinator_sts" => Target' = Target
  BY AppliedLive, TargetStays DEF IInv
<1>a. /\ \A n : Loose(n) => LooseNext(n)
      /\ Target' = Target => \A n : AtMost(n) => WithinNext(n) \/ LooseNext(n)
  BY ScalesStay DEF IInv
<1>4. CASE op.pc = "coordinator_sts"
  <2>1. workerSts # NoSts /\ Replicas' = Replicas
    BY <1>4, AppliedLive
  <2>2. Replicas = op.spec
    BY <1>4, <2>1 DEF Bypassed, CInv, Deployed, Resizing, Replicas, Scales
  <2>3. Target' = Target \/ (Target' = op.spec /\ ~coord'.up)
    <3>1. Len(coord.requests) # 0 => Len(coord.requests) \in 1..Len(coord.requests)
      BY Shapes DEF IInv
    <3>2. coordinatorSts' = op.spec
      BY <1>4, AppliedLive
    <3> QED BY <3>1, <3>2, TargetIs, TargetNext DEF IInv, TargetView, SameScales
  <2>4. CASE Target' = Target
    BY <1>2, <1>a, <2>1, <2>4, NextForms
  <2>5. CASE Target' = op.spec /\ ~coord'.up
    BY <1>1, <2>1, <2>2, <2>5, NextForms DEF WithinNext
  <2> QED BY <2>3, <2>4, <2>5
<1>5. CASE op.pc \in {"worker_sts", "scale_sts"} /\ workerSts # NoSts
  <2>1. Replicas' = op.spec /\ Target' = Target
    BY <1>3, <1>5, AppliedLive
  <2>2. AtMost(op.spec)
    <3>1. CASE op.pc = "worker_sts"
      BY <1>2, <1>5, <3>1 DEF CInv, Covered, Resizing
    <3>2. CASE op.pc = "scale_sts" /\ Grows
      <4>1. Replicas <= op.spec
        BY <1>1, <3>2 DEF CInv, Resizing, Grows, IInv, ProperCall, PutCalls
      <4> QED BY <1>2, <1>5, <4>1, AtMostGrows, Shapes DEF IInv
    <3>3. CASE op.pc = "scale_sts" /\ ~Grows
      BY <1>2, <1>5, <3>3 DEF Told, IInv, ProperCall, PutCalls
    <3> QED BY <1>5, <3>1, <3>2, <3>3
  <2> QED BY <1>a, <2>1, <2>2, NextForms
<1>6. CASE op.pc \in {"worker_sts", "scale_sts"} /\ workerSts = NoSts
  <2>1. op.pc = "worker_sts" /\ op.decision = "Put"
    BY <1>6 DEF CInv, Deployed, IInv, ProperCall, PutCalls
  <2>2. Replicas' = op.spec /\ Target' = op.spec /\ Target = op.spec
    BY <1>3, <2>1, AppliedLive DEF Bypassed
  <2>3. coord.scale = 0 /\ Len(coord.requests) <= 1
    BY <1>6 DEF CInv, NoPodsYet
  <2>4. coord.up => \A i \in 1..Len(coord.requests) : coord.requests[i].desired <= op.spec
    <3> SUFFICES ASSUME coord.up, NEW i \in 1..Len(coord.requests)
                 PROVE  coord.requests[i].desired <= op.spec
      OBVIOUS
    <3>1. i = Len(coord.requests) /\ Len(coord.requests) # 0
      BY <2>3, Shapes DEF IInv
    <3>2. coord.requests[i].desired = op.spec
      BY <2>2, <3>1, TargetIs DEF IInv, TargetView
    <3> QED BY <1>1, <3>2
  <2>5. 0 <= op.spec /\ op.spec <= op.spec
    BY Shapes DEF IInv
  <2>6. Within(Replicas)'
    BY <2>2, <2>3, <2>4, <2>5 DEF Within, SameScales
  <2> QED BY <2>6 DEF AtMost
<1>7. CASE op.pc \notin {"worker_sts", "scale_sts", "coordinator_sts"}
  BY <1>2, <1>3, <1>7, <1>a, AppliedLive, NextForms
<1> QED BY <1>4, <1>5, <1>6, <1>7

LEMMA PutAgrees ==
  ASSUME IInv, IInv', CInv, ApiCall, op.decision = "Put"
  PROVE  CInv'
<1>1. UNCHANGED <<coord, committed, pods>> /\ op.pc \in ApiCalls /\ Applied
  BY DEF ApiCall, runtime
<1>2. disturbed' = IF Bypassed THEN "cut" ELSE disturbed
  BY DEF ApiCall, CutIf
<1>3. /\ op.pc \in PutCalls /\ op.pc # "reply" /\ op.answer = "none"
      /\ op'.pc # "reply" /\ op'.answer = "none" /\ op'.decision # "Patch"
  BY PutNext DEF CInv, OneAwaits, PutCalls, Idle
<1>4. OneAwaits'
  BY <1>1, <1>3, NobodyAwaits DEF CInv
<1>5. SameScales
  BY <1>1 DEF SameScales
<1>6. op.pc # "coordinator_sts" => Target' = Target
  BY <1>1, <1>5, AppliedLive, TargetStays DEF IInv
<1>8. ~Told' /\ (Alive' <=> Alive)
  BY <1>1, <1>3, AppliedLive DEF Told
<1>9. op.spec \in Scales
  BY <1>3 DEF IInv, ProperCall, PutCalls
<1>10. /\ op'.pc = "idle" => op.pc = "add_finalizer"
       /\ op'.pc = "add_finalizer" => op.pc = "status"
       /\ op'.pc = "status" => op.pc = "worker_sts"
       /\ op'.pc = "worker_sts" => op.pc = "coordinator_sts"
  BY <1>3, PutNext DEF CreateCall, PutCalls, Idle
<1>11. Deployed'
  <2>1. workerSts' # NoSts => Replicas' \in Scales
    BY <1>1, <1>9, AppliedLive DEF CInv, Deployed
  <2>2. Alive' /\ job'.finalizer => workerSts' # NoSts
    BY <1>1, AppliedLive DEF CInv, Deployed
  <2>3. Alive' /\ cache'.finalizer => job'.finalizer
    BY <1>1, AppliedLive DEF CInv, Deployed
  <2>4. op'.pc \in {"status", "add_finalizer"} => workerSts' # NoSts
    BY <1>1, <1>10, AppliedLive DEF CInv, Deployed
  <2> QED BY <1>3, <2>1, <2>2, <2>3, <2>4 DEF Deployed
<1>12. Resizing'
  BY <1>3 DEF Resizing
<1>13. op.pc = "worker_sts" /\ disturbed' # "cut" => Target = op.spec
  BY <1>2 DEF Bypassed
<1>14. op.pc = "coordinator_sts" /\ disturbed' # "cut" => Replicas \in {0, op.spec}
  BY <1>2 DEF Bypassed, Replicas
<1>15. Agreement'
  <2> SUFFICES ASSUME Alive', disturbed' # "cut", Settled'  PROVE Agrees(Replicas)'
    BY <1>8 DEF Agreement
  <2>1. op.pc \in {"worker_sts", "status", "add_finalizer"}
    BY <1>3, <1>10 DEF Settled
  <2>2. CASE op.pc = "worker_sts"
    BY <1>1, <1>6, <1>13, <2>2, AppliedLive DEF Agrees
  <2>3. CASE op.pc \in {"status", "add_finalizer"}
    <3>1. Agrees(Replicas) /\ disturbed' = disturbed
      BY <1>2, <1>8, <2>3 DEF CInv, Agreement, Settled
    <3>2. Target' = Target /\ Replicas' = Replicas
      BY <1>1, <1>6, <2>3, AppliedLive
    <3> QED BY <1>5, <3>1, <3>2, ScalesStay, NextForms DEF IInv
  <2> QED BY <2>1, <2>2, <2>3
<1>16. NoPodsYet'
  BY <1>1, <1>8, AppliedLive DEF CInv, NoPodsYet
<1>17. Covered'
  <2> SUFFICES ASSUME Alive', disturbed' # "cut", workerSts' # NoSts
               PROVE  /\ AtMost(Replicas)'
                      /\ op'.decision = "Put" /\ op'.pc = "worker_sts" => Replicas' = op'.spec
    BY <1>8 DEF Covered
  <2>1. Alive /\ disturbed # "cut" /\ disturbed' = disturbed /\ ~Bypassed
    BY <1>2, <1>8
  <2>2. AtMost(Replicas)'
    BY <1>1, <1>5, <2>1, AppliedWithin
  <2>3. ASSUME op.pc = "coordinator_sts" PROVE Replicas' = op'.spec
    <3>1. Replicas = op.spec
      BY <1>1, <1>14, <2>3, AppliedLive DEF CInv, Deployed, Scales
    <3> QED BY <1>1, <2>3, <3>1, AppliedLive, PutNext
  <2> QED BY <1>10, <2>2, <2>3
<1> QED BY <1>4, <1>11, <1>12, <1>15, <1>16, <1>17 DEF CInv

LEMMA PatchAgrees ==
  ASSUME IInv, IInv', CInv, ApiCall, op.decision = "Patch"
  PROVE  CInv'
<1>1. UNCHANGED <<coord, committed, pods>> /\ op.pc \in ApiCalls /\ Applied
  BY DEF ApiCall, runtime
<1>2. disturbed' = disturbed
  BY DEF ApiCall, Bypassed, CutIf
<1>3. op.pc \in PatchCalls \ {"rescale", "reply"} /\ op.pc # "reply" /\ op.answer = "none"
  BY PatchNext DEF CInv, OneAwaits
<1>4. op'.pc # "reply" /\ op'.answer = "none"
  BY <1>3, PatchNext DEF PatchCalls, Idle
<1>5. OneAwaits' /\ SameScales
  BY <1>1, <1>3, <1>4, NobodyAwaits DEF CInv, SameScales
<1>6. op.pc # "coordinator_sts" => Target' = Target
  BY <1>1, <1>5, AppliedLive, TargetStays DEF IInv
<1>7. op.pc = "coordinator_sts" => Target' = Target \/ (~coord.up /\ Target' = op.spec)
  BY <1>1, AppliedLive, TargetIs, TargetNext DEF IInv, TargetView
<1>8. /\ (Alive' <=> Alive) /\ workerSts # NoSts /\ workerSts' # NoSts /\ cache' = cache
      /\ job'.finalizer = job.finalizer
  BY <1>1, <1>3, AppliedLive DEF PatchCalls, CInv, Deployed
<1>9. op.spec \in Scales
  BY <1>3 DEF IInv, ProperCall, PatchCalls
<1>10. Deployed'
  <2>1. Replicas' \in Scales
    BY <1>1, <1>8, <1>9, AppliedLive DEF CInv, Deployed
  <2> QED BY <1>8, <2>1 DEF CInv, Deployed
<1>11. NoPodsYet'
  BY <1>8 DEF NoPodsYet
<1>12. Replicas' = IF op.pc \in {"worker_sts", "scale_sts"} THEN op.spec ELSE Replicas
  BY <1>1, AppliedLive
<1>13. op.spec \in Int /\ op.deployed \in Int /\ Replicas \in Int
  BY Shapes DEF IInv
<1>14. Resizing'
  <2>1. CASE op.pc \in {"coordinator_svc", "worker_svc", "status"}
    BY <2>1, PatchNext DEF Resizing, Idle
  <2>2. CASE op.pc \in {"get", "connect"}
    BY <1>12, <1>13, <2>2, PatchNext DEF CInv, Resizing, Grows
  <2>3. CASE op.pc = "scale_sts"
    BY <1>12, <1>13, <2>3, PatchNext DEF CInv, Resizing, Grows
  <2>4. CASE op.pc \in {"coordinator_sts", "worker_sts"}
    BY <1>12, <1>13, <2>4, PatchNext DEF CInv, Resizing, Grows
  <2> QED BY <1>3, <2>1, <2>2, <2>3, <2>4 DEF PatchCalls
<1>15. Agreement' /\ Covered'
  <2> SUFFICES ASSUME Alive', disturbed' # "cut"
               PROVE  /\ (Settled' => Agrees(Replicas)') /\ (Told' => Agrees(op.spec)')
                      /\ AtMost(Replicas)' /\ (Told' => AtMost(op.spec)')
                      /\ op'.decision = "Put" /\ op'.pc = "worker_sts" => Replicas' = op'.spec
    BY <1>8 DEF Agreement, Covered
  <2>1. /\ (Settled => Agrees(Replicas)) /\ (Told => Agrees(op.spec))
        /\ AtMost(Replicas) /\ (Told => AtMost(op.spec))
    BY <1>2, <1>8 DEF CInv, Agreement, Covered
  <2>2. op'.decision # "Put"
    BY PatchNext DEF Idle
  <2>a. /\ Resuming => Resuming'
        /\ Target' = Target => \A n : Agrees(n) => AgreesNext(n)
        /\ Target' = Target => \A n : AtMost(n) => WithinNext(n) \/ LooseNext(n)
    BY <1>2, <1>5, ScalesStay DEF IInv
  <2>3. CASE op.pc \in {"coordinator_svc", "worker_svc", "connect"}
    <3>1. Target' = Target /\ Replicas' = Replicas
      BY <1>6, <1>12, <2>3
    <3>2. (Settled' => Settled) /\ ~Told'
      BY <2>3, PatchNext DEF Settled, Told, Grows
    <3>3. AtMost(Replicas)' /\ (Agrees(Replicas) => Agrees(Replicas)')
      BY <2>1, <2>a, <3>1, NextForms
    <3> QED BY <2>1, <2>2, <3>2, <3>3
  <2>4. CASE op.pc = "get"
    <3>1. Target' = Target /\ Replicas' = Replicas /\ Settled
      BY <1>6, <1>12, <2>4 DEF Settled
    <3>2. ~Settled' /\ op'.spec = op.spec /\ (Told' => op'.spec = Replicas)
      BY <2>4, PatchNext DEF Settled, Told
    <3>3. AtMost(Replicas)' /\ (Told' => AtMost(op.spec)' /\ Agrees(op.spec)')
      BY <2>1, <2>a, <3>1, <3>2, NextForms
    <3> QED BY <2>2, <3>2, <3>3
  <2>5. CASE op.pc = "scale_sts" /\ Grows
    <3>1. Target' = Target /\ Replicas' = op.spec /\ Replicas <= op.spec
      BY <1>6, <1>12, <1>13, <2>5 DEF CInv, Resizing, Grows
    <3>2. ~Settled' /\ ~Told'
      BY <2>5, PatchNext DEF Settled, Told
    <3>3. AtMost(op.spec)
      BY <2>1, <3>1, AtMostGrows, Shapes DEF IInv
    <3>4. AtMost(Replicas)'
      BY <2>a, <3>1, <3>3, NextForms
    <3> QED BY <2>2, <3>2, <3>4
  <2>6. CASE op.pc = "worker_sts" \/ (op.pc = "scale_sts" /\ ~Grows)
    <3>1. Target' = Target /\ Replicas' = op.spec /\ Told
      BY <1>6, <1>12, <2>6 DEF Told
    <3>2. op'.spec = op.spec
      BY <2>6, PatchNext
    <3>3. AtMost(Replicas)' /\ AtMost(op.spec)' /\ Agrees(Replicas)' /\ Agrees(op.spec)'
      BY <2>1, <2>a, <3>1, <3>2, NextForms
    <3> QED BY <2>2, <3>3
  <2>7. CASE op.pc = "coordinator_sts"
    <3>1. Replicas' = Replicas /\ Told /\ Replicas = op.spec
      BY <1>12, <2>7 DEF Told, CInv, Resizing
    <3>2. op'.spec = op.spec
      BY <2>7, PatchNext
    <3>3. CASE Target' = Target
      BY <2>1, <2>2, <2>a, <3>1, <3>2, <3>3, NextForms
    <3>4. CASE ~coord.up /\ Target' = op.spec
      <4>1. AgreesNext(op.spec) /\ WithinNext(op.spec)
        BY <1>1, <1>13, <3>4 DEF AgreesNext, WithinNext
      <4> QED BY <2>2, <3>1, <3>2, <4>1, NextForms
    <3> QED BY <1>7, <2>7, <3>3, <3>4
  <2>8. CASE op.pc = "status"
    <3>1. Target' = Target /\ Replicas' = Replicas /\ Settled
      BY <1>6, <1>12, <2>8 DEF Settled
    <3>2. ~Told'
      BY <2>8, PatchNext DEF Told, Idle
    <3>3. AtMost(Replicas)' /\ Agrees(Replicas)'
      BY <2>1, <2>a, <3>1, NextForms
    <3> QED BY <2>2, <3>2, <3>3
  <2> QED BY <1>3, <2>3, <2>4, <2>5, <2>6, <2>7, <2>8 DEF PatchCalls
<1> QED BY <1>5, <1>10, <1>11, <1>14, <1>15 DEF CInv

LEMMA DeleteAgrees ==
  ASSUME IInv, IInv', CInv, op.decision = "Delete", ApiCall \/ SwallowedError
  PROVE  CInv'
<1>1. op.pc \in DeleteCalls /\ op \in OpType /\ op.pc # "reply" /\ op.pc # "get"
  BY TypeOKShape DEF IInv, ProperCall, DeleteCalls, Deletions
<1>2. coord' = coord /\ op' = Advanced(op)
  BY <1>1 DEF ApiCall, SwallowedError, runtime
<1>3. op'.decision \in {"Delete", "NoOp"}
  BY <1>1, <1>2, AdvancedDecision
<1>4. op'.pc # "reply"
  BY <1>3 DEF IInv, ProperCall, DeleteCalls, Deletions
<1>5. op'.answer = "none"
  BY <1>1, <1>2, AdvancedFields DEF CInv, OneAwaits, Idle
<1>6. OneAwaits'
  BY <1>1, <1>2, <1>4, <1>5, NobodyAwaits DEF CInv
<1>7. ~Alive' /\ workerSts' \in {NoSts, workerSts}
  <2>1. CASE ApiCall
    BY <1>1, <2>1, AppliedStep, AppliedDeletion DEF ApiCall, Alive, Doomed, IInv
  <2>2. CASE SwallowedError
    BY <2>2 DEF SwallowedError, cluster, Alive, Doomed, IInv, NoWayBack
  <2> QED BY <2>1, <2>2
<1>8. workerSts' # NoSts => Replicas' \in Scales
  BY <1>7 DEF CInv, Deployed, Replicas
<1> QED BY <1>3, <1>6, <1>7, <1>8, DeadStep DEF IInv

LEMMA ApiCallAgrees ==
  ASSUME IInv, IInv', CInv, ApiCall \/ SwallowedError
  PROVE  CInv'
<1>1. op.decision \in {"Put", "Patch", "Delete"}
  BY DEF IInv, ProperCall, TypeOK, ApiCall, ApiCalls, SwallowedError, Deletions
<1>2. SwallowedError => op.decision = "Delete"
  BY <1>1 DEF IInv, ProperCall, SwallowedError, Deletions, PutCalls, PatchCalls
<1> QED BY <1>1, <1>2, PutAgrees, PatchAgrees, DeleteAgrees

\* A reconciliation that ends half way.
LEMMA IdleAgrees ==
  ASSUME IInv, IInv', CInv, op' = Idle, op.pc # "idle", UNCHANGED pods, SameScales,
         \A i \in 1..Len(coord.requests) : ~coord'.requests[i].api,
         disturbed' = disturbed \/ disturbed' = "cut", HalfDone => disturbed' = "cut",
         \/ UNCHANGED cluster
         \/ op.pc \in ApiCalls /\ Applied /\ (Bypassed => disturbed' = "cut")
  PROVE  CInv'
<1>1. op'.decision = "NoOp" /\ op'.pc = "idle" /\ op'.answer = "none"
  BY DEF Idle
<1>2. OneAwaits'
  BY <1>1 DEF OneAwaits, SameScales
<1>3. op.decision \in {"Put", "Patch", "Delete"}
  BY DEF IInv, ProperCall, TypeOK
<1>4. CASE op.decision = "Delete"
  <2>1. op.pc \in DeleteCalls
    BY <1>4 DEF IInv, ProperCall
  <2>2. ~Alive' /\ workerSts' \in {NoSts, workerSts}
    <3>1. CASE UNCHANGED cluster
      BY <1>4, <3>1 DEF cluster, Alive, Doomed, IInv, NoWayBack
    <3>2. CASE op.pc \in ApiCalls /\ Applied
      <4>1. Doomed(job) /\ Doomed(job')
        BY <1>4, <3>2, AppliedJob DEF IInv, NoWayBack, Doomed
      <4> QED BY <2>1, <3>2, <4>1, AppliedDeletion DEF Alive, Doomed, IInv
    <3> QED BY <3>1, <3>2
  <2>3. workerSts' # NoSts => Replicas' \in Scales
    BY <2>2 DEF CInv, Deployed, Replicas
  <2> QED BY <1>1, <1>2, <2>2, <2>3, DeadStep DEF IInv
<1>5. CASE op.decision \in {"Put", "Patch"}
  <2>1. /\ Alive' <=> Alive
        /\ cache' = cache
        /\ workerSts' # NoSts => Replicas' \in Scales
        /\ workerSts' = NoSts => workerSts = NoSts
        /\ job.finalizer => job'.finalizer
        /\ Alive /\ job'.finalizer => workerSts # NoSts
    <3>1. CASE UNCHANGED cluster
      BY <3>1 DEF cluster, Alive, CInv, Deployed, Replicas
    <3>2. CASE op.pc \in ApiCalls /\ Applied
      <4>1. op.spec \in Scales
        BY DEF IInv, ProperCall
      <4> QED BY <1>5, <3>2, <4>1, AppliedLive DEF CInv, Deployed
    <3> QED BY <3>1, <3>2
  <2>2. Deployed' /\ Resizing'
    BY <1>1, <2>1 DEF CInv, Deployed, Resizing
  <2>3. ~Told'
    BY <1>1 DEF Told
  <2>4. workerSts # NoSts /\ disturbed' # "cut" => Replicas' = Target'
    BY <1>5 DEF HalfDone, Replicas
  <2>5. Agreement'
    BY <1>1, <2>1, <2>3, <2>4 DEF Agreement, Settled, Agrees
  <2>6. NoPodsYet'
    BY <2>1 DEF CInv, NoPodsYet, SameScales
  <2>7. Covered'
    <3> SUFFICES ASSUME Alive', disturbed' # "cut", workerSts' # NoSts
                 PROVE  AtMost(Replicas)'
      BY <1>1, <2>3 DEF Covered
    <3>1. Alive /\ disturbed # "cut" /\ disturbed' = disturbed
      BY <2>1
    <3>2. CASE UNCHANGED cluster
      <4>1. Replicas' = Replicas /\ Target' = Target /\ AtMost(Replicas)
        BY <3>1, <3>2, TargetStays DEF cluster, Replicas, CInv, Covered, IInv
      <4> QED BY <3>1, <4>1, ScalesStay, NextForms DEF IInv
    <3>3. CASE op.pc \in ApiCalls /\ Applied /\ (Bypassed => disturbed' = "cut")
      BY <1>5, <3>1, <3>3, AppliedWithin
    <3> QED BY <3>2, <3>3
  <2> QED BY <1>2, <2>2, <2>5, <2>6, <2>7 DEF CInv
<1> QED BY <1>3, <1>4, <1>5

LEMMA OnErrorAgrees ==
  ASSUME IInv, IInv', CInv, OnError
  PROVE  CInv'
<1>1. op' = Idle /\ UNCHANGED cluster /\ UNCHANGED <<coord, committed, pods>>
      /\ disturbed' = IF HalfDone THEN "cut" ELSE disturbed
  BY DEF OnError, CutIf, runtime
<1>2. op.pc # "idle" /\ (op.pc = "reply" => op.answer # "none")
  BY DEF OnError, ApiCalls, Deletions
<1>3. SameScales
  BY <1>1 DEF SameScales
<1>4. \A i \in 1..Len(coord.requests) : ~coord'.requests[i].api
  BY <1>1, <1>2 DEF CInv, OneAwaits
<1> QED BY <1>1, <1>2, <1>3, <1>4, IdleAgrees

LEMMA UnawaitedFields ==
  ASSUME NEW c \in CoordType
  PROVE  /\ Unawaited(c).up = c.up /\ Unawaited(c).scale = c.scale /\ Unawaited(c).env = c.env
         /\ Len(Unawaited(c).requests) = Len(c.requests)
         /\ \A i \in 1..Len(c.requests) :
              /\ Unawaited(c).requests[i].desired = c.requests[i].desired
              /\ ~Unawaited(c).requests[i].api
<1> DEFINE q == [i \in DOMAIN c.requests |-> [c.requests[i] EXCEPT !.api = FALSE]]
<1>1. /\ c.requests \in Seq(Requests) /\ DOMAIN c.requests = 1..Len(c.requests)
      /\ Len(c.requests) \in Nat
  BY LenProperties DEF CoordType
<1>2. Unawaited(c) \in CoordType /\ Unawaited(c) = [c EXCEPT !.requests = q]
  BY UnawaitedType DEF Unawaited
<1>3. /\ Unawaited(c).up = c.up /\ Unawaited(c).scale = c.scale /\ Unawaited(c).env = c.env
      /\ Unawaited(c).requests = q
      /\ q \in Seq(Requests)
  BY <1>2 DEF CoordType
<1>4. DOMAIN q = 1..Len(c.requests)
  BY <1>1
<1>5. Len(q) = Len(c.requests)
  BY <1>1, <1>3, <1>4, LenProperties
<1>6. \A i \in 1..Len(c.requests) : q[i].desired = c.requests[i].desired /\ ~q[i].api
  <2> TAKE i \in 1..Len(c.requests)
  <2>1. c.requests[i] \in Requests /\ q[i] = [c.requests[i] EXCEPT !.api = FALSE]
    BY <1>1, ElementOfSeq
  <2> QED BY <2>1 DEF Requests
<1> QED BY <1>3, <1>5, <1>6

LEMMA FailedCallAgrees ==
  ASSUME IInv, IInv', CInv, FailedCall
  PROVE  CInv'
<1>1. op' = Idle /\ op.pc # "idle" /\ UNCHANGED <<pods, committed>> /\ coord' = Unawaited(coord)
      /\ disturbed' = IF Bypassed \/ HalfDone THEN "cut" ELSE disturbed
  BY DEF FailedCall, CutIf
<1>2. UNCHANGED cluster \/ (op.pc \in ApiCalls /\ Applied)
  BY DEF FailedCall
<1>3. coord \in CoordType
  BY TypeOKShape DEF IInv
<1>4. SameScales /\ \A i \in 1..Len(coord.requests) : ~coord'.requests[i].api
  BY <1>1, <1>3, UnawaitedFields DEF SameScales
<1> QED BY <1>1, <1>2, <1>4, IdleAgrees

LEMMA RescaleAgrees ==
  ASSUME IInv, IInv', CInv, Rescale
  PROVE  CInv'
<1>1. UNCHANGED <<job, cache, workerSts, pods, committed, disturbed>>
  BY DEF Rescale, cluster
<1>2. op.pc = "rescale" /\ op' = Advanced(op) /\ op \in OpType /\ coord \in CoordType /\ coord.up
  BY TypeOKShape DEF Rescale, IInv
<1>3. op.decision = "Patch" /\ op.answer = "none"
  BY <1>2 DEF IInv, ProperCall, OpType, PutCalls, DeleteCalls, Deletions, CInv, OneAwaits
<1>4. NextCall(op) = "reply"
  BY <1>2, <1>3 DEF NextCall, CallAfter, PatchCall, RescaleCall
<1>5. /\ op'.decision = "Patch" /\ op'.pc = "reply" /\ op'.spec = op.spec
      /\ op'.deployed = op.deployed /\ op'.answer = "none"
  BY <1>2, <1>3, <1>4, AdvancedFields
<1>6. /\ coord'.up /\ coord'.scale = coord.scale /\ coord'.env = coord.env
      /\ coord'.requests = Append(coord.requests, Request(op))
  BY <1>2 DEF Rescale, CoordType
<1>7. Request(op).desired = op.spec /\ Request(op).api /\ Request(op) \in Requests
  <2>1. op.spec \in Scales
    BY <1>2 DEF IInv, ProperCall
  <2> QED BY <2>1 DEF Request, Requests
<1>8. coord.requests \in Seq(Requests)
  BY <1>2 DEF CoordType
<1>9. /\ Len(coord'.requests) = Len(coord.requests) + 1
      /\ \A i \in 1..Len(coord.requests) : coord'.requests[i] = coord.requests[i]
      /\ coord'.requests[Len(coord.requests) + 1] = Request(op)
  BY <1>6, <1>7, <1>8, AppendProperties
<1>10. Len(coord.requests) \in Nat
  BY <1>8
<1>11. OneAwaits'
  <2>1. \A i \in 1..Len(coord.requests) : ~coord.requests[i].api
    BY <1>2 DEF CInv, OneAwaits
  <2>2. \A i \in 1..Len(coord'.requests) : coord'.requests[i].api => i = Len(coord'.requests)
    <3> TAKE i \in 1..Len(coord'.requests)
    <3>1. i \in 1..Len(coord.requests) \/ i = Len(coord'.requests)
      BY <1>9, <1>10
    <3> QED BY <1>9, <2>1, <3>1
  <2>3. Len(coord'.requests) > 0
    BY <1>9, <1>10
  <2> QED BY <1>5, <1>6, <1>7, <1>9, <2>2, <2>3 DEF OneAwaits
<1>12. /\ (Grows' <=> Grows) /\ Replicas' = Replicas /\ (Alive' <=> Alive)
       /\ ~Told' /\ ~Settled' /\ workerSts' # NoSts
  BY <1>1, <1>3, <1>5 DEF Grows, Replicas, Alive, Told, Settled, CInv, Deployed
<1>13. Deployed' /\ Resizing'
  BY <1>1, <1>2, <1>3, <1>5, <1>12 DEF CInv, Deployed, Resizing
<1>14. Agreement' /\ NoPodsYet'
  BY <1>12 DEF Agreement, NoPodsYet
<1>15. Covered'
  <2> SUFFICES ASSUME Alive', disturbed' # "cut"  PROVE AtMost(Replicas)'
    BY <1>5, <1>12 DEF Covered
  <2>1. AtMost(Replicas)
    BY <1>1, <1>12 DEF CInv, Covered
  <2>2. op.spec <= Replicas
    BY <1>2, <1>3, Shapes DEF CInv, Resizing, Grows, IInv
  <2>3. \A i \in 1..Len(coord'.requests) :
          \/ coord'.requests[i].desired <= Replicas
          \/ i \in 1..Len(coord.requests) /\ coord'.requests[i] = coord.requests[i]
    <3> TAKE i \in 1..Len(coord'.requests)
    <3>1. i \in 1..Len(coord.requests) \/ i = Len(coord'.requests)
      BY <1>9, <1>10
    <3> QED BY <1>7, <1>9, <2>2, <3>1
  <2>4. CASE Within(Replicas)
    BY <1>2, <1>6, <1>12, <2>3, <2>4, NextForms DEF Within, WithinNext
  <2>5. CASE Loose(Replicas)
    <3>1. Resumed' = Resumed
      BY <1>1, <1>2, <1>6 DEF Resumed
    <3>2. LooseNext(Replicas)
      BY <1>1, <1>2, <1>6, <2>3, <2>5, <3>1 DEF Loose, LooseNext
    <3> QED BY <1>12, <3>2, NextForms
  <2> QED BY <2>1, <2>4, <2>5 DEF AtMost
<1> QED BY <1>11, <1>13, <1>14, <1>15 DEF CInv

-----------------------------------------------------------------------------
(* Pods and the coordinator's process.                                     *)

LEMMA PodAgrees ==
  ASSUME IInv, IInv', CInv, NEW o \in Ordinals, CreatePod(o) \/ RemovePod(o)
  PROVE  CInv'
<1>1. UNCHANGED <<job, cache, coordinatorSts, workerSts, op, coord, committed, disturbed>>
  BY DEF CreatePod, RemovePod, cluster
<1>2. SameScales /\ OneAwaits'
  BY <1>1 DEF SameScales, CInv, OneAwaits
<1>3. CreatePod(o) => workerSts # NoSts
  BY ScaleAssumption DEF CreatePod, NoSts, Ordinals
<1>4. RemovePod(o) => pods[o] # 0
  BY DEF RemovePod
<1>5. Alive' => Alive /\ job'.finalizer = job.finalizer
  BY <1>1 DEF Alive
<1>6. Alive' /\ cache'.finalizer => job'.finalizer
  BY <1>1, <1>5 DEF CInv, Deployed
<1> QED BY <1>1, <1>2, <1>3, <1>4, <1>5, <1>6, QuietStep DEF IInv

\* A step of the coordinator that does not change what it is going to be.
LEMMA CoordinatorMoves ==
  ASSUME IInv, IInv', CInv, OneAwaits', NoPodsYet', UNCHANGED cluster,
         op'.decision = op.decision, op'.pc = op.pc, op'.spec = op.spec,
         op'.deployed = op.deployed, op'.answer = "ok" <=> op.answer = "ok",
         disturbed = "cut" => disturbed' = "cut",
         \A n \in 0..MaxScale : disturbed' # "cut" =>
            /\ Agrees(n) => AgreesNext(n)
            /\ AtMost(n) => WithinNext(n) \/ LooseNext(n)
  PROVE  CInv'
<1>1. UNCHANGED <<job, cache, coordinatorSts, workerSts>>
  BY DEF cluster
<1>2. /\ (Told' <=> Told) /\ (Settled' <=> Settled) /\ Replicas' = Replicas /\ (Grows' <=> Grows)
      /\ (Alive' <=> Alive)
  BY <1>1 DEF Told, Settled, Replicas, Grows, Alive
<1>3. Deployed' /\ Resizing'
  BY <1>1, <1>2 DEF CInv, Deployed, Resizing
<1>5. Replicas \in 0..MaxScale /\ op.spec \in 0..MaxScale
  BY Shapes DEF IInv
<1>4. Agreement'
  <2>1. disturbed' # "cut" =>
          (Agrees(Replicas) => Agrees(Replicas)') /\ (Agrees(op.spec) => Agrees(op.spec)')
    BY <1>2, <1>5, NextForms
  <2> QED BY <1>2, <2>1 DEF CInv, Agreement
<1>6. disturbed' # "cut" =>
        (AtMost(Replicas) => AtMost(Replicas)') /\ (AtMost(op.spec) => AtMost(op.spec)')
  BY <1>2, <1>5, NextForms
<1>7. Covered'
  BY <1>1, <1>2, <1>6 DEF CInv, Covered
<1> QED BY <1>3, <1>4, <1>7 DEF CInv

LEMMA StartCoordinatorAgrees ==
  ASSUME IInv, IInv', CInv, StartCoordinator
  PROVE  CInv'
<1>1. UNCHANGED <<cluster, op, pods, committed, disturbed>> /\ ~coord.up
  BY DEF StartCoordinator
<1>2. /\ coord'.up /\ coord'.scale = committed /\ coord'.env = coordinatorSts
      /\ coord'.requests = IF committed = 0 THEN <<[desired |-> coordinatorSts, api |-> FALSE]>> ELSE <<>>
  BY DEF StartCoordinator, Execute
<1>3. /\ committed = 0 => /\ Len(coord'.requests) = 1
                          /\ coord'.requests[1].desired = coordinatorSts /\ ~coord'.requests[1].api
      /\ committed # 0 => Len(coord'.requests) = 0
  BY <1>2
<1>4. Target = IF committed # 0 THEN committed ELSE coordinatorSts
  BY <1>1 DEF Target
<1>5. Target' = Target
  BY <1>1, <1>2, <1>3, <1>4, TargetNext DEF IInv, TargetView
<1>6. \A i \in 1..Len(coord'.requests) : i = 1 /\ committed = 0
  <2>1. CASE committed = 0
    <3>1. Len(coord'.requests) = 1
      BY <1>3, <2>1
    <3> QED BY <2>1, <3>1
  <2>2. CASE committed # 0
    <3>1. Len(coord'.requests) = 0
      BY <1>3, <2>2
    <3> QED BY <3>1
  <2> QED BY <2>1, <2>2
<1>7. OneAwaits'
  BY <1>1, <1>3, <1>6 DEF CInv, OneAwaits
<1>8. NoPodsYet'
  BY <1>1, <1>2, <1>3 DEF CInv, NoPodsYet, cluster, Alive
<1>9. ASSUME NEW n \in 0..MaxScale, Within(n)
      PROVE  coord'.scale <= n /\ \A i \in 1..Len(coord'.requests) : coord'.requests[i].desired <= n
  <2>1. Target <= n
    BY <1>1, <1>9 DEF Within
  <2>2. committed <= n
    BY <1>4, <2>1, Shapes DEF IInv
  <2> QED BY <1>2, <1>3, <1>4, <1>6, <2>1, <2>2
<1>10. Resumed' = IF committed # 0 THEN committed ELSE coordinatorSts
  BY <1>1, <1>2 DEF Resumed
<1>11. disturbed = "reverted" => Resuming' /\ \A n \in 0..MaxScale : LooseNext(n)
  <2>1. \A n \in 0..MaxScale : 0 <= n
    BY ScaleAssumption
  <2> QED BY <1>1, <1>2, <1>3, <1>6, <1>10, <2>1 DEF Resuming, LooseNext
<1>12. \A n \in 0..MaxScale : Agrees(n) => AgreesNext(n)
  BY <1>5, <1>11 DEF Agrees, AgreesNext, Resuming
<1>13. \A n \in 0..MaxScale : AtMost(n) => WithinNext(n) \/ LooseNext(n)
  BY <1>2, <1>9, <1>11 DEF AtMost, Loose, WithinNext
<1> QED BY <1>1, <1>7, <1>8, <1>12, <1>13, CoordinatorMoves

LEMMA CoordinatorEndsAgrees ==
  ASSUME IInv, IInv', CInv, CoordinatorEnds,
         disturbed = "cut" => disturbed' = "cut",
         disturbed' # "cut" => disturbed' = "reverted" \/ (disturbed = "no" /\ Target' = Target)
  PROVE  CInv'
<1>1. UNCHANGED cluster /\ UNCHANGED <<pods, committed>>
  BY DEF CoordinatorEnds
<1>2. ~coord'.up /\ coord'.scale = 0 /\ coord'.requests = <<>> /\ Len(coord'.requests) = 0
  BY DEF CoordinatorEnds, NoProcess
<1>3. op \in OpType
  BY TypeOKShape DEF IInv
<1>4. /\ op'.decision = op.decision /\ op'.pc = op.pc /\ op'.spec = op.spec /\ op'.deployed = op.deployed
      /\ op'.answer = IF op.pc = "reply" /\ op.answer = "none" THEN "error" ELSE op.answer
  BY <1>3 DEF CoordinatorEnds, OpType
<1>5. OneAwaits'
  BY <1>2, <1>4 DEF CInv, OneAwaits
<1>6. NoPodsYet'
  BY <1>1, <1>2 DEF CInv, NoPodsYet, cluster, Alive
<1>7. disturbed' = "reverted" => Resuming' /\ \A n \in 0..MaxScale : LooseNext(n)
  BY <1>2 DEF Resuming, LooseNext
<1>8. \A n \in 0..MaxScale : disturbed' # "cut" => (Agrees(n) => AgreesNext(n))
  BY <1>7 DEF Agrees, AgreesNext, Resuming
<1>9. \A n \in 0..MaxScale : disturbed' # "cut" => (AtMost(n) => WithinNext(n) \/ LooseNext(n))
  BY <1>2, <1>7, TargetWithin DEF IInv, AtMost, Loose, WithinNext
<1> QED BY <1>1, <1>4, <1>5, <1>6, <1>8, <1>9, CoordinatorMoves

LEMMA CoordinatorGoes ==
  ASSUME IInv, IInv', CInv, ReplaceCoordinator \/ CoordinatorDies
  PROVE  CInv'
<1>1. disturbed \in {"no", "reverted", "cut"}
  BY DEF IInv, TypeOK
<1>2. CASE ReplaceCoordinator
  <2>1. CoordinatorEnds
    BY <1>2 DEF ReplaceCoordinator
  <2>2. disturbed' = IF Target' # Target /\ disturbed = "no" THEN "reverted" ELSE disturbed
    BY <1>2 DEF ReplaceCoordinator
  <2> QED BY <1>1, <2>1, <2>2, CoordinatorEndsAgrees
<1>3. CASE CoordinatorDies
  <2>1. CoordinatorEnds
    BY <1>3 DEF CoordinatorDies
  <2>2. disturbed' = IF Target' # Target THEN "cut" ELSE disturbed
    BY <1>3 DEF CoordinatorDies, CutIf
  <2> QED BY <1>1, <2>1, <2>2, CoordinatorEndsAgrees
<1> QED BY <1>2, <1>3

LEMMA StartJobAgrees ==
  ASSUME IInv, IInv', CInv, StartJob
  PROVE  CInv'
<1>1. UNCHANGED <<job, cache, coordinatorSts, workerSts, op, pods, committed, disturbed>>
  BY DEF StartJob, cluster
<1>2. /\ coord'.up = coord.up /\ coord'.scale = coord.scale /\ coord'.requests = coord.requests
      /\ coord'.env = coord.env
  BY TypeOKShape DEF StartJob, IInv, CoordType
<1>3. SameScales /\ OneAwaits'
  BY <1>1, <1>2 DEF SameScales, CInv, OneAwaits
<1>4. Alive' => Alive /\ job'.finalizer = job.finalizer /\ (cache'.finalizer => job'.finalizer)
  BY <1>1 DEF Alive, CInv, Deployed
<1> QED BY <1>1, <1>3, <1>4, QuietStep DEF IInv

LEMMA AutoSnapshotAgrees ==
  ASSUME IInv, IInv', CInv, AutoSnapshot
  PROVE  CInv'
<1>1. UNCHANGED <<cluster, op, pods, coord, disturbed>> /\ coord.up /\ coord.scale # 0
      /\ committed' = coord.scale
  BY DEF AutoSnapshot
<1>2. Target' = Target
  BY <1>1 DEF Target
<1>3. OneAwaits' /\ NoPodsYet'
  BY <1>1 DEF CInv, OneAwaits, NoPodsYet, cluster, Alive
<1>4. Resumed' = coord'.scale
  BY <1>1 DEF Resumed
<1>5. Resuming => Resuming'
  BY <1>1, <1>4 DEF Resuming
<1>6. \A n \in 0..MaxScale : Agrees(n) => AgreesNext(n)
  BY <1>2, <1>5 DEF Agrees, AgreesNext
<1>7. \A n \in 0..MaxScale : AtMost(n) => WithinNext(n) \/ LooseNext(n)
  BY <1>1, <1>4 DEF AtMost, Within, Loose, WithinNext, LooseNext
<1> QED BY <1>1, <1>3, <1>6, <1>7, CoordinatorMoves

LEMMA ServeRescaleAgrees ==
  ASSUME IInv, IInv', CInv, ServeRescale
  PROVE  CInv'
<1> DEFINE q == coord.requests
           r == Head(coord.requests)
<1>1. coord \in CoordType /\ q \in Seq(Requests) /\ q # <<>> /\ op \in OpType /\ coord.up
  BY TypeOKShape DEF ServeRescale, IInv, CoordType
<1>2. UNCHANGED cluster /\ UNCHANGED <<pods, committed>>
      /\ disturbed' = IF r.api THEN "no" ELSE disturbed
  BY DEF ServeRescale
<1>3. /\ coord'.up /\ coord'.scale = r.desired /\ coord'.requests = Tail(q)
      /\ coord'.env = coord.env
  BY <1>1 DEF ServeRescale, CoordType
<1>4. /\ r = q[1] /\ Len(q) \in Nat \ {0} /\ r \in Requests
      /\ Len(Tail(q)) = Len(q) - 1
      /\ \A i \in 1..(Len(q) - 1) : Tail(q)[i] = q[i + 1]
  <2>1. /\ Len(q) \in Nat \ {0} /\ r = q[1] /\ r \in Requests
    BY <1>1
  <2>2. Len(Tail(q)) = Len(q) - 1 /\ \A i \in 1..(Len(q) - 1) : Tail(q)[i] = q[i + 1]
    BY <1>1, HeadTailProperties
  <2> QED BY <2>1, <2>2
<1>5. op' = IF r.api THEN [op EXCEPT !.answer = "ok"] ELSE op
  BY DEF ServeRescale
<1>6. Present(Needed(r.desired))
  BY DEF ServeRescale
<1>7. /\ op'.decision = op.decision /\ op'.pc = op.pc /\ op'.spec = op.spec /\ op'.deployed = op.deployed
      /\ op'.answer = IF r.api THEN "ok" ELSE op.answer
  BY <1>1, <1>5 DEF OpType
<1>8. r.desired \in 1..MaxScale
  BY <1>4 DEF Requests, Scales
<1> HIDE DEF q, r
<1>a. Len(coord'.requests) = Len(q) - 1
  BY <1>3, <1>4
<1>9. CASE r.api
  <2>1. Len(q) = 1 /\ op.pc = "reply" /\ op.answer = "none" /\ r.desired = op.spec
    <3>1. 1 \in 1..Len(q) /\ q[1].api
      BY <1>4, <1>9
    <3>2. 1 = Len(q) /\ op.pc = "reply" /\ op.answer = "none"
      BY <3>1 DEF CInv, OneAwaits, q
    <3>3. q[Len(q)].desired = op.spec
      BY <3>2 DEF CInv, OneAwaits, q
    <3> QED BY <1>4, <3>2, <3>3
  <2>2. op.decision = "Patch"
    BY <1>1, <2>1 DEF IInv, ProperCall, OpType, PutCalls, DeleteCalls, Deletions
  <2>3. Len(coord'.requests) = 0
    BY <1>3, <1>4, <2>1
  <2>4. OneAwaits'
    BY <1>7, <1>9, <2>1, <2>3 DEF OneAwaits
  <2>5. /\ workerSts' = workerSts /\ workerSts # NoSts /\ Replicas' = Replicas /\ (Alive' <=> Alive)
        /\ (Grows' <=> Grows) /\ ~Settled'
    BY <1>2, <1>7, <2>1, <2>2 DEF cluster, CInv, Deployed, Replicas, Alive, Grows, Settled
  <2>6. Deployed' /\ Resizing'
    BY <1>2, <1>7, <2>5 DEF CInv, Deployed, Resizing, cluster
  <2>7. Target' = op.spec
    BY <1>3, <2>1, <2>3, TargetNext DEF IInv, TargetView
  <2>8. Agreement' /\ NoPodsYet'
    BY <1>7, <2>5, <2>7 DEF Agreement, Agrees, NoPodsYet
  <2>9. op.spec <= Replicas /\ op.spec <= op.spec
    BY <2>1, <2>2, Shapes DEF CInv, Resizing, Grows, IInv
  <2>10. Within(Replicas)' /\ Within(op.spec)'
    <3>1. \A i \in 1..Len(coord'.requests) : FALSE
      BY <2>3
    <3>2. coord'.up /\ coord'.scale = op.spec
      BY <1>3, <2>1
    <3>3. op'.spec = op.spec
      BY <1>7
    <3> QED BY <2>5, <2>9, <3>1, <3>2, <3>3 DEF Within
  <2>11. Covered'
    BY <1>7, <2>2, <2>10 DEF Covered, AtMost
  <2> QED BY <2>4, <2>6, <2>8, <2>11 DEF CInv
<1>10. CASE ~r.api
  <2>1. Target' = Target
    <3>1. CASE Len(q) = 1
      <4>1. Target = q[1].desired
        BY <1>1, <3>1, TargetIs DEF IInv, TargetView, q
      <4>2. Target' = r.desired
        BY <1>3, <1>4, <3>1, TargetNext DEF IInv, TargetView
      <4> QED BY <1>4, <4>1, <4>2
    <3>2. CASE Len(q) # 1
      <4>1. Target = q[Len(q)].desired
        BY <1>1, <1>4, <3>2, TargetIs DEF IInv, TargetView, q
      <4>2. Len(q) - 1 \in 1..(Len(q) - 1) /\ (Len(q) - 1) + 1 = Len(q) /\ Len(q) - 1 # 0
        BY <1>4, <3>2
      <4>3. coord'.requests[Len(coord'.requests)] = q[Len(q)]
        BY <1>3, <1>4, <4>2
      <4>4. Target' = coord'.requests[Len(coord'.requests)].desired
        BY <1>3, <1>4, <4>2, TargetNext DEF IInv, TargetView
      <4> QED BY <4>1, <4>3, <4>4
    <3> QED BY <3>1, <3>2
  <2>2. OneAwaits'
    <3>1. \A i \in 1..Len(coord'.requests) : i + 1 \in 1..Len(q) /\ coord'.requests[i] = q[i + 1]
      BY <1>3, <1>4
    <3>2. \A i \in 1..Len(coord'.requests) : coord'.requests[i].api =>
            i = Len(coord'.requests) /\ op.pc = "reply" /\ op.answer = "none"
      <4> SUFFICES ASSUME NEW i \in 1..Len(coord'.requests), coord'.requests[i].api
                   PROVE  i = Len(coord'.requests) /\ op.pc = "reply" /\ op.answer = "none"
        OBVIOUS
      <4>1. i + 1 = Len(q) /\ op.pc = "reply" /\ op.answer = "none"
        BY <3>1 DEF CInv, OneAwaits, q
      <4> QED BY <1>a, <4>1
    <3>3. ASSUME op.pc = "reply", op.answer = "none"
          PROVE  /\ Len(coord'.requests) > 0
                 /\ coord'.requests[Len(coord'.requests)].desired = op.spec
                 /\ coord'.requests[Len(coord'.requests)].api
      <4>1. q[Len(q)].api /\ q[Len(q)].desired = op.spec
        BY <3>3 DEF CInv, OneAwaits, q
      <4>2. Len(q) # 1
        BY <1>4, <1>10, <4>1
      <4>3. Len(q) - 1 \in 1..(Len(q) - 1) /\ (Len(q) - 1) + 1 = Len(q) /\ Len(q) - 1 > 0
        BY <1>4, <4>2
      <4>4. coord'.requests[Len(coord'.requests)] = q[Len(q)]
        BY <1>3, <1>4, <4>3
      <4> QED BY <1>3, <1>4, <4>1, <4>3, <4>4
    <3> QED BY <1>3, <1>7, <1>10, <3>2, <3>3 DEF CInv, OneAwaits
  <2>3. NoPodsYet'
    <3> SUFFICES ASSUME Alive', workerSts' = NoSts  PROVE FALSE
      BY DEF NoPodsYet
    <3>1. (\A o \in Ordinals : pods[o] = 0) /\ coord.scale = 0
      BY <1>2 DEF CInv, NoPodsYet, cluster, Alive
    <3>2. Needed(r.desired) = r.desired
      BY <1>8, <3>1 DEF Needed
    <3>3. 0 \in Ordinals /\ 0 < r.desired
      BY <1>8, ScaleAssumption DEF Ordinals
    <3> QED BY <1>6, <3>1, <3>2, <3>3 DEF Present
  <2>4. \A i \in 1..Len(coord'.requests) :
          i + 1 \in 1..Len(q) /\ i + 1 # 1 /\ coord'.requests[i] = q[i + 1]
    BY <1>3, <1>4
  <2>5. 1 \in 1..Len(q) /\ r = q[1]
    BY <1>4
  <2>6. disturbed' = disturbed
    BY <1>2, <1>10
  <2>7. coord.scale = 0 /\ committed = 0 /\ r.desired = coord.env => coord'.scale = Resumed'
    BY <1>2, <1>3 DEF Resumed
  <2>8. Resuming => Resuming'
    BY <1>1, <1>3, <1>4, <1>a, <2>5, <2>6, <2>7 DEF Resuming, q
  <2>9. \A n \in 0..MaxScale : Agrees(n) => AgreesNext(n)
    BY <2>1, <2>8 DEF Agrees, AgreesNext
  <2>10. \A n \in 0..MaxScale : Within(n) => WithinNext(n)
    <3> SUFFICES ASSUME NEW n \in 0..MaxScale, Within(n)  PROVE WithinNext(n)
      OBVIOUS
    <3>1. \A i \in 1..Len(q) : q[i].desired <= n
      BY <1>1 DEF Within, q
    <3> QED BY <1>3, <2>4, <2>5, <3>1 DEF WithinNext
  <2>11. \A n \in 0..MaxScale : Loose(n) => LooseNext(n)
    <3> SUFFICES ASSUME NEW n \in 0..MaxScale, Loose(n)  PROVE LooseNext(n)
      OBVIOUS
    <3>1. \A i \in 1..Len(q) :
            \/ q[i].desired <= n
            \/ i = 1 /\ coord.scale = 0 /\ committed = 0 /\ q[i].desired = coord.env
      BY <1>1 DEF Loose, q
    <3>2. coord'.scale <= n \/ coord'.scale = Resumed'
      BY <1>3, <2>5, <2>7, <3>1
    <3>3. \A i \in 1..Len(coord'.requests) : coord'.requests[i].desired <= n
      BY <2>4, <3>1
    <3> QED BY <2>6, <3>2, <3>3 DEF Loose, LooseNext
  <2>12. \A n \in 0..MaxScale : AtMost(n) => WithinNext(n) \/ LooseNext(n)
    BY <2>10, <2>11 DEF AtMost
  <2> QED BY <1>2, <1>7, <1>10, <2>2, <2>3, <2>6, <2>9, <2>12, CoordinatorMoves
<1> QED BY <1>9, <1>10

-----------------------------------------------------------------------------
(* The second invariant and its theorems.                                  *)

LEMMA InitAgrees == Init => CInv
<1> SUFFICES ASSUME Init PROVE CInv
  OBVIOUS
<1>1. /\ workerSts = NoSts /\ op = Idle /\ coord = NoProcess /\ committed = 0
      /\ pods = [o \in Ordinals |-> 0]
      /\ job.finalizer = FALSE /\ cache.finalizer = FALSE
  BY DEF Init
<1>2. op.decision = "NoOp" /\ op.pc = "idle" /\ op.answer = "none"
  BY <1>1 DEF Idle
<1>3. coord.scale = 0 /\ coord.requests = <<>> /\ Len(coord.requests) = 0
  BY <1>1 DEF NoProcess
<1>4. \A i \in 1..Len(coord.requests) : FALSE
  BY <1>3
<1>5. OneAwaits
  BY <1>2, <1>4 DEF OneAwaits
<1>6. Deployed /\ Resizing /\ Agreement
  BY <1>1, <1>2 DEF Deployed, Resizing, Agreement, Settled, Told
<1>7. NoPodsYet
  BY <1>1, <1>3 DEF NoPodsYet
<1>8. Covered
  BY <1>1 DEF Covered
<1> QED BY <1>5, <1>6, <1>7, <1>8 DEF CInv

LEMMA NextAgrees == IInv /\ IInv' /\ CInv /\ [Next]_vars => CInv'
<1> SUFFICES ASSUME IInv, IInv', CInv, [Next]_vars PROVE CInv'
  OBVIOUS
<1>1. CASE UserRescales \/ UserDeletes \/ Watch
  BY <1>1, UserAndWatch
<1>2. CASE Operator
  BY <1>2, ReconcileAgrees, ApiCallAgrees, RescaleAgrees, ReplyAgrees, OnErrorAgrees DEF Operator
<1>3. CASE FailedCall \/ SwallowedError
  BY <1>3, FailedCallAgrees, ApiCallAgrees
<1>4. CASE Controller \/ CoordinatorDies
  BY <1>4, PodAgrees, StartCoordinatorAgrees, CoordinatorGoes DEF Controller
<1>5. CASE CoordinatorStep \/ AutoSnapshot
  BY <1>5, StartJobAgrees, ServeRescaleAgrees, AutoSnapshotAgrees DEF CoordinatorStep
<1>6. CASE UNCHANGED vars
  <2>1. /\ UNCHANGED <<job, cache, coordinatorSts, workerSts, op, pods, coord, committed, disturbed>>
    BY <1>6 DEF vars, cluster, runtime
  <2>2. SameScales /\ OneAwaits'
    BY <2>1 DEF SameScales, CInv, OneAwaits
  <2>3. Alive' => Alive /\ job'.finalizer = job.finalizer /\ (cache'.finalizer => job'.finalizer)
    BY <2>1 DEF Alive, CInv, Deployed
  <2> QED BY <2>1, <2>2, <2>3, QuietStep DEF IInv
<1> QED BY <1>1, <1>2, <1>3, <1>4, <1>5, <1>6 DEF Next

LEMMA BothInvariants == Spec => [](IInv /\ CInv)
<1>1. Init => IInv /\ CInv
  BY InitEstablishes, InitAgrees
<1>2. IInv /\ CInv /\ [Next]_vars => (IInv /\ CInv)'
  BY NextPreserves, NextAgrees
<1> QED BY <1>1, <1>2, PTL DEF Spec

\* Between reconciliations the coordinator has, or is going to have, the scale of
\* the worker StatefulSet, for every number of edits and faults, unless a rescale
\* or a creation was cut in two; a coordinator whose pod was replaced after the
\* rescale has, or is going to have, the committed workers, and nothing else
\* (perform_rescale, job::put, Coordinator::execute).
THEOREM OperatorAndCoordinatorAgree == Spec => []CoordinatorAgrees
<1>1. IInv /\ CInv => CoordinatorAgrees
  <2> SUFFICES ASSUME IInv, CInv, op.pc = "idle", disturbed # "cut", Alive, job.finalizer
               PROVE  Target = Replicas \/ (disturbed = "reverted" /\ Target = Resumed)
    BY DEF CoordinatorAgrees, Alive, Replicas
  <2>1. Agrees(Replicas)
    BY DEF CInv, Agreement, Settled
  <2>2. Resuming => disturbed = "reverted" /\ Target = Resumed
    BY ResumingTarget DEF IInv, Resuming
  <2> QED BY <2>1, <2>2 DEF Agrees
<1> QED BY <1>1, BothInvariants, PTL

\* The StatefulSet controller never takes a pod away for good while a running
\* coordinator counts its worker, unless a change was cut in two; a coordinator
\* whose pod was replaced loses only pods of the workers it has resumed with
\* (perform_rescale, "scale down").
THEOREM CountedPodsStay == Spec => NoCountedPodRemoved
<1> DEFINE Kept == \A o \in Ordinals : CountedPodRemoved(o) =>
                     disturbed = "cut" \/ (disturbed = "reverted" /\ coord.scale = Resumed)
<1>1. ASSUME IInv, CInv  PROVE Kept
  <2> SUFFICES ASSUME NEW o \in Ordinals, CountedPodRemoved(o), disturbed # "cut"
               PROVE  disturbed = "reverted" /\ coord.scale = Resumed
    OBVIOUS
  <2>1. pods[o] # 0 /\ o >= Replicas /\ Alive /\ coord.up /\ o < coord.scale
    BY DEF CountedPodRemoved, Replicas, Alive
  <2>2. workerSts # NoSts
    BY <1>1, <2>1 DEF CInv, NoPodsYet
  <2>3. ~(coord.scale <= Replicas)
    BY <1>1, <2>1, Shapes, ScaleAssumption DEF IInv, Ordinals
  <2>4. AtMost(Replicas)
    BY <1>1, <2>1, <2>2 DEF CInv, Covered
  <2> QED BY <2>1, <2>3, <2>4 DEF AtMost, Within, Loose
<1>2. IInv /\ CInv => [Kept]_vars
  BY <1>1
<1> HIDE DEF Kept
<1>3. Spec => [][Kept]_vars
  BY <1>2, BothInvariants, PTL
<1> QED BY <1>3 DEF NoCountedPodRemoved, Kept
=============================================================================
