------------------------- MODULE CoordinatorProofs -------------------------
(***************************************************************************)
(* Proofs about module Coordinator, for every number of workers, every set *)
(* of requests and every number of restarts: what a committed snapshot     *)
(* holds, that it is never written again, that no worker gets a message it *)
(* cannot handle, that workers and coordinator agree on the configuration, *)
(* and that the coordinator returns only when the job is done.             *)
(***************************************************************************)
EXTENDS Coordinator, FiniteSetTheorems, SequenceTheorems, TLAPS

----------------------------------------------------------------------------
(* Lanes: what is between the coordinator and one worker, as the messages  *)
(* to it, the worker's control state, the reports on their way back and    *)
(* the phase the coordinator has noted.                                    *)

EC == "ExecutionComplete"

At(w, c, phase, reports) ==
  control[w] = c /\ phases[w] = phase /\ fromWorker[w] = reports

\* A worker that is in no operation; it may have completed.
Settled(w) ==
  \/ At(w, "running", "Running", <<>>)
  \/ At(w, "completed", "Running", <<EC>>)
  \/ At(w, "completed", "Completed", <<>>)

Quiet(w) == toWorker[w] = <<>> /\ Settled(w)

\* A process that waits to be started, or is about to be replaced; the Removed
\* of its previous life may not have been read yet.
Vacant(w) == control[w] \in {"waitBuild", "removed"} /\ fromWorker[w] \in {<<>>, <<"Removed">>}

\* A worker that is not in the job.
Idle(w) == toWorker[w] = <<>> /\ Vacant(w) /\ phases[w] = Absent

\* start_build: before the message is sent, after it, and at its end.
BuildReady(w) == toWorker[w] = <<>> /\ Vacant(w) /\ phases[w] \in {"Unknown", Absent}
Built(w)      == toWorker[w] = <<>> /\ At(w, "waitStart", "BuildComplete", <<>>)
BuildSent(w)  ==
  \/ toWorker[w] = <<StartMessage>> /\ Vacant(w) /\ phases[w] \in {"Unknown", Absent}
  \/ /\ toWorker[w] = <<>> /\ control[w] = "waitStart" /\ phases[w] \in {"Unknown", Absent}
     /\ fromWorker[w] \in {<<"BuildComplete">>, <<"Removed", "BuildComplete">>}
  \/ Built(w)

\* start_execution after the message is sent.
StartSent(w) ==
  \/ toWorker[w] = <<StartMessage>> /\ At(w, "waitStart", "BuildComplete", <<>>)
  \/ toWorker[w] = <<>> /\ At(w, "running", "BuildComplete", <<"ExecutionStarted">>)
  \/ toWorker[w] = <<>> /\ At(w, "completed", "BuildComplete", <<"ExecutionStarted", EC>>)
  \/ Quiet(w)

\* A snapshot: what the worker has written when it reports the end of it, the
\* whole lane, the part after the coordinator has seen the start, the end.
SnapMessage == [kind |-> "Snapshot", version |-> NextSnapshot]
Wrote(w) == written[w][NextSnapshot] = incarnation

SnapDone(w)  == Quiet(w) /\ Wrote(w)
SnapBegun(w) ==
  \/ toWorker[w] = <<>> /\ job[w] = SnapMessage /\ At(w, "snapshotting", "Snapshotting", <<>>)
  \/ toWorker[w] = <<>> /\ Wrote(w) /\ At(w, "running", "Snapshotting", <<"SnapshotComplete">>)
  \/ toWorker[w] = <<>> /\ Wrote(w) /\ At(w, "completed", "Snapshotting", <<"SnapshotComplete", EC>>)
  \/ SnapDone(w)
SnapLane(w) ==
  \/ toWorker[w] = <<SnapMessage>> /\ Settled(w)
  \/ /\ toWorker[w] = <<>> /\ job[w] = SnapMessage
     /\ At(w, "snapshotting", "Running", <<"SnapshotStarted">>)
  \/ /\ toWorker[w] = <<>> /\ Wrote(w)
     /\ At(w, "running", "Running", <<"SnapshotStarted", "SnapshotComplete">>)
  \/ /\ toWorker[w] = <<>> /\ Wrote(w)
     /\ At(w, "completed", "Running", <<"SnapshotStarted", "SnapshotComplete", EC>>)
  \/ SnapBegun(w)

\* A reconfiguration, for a worker that stays and for one that leaves.
ReconfMessage == [kind |-> "Reconfigure", set |-> target, version |-> NextConfig]

Left(w, phase, reports) ==
  /\ control[w] \in {"removed", "waitBuild"} /\ phases[w] = phase /\ fromWorker[w] = reports

ReconfOver(w) ==
  /\ toWorker[w] = <<>>
  /\ IF w \in target THEN Settled(w)
     ELSE Left(w, "Running", <<"Removed">>) \/ Left(w, Absent, <<>>)
ReconfBegun(w) ==
  \/ toWorker[w] = <<>> /\ job[w] = ReconfMessage /\ At(w, "reconfiguring", "Reconfiguring", <<>>)
  \/ /\ toWorker[w] = <<>> /\ w \in target
     /\ At(w, "running", "Reconfiguring", <<"ReconfigureComplete">>)
  \/ /\ toWorker[w] = <<>> /\ w \in target
     /\ At(w, "completed", "Reconfiguring", <<"ReconfigureComplete", EC>>)
  \/ /\ toWorker[w] = <<>> /\ w \notin target
     /\ Left(w, "Reconfiguring", <<"ReconfigureComplete", "Removed">>)
  \/ ReconfOver(w)
ReconfLane(w) ==
  \/ toWorker[w] = <<ReconfMessage>> /\ Settled(w)
  \/ /\ toWorker[w] = <<>> /\ job[w] = ReconfMessage
     /\ At(w, "reconfiguring", "Running", <<"ReconfigurationStarted">>)
  \/ /\ toWorker[w] = <<>> /\ w \in target
     /\ At(w, "running", "Running", <<"ReconfigurationStarted", "ReconfigureComplete">>)
  \/ /\ toWorker[w] = <<>> /\ w \in target
     /\ At(w, "completed", "Running", <<"ReconfigurationStarted", "ReconfigureComplete", EC>>)
  \/ /\ toWorker[w] = <<>> /\ w \notin target
     /\ Left(w, "Running", <<"ReconfigurationStarted", "ReconfigureComplete", "Removed">>)
  \/ ReconfBegun(w)

\* A suspension.
Suspended(w)   == toWorker[w] = <<>> /\ At(w, "suspended", "Suspended", <<>>)
SuspendLane(w) ==
  \/ toWorker[w] = <<[kind |-> "Suspend"]>> /\ Settled(w)
  \/ toWorker[w] = <<>> /\ At(w, "suspending", "Running", <<>>)
  \/ toWorker[w] = <<>> /\ At(w, "suspended", "Running", <<"SuspendComplete">>)
  \/ Suspended(w)
\* Drained: the job is over.
Drained(w) == toWorker[w] = <<>> /\ At(w, "suspended", Absent, <<>>)

----------------------------------------------------------------------------
(* The parts of the inductive invariant.                                   *)

SnapStages == {"snapSend", "snapStarted", "snapDone", "persist", "commit"}
CalmStages == {"arm", "loop", "reply", "returned", "setup", "snapSend", "persist", "commit",
               "suspendSend", "reconfSend"}
AgreedStages == (CalmStages \ {"reconfSend"})
                  \cup {"snapStarted", "snapDone", "suspended", "drain"}
ReconfStages == {"buildNew", "startNew", "reconfSend", "reconfStarted", "reconfDone", "remove"}
Stages == CalmStages \cup AgreedStages \cup ReconfStages \cup JoinStages

RequestType == [op : {"Scale", "Snapshot", "Suspend"}, desired : Int]
ProperRequest(r) == r \in RequestType /\ (r.op = "Scale" => r.desired \in 1..NumWorkers)
StateType == [active : SUBSET Workers, config : Int, run : Int]
AwaitedPhases == {"BuildComplete", "Running", "Snapshotting", "Reconfiguring", "Suspended", "Completed"}
ConditionType == [worker : Workers \cup {AllWorkers}, phase : AwaitedPhases]

Types ==
  /\ pc \in Stages /\ step \in {"register", "wait"}
  /\ ProperRequest(request)
  /\ target \subseteq Workers /\ joining \subseteq Workers /\ active \subseteq Workers
  /\ awaiting \in [Workers -> {"idle", "send", "register", "wait"}]
  /\ configVersion \in Int /\ snapVersion \in Int
  /\ registered \subseteq ConditionType /\ fired \subseteq ConditionType
  /\ requests \in Seq(RequestType) /\ \A i \in DOMAIN requests : ProperRequest(requests[i])
  /\ submitted \in 0..MaxRequests /\ defaultDue \in BOOLEAN
  /\ DOMAIN toWorker = Workers /\ DOMAIN fromWorker = Workers /\ DOMAIN phases = Workers
  /\ DOMAIN control = Workers /\ DOMAIN job = Workers /\ DOMAIN knownSet = Workers
  /\ commits \in Seq(Int) /\ incarnation \in Nat
  /\ written \in [Workers -> [Versions -> Int]] /\ saved \in [Versions -> StateType]

\* Snapshots are numbered in the order of their commits, and there is room
\* for the ones that are asked for.
Queued == {i \in DOMAIN requests : requests[i].op = "Snapshot"}
VersionsInOrder ==
  /\ snapVersion = Len(commits) - 1
  /\ \A i \in DOMAIN commits : commits[i] = i - 1
  /\ snapVersion + 1 + Cardinality(Queued) + (IF pc \in SnapStages THEN 1 ELSE 0) <= submitted

\* What the loop has between its hands at each stage.
LoopShape ==
  /\ pc \in JoinStages => joining \subseteq active
  /\ pc \in JoinStages => \A w \in Workers : awaiting[w] # "idle" => w \in joining
  /\ pc \notin JoinStages => \A w \in Workers : awaiting[w] = "idle"
  /\ pc \in {"buildAll", "startAll"} => joining = active
  /\ pc \in ReconfStages => target \subseteq active
  /\ pc \in ReconfStages \cup {"setup"} => target # {}

\* A condition is only there while the loop is going to wait for it.
ConditionsAreAwaited ==
  \A c \in registered \cup fired :
    \/ c.worker = AllWorkers /\ c.phase = "Completed" /\ pc \notin {"buildAll", "startAll", "arm"}
    \/ c.worker = AllWorkers /\ pc \in DOMAIN WaitPhase /\ c.phase = WaitPhase[pc] /\ step = "wait"
    \/ c.worker \in Workers /\ pc \in JoinStages /\ c = Awaited(c.worker) /\ awaiting[c.worker] = "wait"

\* A condition fires once.
FiredOnce == registered \cap fired = {}

\* Where the workers are, stage by stage.
Outside(w) == Idle(w) \/ (active = {} /\ pc \in {"reply", "returned"} /\ Drained(w))

JoinLane(w) ==
  /\ Building => CASE awaiting[w] = "send" -> BuildReady(w)
                   [] awaiting[w] = "idle" -> Built(w)
                   [] OTHER                -> BuildSent(w)
  /\ ~Building => CASE awaiting[w] = "send" -> Built(w)
                    [] awaiting[w] = "idle" -> Quiet(w)
                    [] OTHER                -> StartSent(w)

Lane(w) ==
  /\ w \notin active => Outside(w)
  /\ w \in active =>
     /\ pc \in CalmStages => Quiet(w)
     /\ pc \in {"persist", "commit"} => Wrote(w)
     /\ pc \in JoinStages /\ w \notin joining => Quiet(w)
     /\ pc \in JoinStages /\ w \in joining => JoinLane(w)
     /\ pc = "snapStarted" => SnapLane(w)
     /\ pc = "snapDone" => SnapBegun(w)
     /\ pc = "reconfStarted" => ReconfLane(w)
     /\ pc = "reconfDone" => ReconfBegun(w)
     /\ pc = "remove" => ReconfOver(w)
     /\ pc = "suspended" => SuspendLane(w)
     /\ pc = "drain" => Suspended(w)

\* What a condition that has fired tells the loop.
FiredAll(phase) == Condition(AllWorkers, phase) \in fired
FiredIsTrue ==
  \A w \in active :
    /\ pc = "snapStarted" /\ FiredAll("Snapshotting") => SnapBegun(w)
    /\ pc = "snapDone" /\ FiredAll("Running") => SnapDone(w)
    /\ pc = "reconfStarted" /\ FiredAll("Reconfiguring") => ReconfBegun(w)
    /\ pc = "reconfDone" /\ FiredAll("Running") => ReconfOver(w)
    /\ pc = "suspended" /\ FiredAll("Suspended") => Suspended(w)
    /\ pc \in JoinStages /\ w \in joining /\ Awaited(w) \in fired =>
         IF Building THEN Built(w) ELSE Quiet(w)

\* Who works with which worker set.
Agreement ==
  \A w \in active :
    /\ pc \in AgreedStages => knownSet[w] = active
    /\ pc \in {"buildAll", "startAll"} /\ control[w] \notin {"waitBuild", "removed"} => knownSet[w] = active
    /\ pc \in {"reconfStarted", "reconfDone", "remove"} /\ w \in target /\ toWorker[w] = <<>> =>
         knownSet[w] = target

\* In a job whose first workers have not started nobody was ever removed.
NothingRemoved(w) ==
  /\ fromWorker[w] \notin {<<"Removed">>, <<"Removed", "BuildComplete">>}
  /\ w \in active => phases[w] # Absent
FirstStart ==
  \/ active = {} /\ pc \notin {"reply", "returned"}
  \/ pc \in JoinStages /\ active \subseteq joining
NobodyRemovedAtFirst == FirstStart => \A w \in Workers : NothingRemoved(w)

\* When the end of the job was noticed the workers had completed; or a worker
\* was just joining, and then one that has completed keeps the reconfiguration
\* from ever ending.
HasCompleted(w) ==
  \/ control[w] = "completed"
  \/ pc \in {"reconfStarted", "reconfDone", "remove"} /\ w \notin target /\ control[w] \in {"removed", "waitBuild"}
CompletedMeans ==
  Condition(AllWorkers, "Completed") \in fired =>
    \/ \A w \in active : HasCompleted(w)
    \/ /\ pc \in {"buildNew", "startNew", "reconfSend", "reconfStarted"}
       /\ \E o \in active \ joining : control[o] = "completed" /\ (pc = "reconfStarted" => toWorker[o] # <<>>)
NotBothEmpty == Condition(AllWorkers, "Completed") \in fired /\ pc \notin {"reply", "returned"} => active # {}

\* What the snapshot that is about to be committed holds.
PersistedState ==
  pc = "commit" => saved[NextSnapshot].active = active /\ saved[NextSnapshot].run = incarnation

IInv ==
  /\ Types /\ VersionsInOrder /\ LoopShape /\ ConditionsAreAwaited /\ FiredOnce
  /\ \A w \in Workers : Lane(w)
  /\ FiredIsTrue /\ Agreement /\ NobodyRemovedAtFirst /\ CompletedMeans /\ NotBothEmpty
  /\ PersistedState /\ CommittedSnapshotIsComplete /\ ReturnsOnlyWhenDone
----------------------------------------------------------------------------
(* Short sequences.                                                        *)

LEMMA Tails ==
  /\ \A a : <<a>> # <<>> /\ Head(<<a>>) = a /\ Tail(<<a>>) = <<>>
  /\ \A a, b : <<a, b>> # <<>> /\ Head(<<a, b>>) = a /\ Tail(<<a, b>>) = <<b>>
  /\ \A a, b, c : <<a, b, c>> # <<>> /\ Head(<<a, b, c>>) = a /\ Tail(<<a, b, c>>) = <<b, c>>
  OBVIOUS

LEMMA Joins ==
  /\ \A a : <<>> \o <<a>> = <<a>>
  /\ \A a, b : <<a>> \o <<b>> = <<a, b>>
  /\ \A a, b, c : <<a, b>> \o <<c>> = <<a, b, c>>
  /\ \A a, b : <<>> \o <<a, b>> = <<a, b>>
  /\ \A a, b, c : <<a>> \o <<b, c>> = <<a, b, c>>
<1>1. ASSUME NEW a PROVE <<>> \o <<a>> = <<a>>
  <2>1. <<>> \in Seq({a}) /\ <<a>> \in Seq({a}) /\ <<a>> \in Seq({a})
    OBVIOUS
  <2>2. <<>> \o <<a>> \in Seq({a}) /\ Len(<<>> \o <<a>>) = 1
    BY <2>1
  <2>3. (<<>> \o <<a>>)[1] = a
    BY <2>1
  <2>4. \A i \in 1..1 : (<<>> \o <<a>>)[i] = <<a>>[i]
    BY <2>3
  <2> QED
    BY <2>1, <2>2, <2>4, SeqEqual
<1>2. ASSUME NEW a, NEW b PROVE <<a>> \o <<b>> = <<a, b>>
  <2>1. <<a>> \in Seq({a, b}) /\ <<b>> \in Seq({a, b}) /\ <<a, b>> \in Seq({a, b})
    OBVIOUS
  <2>2. <<a>> \o <<b>> \in Seq({a, b}) /\ Len(<<a>> \o <<b>>) = 2
    BY <2>1
  <2>3. (<<a>> \o <<b>>)[1] = a /\ (<<a>> \o <<b>>)[2] = b
    BY <2>1
  <2>4. \A i \in 1..2 : (<<a>> \o <<b>>)[i] = <<a, b>>[i]
    BY <2>3
  <2> QED
    BY <2>1, <2>2, <2>4, SeqEqual
<1>3. ASSUME NEW a, NEW b, NEW c PROVE <<a, b>> \o <<c>> = <<a, b, c>>
  <2>1. <<a, b>> \in Seq({a, b, c}) /\ <<c>> \in Seq({a, b, c}) /\ <<a, b, c>> \in Seq({a, b, c})
    OBVIOUS
  <2>2. <<a, b>> \o <<c>> \in Seq({a, b, c}) /\ Len(<<a, b>> \o <<c>>) = 3
    BY <2>1
  <2>3. (<<a, b>> \o <<c>>)[1] = a /\ (<<a, b>> \o <<c>>)[2] = b /\ (<<a, b>> \o <<c>>)[3] = c
    BY <2>1
  <2>4. \A i \in 1..3 : (<<a, b>> \o <<c>>)[i] = <<a, b, c>>[i]
    BY <2>3
  <2> QED
    BY <2>1, <2>2, <2>4, SeqEqual
<1>4. ASSUME NEW a, NEW b PROVE <<>> \o <<a, b>> = <<a, b>>
  <2>1. <<>> \in Seq({a, b}) /\ <<a, b>> \in Seq({a, b}) /\ <<a, b>> \in Seq({a, b})
    OBVIOUS
  <2>2. <<>> \o <<a, b>> \in Seq({a, b}) /\ Len(<<>> \o <<a, b>>) = 2
    BY <2>1
  <2>3. (<<>> \o <<a, b>>)[1] = a /\ (<<>> \o <<a, b>>)[2] = b
    BY <2>1
  <2>4. \A i \in 1..2 : (<<>> \o <<a, b>>)[i] = <<a, b>>[i]
    BY <2>3
  <2> QED
    BY <2>1, <2>2, <2>4, SeqEqual
<1>5. ASSUME NEW a, NEW b, NEW c PROVE <<a>> \o <<b, c>> = <<a, b, c>>
  <2>1. <<a>> \in Seq({a, b, c}) /\ <<b, c>> \in Seq({a, b, c}) /\ <<a, b, c>> \in Seq({a, b, c})
    OBVIOUS
  <2>2. <<a>> \o <<b, c>> \in Seq({a, b, c}) /\ Len(<<a>> \o <<b, c>>) = 3
    BY <2>1
  <2>3. (<<a>> \o <<b, c>>)[1] = a /\ (<<a>> \o <<b, c>>)[2] = b /\ (<<a>> \o <<b, c>>)[3] = c
    BY <2>1
  <2>4. \A i \in 1..3 : (<<a>> \o <<b, c>>)[i] = <<a, b, c>>[i]
    BY <2>3
  <2> QED
    BY <2>1, <2>2, <2>4, SeqEqual
<1> QED
  BY <1>1, <1>2, <1>3, <1>4, <1>5, Zenon

LEMMA Appends == \A m : Append(<<>>, m) = <<m>> /\ <<m>> # <<>>
  OBVIOUS

----------------------------------------------------------------------------
(* Steps of a worker and of its inbound task keep the worker in its lane.  *)

\* What such a step leaves alone.
Coordination == <<loopVars, stateVars, incarnation>>

LaneOf(w) ==
  <<toWorker[w], control[w], phases[w], fromWorker[w], job[w], written[w], knownSet[w]>>

\* What the inbound task does to the lane of its worker.
Reads(w) ==
  /\ fromWorker[w] # <<>>
  /\ fromWorker'[w] = Tail(fromWorker[w]) /\ phases'[w] = PhaseOf[Head(fromWorker[w])]
  /\ toWorker'[w] = toWorker[w] /\ control'[w] = control[w] /\ job'[w] = job[w]
  /\ written'[w] = written[w] /\ knownSet'[w] = knownSet[w]

LEMMA Messages ==
  ASSUME UNCHANGED Coordination
  PROVE  /\ StartMessage' = StartMessage /\ SnapMessage' = SnapMessage
         /\ ReconfMessage' = ReconfMessage /\ NextSnapshot' = NextSnapshot
  BY DEF Coordination, loopVars, stateVars, StartMessage, Building, SnapMessage, ReconfMessage,
         NextSnapshot, NextConfig

LEMMA ReportedPhases ==
  /\ PhaseOf["BuildComplete"] = "BuildComplete" /\ PhaseOf["ExecutionStarted"] = "Running"
  /\ PhaseOf["SnapshotStarted"] = "Snapshotting" /\ PhaseOf["SnapshotComplete"] = "Running"
  /\ PhaseOf["ReconfigurationStarted"] = "Reconfiguring"
  /\ PhaseOf["ReconfigureComplete"] = "Running" /\ PhaseOf[EC] = "Completed"
  /\ PhaseOf["SuspendComplete"] = "Suspended" /\ PhaseOf["Removed"] = Absent
  BY DEF PhaseOf, EC, Absent

\* A step that leaves worker w in its lane, wherever in it the worker is.
Keeps(w) ==
  /\ Quiet(w) => Quiet(w)'
  /\ Idle(w) => Idle(w)'
  /\ BuildReady(w) => BuildReady(w)'
  /\ Building /\ BuildSent(w) => BuildSent(w)'
  /\ Built(w) => Built(w)'
  /\ ~Building /\ StartSent(w) => StartSent(w)'
  /\ SnapDone(w) => SnapDone(w)'
  /\ SnapBegun(w) => SnapBegun(w)'
  /\ SnapLane(w) => SnapLane(w)'
  /\ ReconfOver(w) => ReconfOver(w)'
  /\ ReconfBegun(w) => ReconfBegun(w)'
  /\ ReconfLane(w) => ReconfLane(w)'
  /\ Suspended(w) => Suspended(w)'
  /\ SuspendLane(w) => SuspendLane(w)'
  /\ Drained(w) => Drained(w)'

\* The next report is taken in.
LEMMA ReadMoves ==
  ASSUME NEW w \in Workers, Reads(w)
  PROVE  /\ \A c, p : ~At(w, c, p, <<>>) /\ ~Left(w, p, <<>>)
         /\ \A c, p, a : At(w, c, p, <<a>>) => At(w, c, PhaseOf[a], <<>>)'
         /\ \A c, p, a, b : At(w, c, p, <<a, b>>) => At(w, c, PhaseOf[a], <<b>>)'
         /\ \A c, p, a, b, d : At(w, c, p, <<a, b, d>>) => At(w, c, PhaseOf[a], <<b, d>>)'
         /\ \A p, a : Left(w, p, <<a>>) => Left(w, PhaseOf[a], <<>>)'
         /\ \A p, a, b : Left(w, p, <<a, b>>) => Left(w, PhaseOf[a], <<b>>)'
         /\ \A p, a, b, d : Left(w, p, <<a, b, d>>) => Left(w, PhaseOf[a], <<b, d>>)'
<1>1. /\ fromWorker[w] # <<>> /\ fromWorker'[w] = Tail(fromWorker[w])
      /\ phases'[w] = PhaseOf[Head(fromWorker[w])] /\ control'[w] = control[w]
  BY DEF Reads
<1>2. ASSUME NEW s, fromWorker[w] = s, NEW a, NEW t, Head(s) = a, Tail(s) = t
      PROVE  /\ \A c, p : At(w, c, p, s) => At(w, c, PhaseOf[a], t)'
             /\ \A p : Left(w, p, s) => Left(w, PhaseOf[a], t)'
  BY <1>1, <1>2 DEF At, Left
<1>3. ASSUME NEW a
      PROVE  /\ \A c, p : At(w, c, p, <<a>>) => At(w, c, PhaseOf[a], <<>>)'
             /\ \A p : Left(w, p, <<a>>) => Left(w, PhaseOf[a], <<>>)'
  BY <1>2, Tails, Zenon DEF At, Left
<1>4. ASSUME NEW a, NEW b
      PROVE  /\ \A c, p : At(w, c, p, <<a, b>>) => At(w, c, PhaseOf[a], <<b>>)'
             /\ \A p : Left(w, p, <<a, b>>) => Left(w, PhaseOf[a], <<b>>)'
  <2>1. Head(<<a, b>>) = a /\ Tail(<<a, b>>) = <<b>>
    BY Tails
  <2>2. fromWorker[w] = <<a, b>> => fromWorker'[w] = <<b>> /\ phases'[w] = PhaseOf[a]
    BY <1>1, <2>1, Zenon
  <2> QED
    BY <1>1, <2>2, Zenon DEF At, Left
<1>5. ASSUME NEW a, NEW b, NEW d
      PROVE  /\ \A c, p : At(w, c, p, <<a, b, d>>) => At(w, c, PhaseOf[a], <<b, d>>)'
             /\ \A p : Left(w, p, <<a, b, d>>) => Left(w, PhaseOf[a], <<b, d>>)'
  <2>1. Head(<<a, b, d>>) = a /\ Tail(<<a, b, d>>) = <<b, d>>
    BY Tails
  <2>2. fromWorker[w] = <<a, b, d>> => fromWorker'[w] = <<b, d>> /\ phases'[w] = PhaseOf[a]
    BY <1>1, <2>1, Zenon
  <2> QED
    BY <1>1, <2>2, Zenon DEF At, Left
<1>6. \A c, p : ~At(w, c, p, <<>>) /\ ~Left(w, p, <<>>)
  BY <1>1 DEF At, Left
<1> QED
  BY <1>3, <1>4, <1>5, <1>6, Zenon

LEMMA ReadsStayInLane ==
  ASSUME NEW w \in Workers, Reads(w), UNCHANGED Coordination
  PROVE  Keeps(w)
<1> USE ReadMoves, ReportedPhases
<1>0. /\ toWorker'[w] = toWorker[w] /\ job'[w] = job[w] /\ target' = target
      /\ control'[w] = control[w]
  BY DEF Reads, Coordination, loopVars
<1>1. Settled(w) => Settled(w)'
  BY DEF Settled
<1>2. Quiet(w) => Quiet(w)'
  BY <1>0, <1>1 DEF Quiet
<1>3. ASSUME Vacant(w) PROVE Vacant(w)' /\ phases'[w] = Absent
  <2>1. fromWorker[w] = <<"Removed">>
    BY <1>3 DEF Vacant, Reads
  <2>2. fromWorker'[w] = <<>> /\ phases'[w] = Absent
    BY <2>1, Tails DEF Reads
  <2> QED BY <1>0, <1>3, <2>2 DEF Vacant
<1>5. Idle(w) => Idle(w)'
  BY <1>0, <1>3 DEF Idle
<1>6. BuildReady(w) => BuildReady(w)'
  BY <1>0, <1>3 DEF BuildReady
<1>7. ~Built(w) /\ ~Suspended(w) /\ ~Drained(w)
  BY DEF Built, Suspended, Drained
<1>8. BuildSent(w) => BuildSent(w)'
  <2>1. CASE toWorker[w] = <<StartMessage>> /\ Vacant(w) /\ phases[w] \in {"Unknown", Absent}
    BY <1>0, <1>3, <2>1, Messages DEF BuildSent
  <2>2. CASE /\ toWorker[w] = <<>> /\ control[w] = "waitStart" /\ phases[w] \in {"Unknown", Absent}
             /\ fromWorker[w] \in {<<"BuildComplete">>, <<"Removed", "BuildComplete">>}
    <3>1. CASE fromWorker[w] = <<"BuildComplete">>
      <4>1. Built(w)'
        BY <1>0, <2>2, <3>1, Tails DEF Built, At, Reads
      <4> QED BY <4>1 DEF BuildSent
    <3>2. CASE fromWorker[w] = <<"Removed", "BuildComplete">>
      <4>1. fromWorker'[w] = <<"BuildComplete">> /\ phases'[w] = Absent
        BY <3>2, Tails DEF Reads
      <4> QED BY <1>0, <2>2, <4>1 DEF BuildSent
    <3> QED BY <2>2, <3>1, <3>2
  <2> QED BY <1>7, <2>1, <2>2 DEF BuildSent
<1>9. StartSent(w) => StartSent(w)'
  BY <1>0, <1>2, Messages DEF StartSent, Quiet, Settled
<1>10. Wrote(w) => Wrote(w)'
  BY Messages DEF Wrote, Reads, Coordination
<1>11. SnapDone(w) => SnapDone(w)'
  BY <1>2, <1>10 DEF SnapDone
<1>12. SnapBegun(w) => SnapBegun(w)'
  BY <1>0, <1>10, <1>11, Messages DEF SnapBegun, SnapDone, Quiet, Settled
<1>13. SnapLane(w) => SnapLane(w)'
  BY <1>0, <1>1, <1>10, <1>12, Messages DEF SnapLane, SnapBegun
<1>15. ReconfOver(w) => ReconfOver(w)'
  BY <1>0, <1>1 DEF ReconfOver
<1>16. ReconfBegun(w) => ReconfBegun(w)'
  BY <1>0, <1>15, Messages DEF ReconfBegun, ReconfOver, Settled
<1>17. ReconfLane(w) => ReconfLane(w)'
  BY <1>0, <1>1, <1>16, Messages DEF ReconfLane, ReconfBegun
<1>19. SuspendLane(w) => SuspendLane(w)'
  BY <1>0, <1>1, <1>7 DEF SuspendLane, Suspended
<1> QED
  BY <1>2, <1>5, <1>6, <1>7, <1>8, <1>9, <1>11, <1>12, <1>13, <1>15, <1>16, <1>17, <1>19 DEF Keeps

\* A report is added to those under way.
LEMMA ReportMoves ==
  ASSUME NEW w \in Workers, NEW c2, NEW x, control'[w] = c2, phases'[w] = phases[w],
         fromWorker'[w] = fromWorker[w] \o <<x>>
  PROVE  /\ \A c, p : At(w, c, p, <<>>) => At(w, c2, p, <<x>>)'
         /\ \A c, p, a : At(w, c, p, <<a>>) => At(w, c2, p, <<a, x>>)'
         /\ \A c, p, a, b : At(w, c, p, <<a, b>>) => At(w, c2, p, <<a, b, x>>)'
<1>1. \A c, p : At(w, c, p, <<>>) => At(w, c2, p, <<x>>)'
  <2>1. <<>> \o <<x>> = <<x>>
    BY Joins, Zenon
  <2>2. fromWorker[w] = <<>> => fromWorker'[w] = <<x>>
    BY <2>1, Zenon
  <2> QED BY <2>2, Zenon DEF At
<1>2. ASSUME NEW a PROVE \A c, p : At(w, c, p, <<a>>) => At(w, c2, p, <<a, x>>)'
  <2>1. <<a>> \o <<x>> = <<a, x>>
    BY Joins, Zenon
  <2>2. fromWorker[w] = <<a>> => fromWorker'[w] = <<a, x>>
    BY <2>1, Zenon
  <2> QED BY <2>2, Zenon DEF At
<1>3. ASSUME NEW a, NEW b PROVE \A c, p : At(w, c, p, <<a, b>>) => At(w, c2, p, <<a, b, x>>)'
  <2>1. <<a, b>> \o <<x>> = <<a, b, x>>
    BY Joins
  <2>2. fromWorker[w] = <<a, b>> => fromWorker'[w] = <<a, b, x>>
    BY <2>1, Zenon
  <2> QED BY <2>2, Zenon DEF At
<1> QED
  BY <1>1, <1>2, <1>3, Zenon

LEMMA CompleteStaysInLane ==
  ASSUME Types, NEW w \in Workers, WorkerComplete(w)
  PROVE  Keeps(w)
<1>1. /\ control[w] = "running" /\ control'[w] = "completed" /\ phases'[w] = phases[w]
      /\ fromWorker'[w] = fromWorker[w] \o <<EC>> /\ toWorker'[w] = toWorker[w]
      /\ written' = written /\ target' = target
  BY DEF WorkerComplete, Report, EC, Types, loopVars, mapVars, storeVars
<1>2. UNCHANGED Coordination
  BY DEF WorkerComplete, Coordination, storeVars
<1>3. /\ \A c, p : At(w, c, p, <<>>) => At(w, "completed", p, <<EC>>)'
      /\ \A c, p, a : At(w, c, p, <<a>>) => At(w, "completed", p, <<a, EC>>)'
      /\ \A c, p, a, b : At(w, c, p, <<a, b>>) => At(w, "completed", p, <<a, b, EC>>)'
  BY <1>1, ReportMoves
<1>4. \A c, p, r : At(w, c, p, r) => c = "running"
  BY <1>1 DEF At
<1>5. \A p, r : ~Left(w, p, r)
  BY <1>1 DEF Left
<1>6. Settled(w) => Settled(w)'
  BY <1>3, <1>4 DEF Settled
<1>7. Quiet(w) => Quiet(w)'
  BY <1>1, <1>6 DEF Quiet
<1>8. ~Vacant(w)
  BY <1>1 DEF Vacant
<1>9. ~Idle(w) /\ ~BuildReady(w) /\ ~Built(w) /\ ~BuildSent(w) /\ ~Suspended(w) /\ ~Drained(w)
  BY <1>1, <1>4, <1>8 DEF Idle, BuildReady, Built, BuildSent, Suspended, Drained
<1>10. StartSent(w) => StartSent(w)'
  BY <1>1, <1>3, <1>4, <1>7 DEF StartSent
<1>11. Wrote(w) => Wrote(w)'
  BY <1>1, <1>2, Messages DEF Wrote, Coordination
<1>12. SnapDone(w) => SnapDone(w)'
  BY <1>7, <1>11 DEF SnapDone
<1>13. SnapBegun(w) => SnapBegun(w)'
  BY <1>1, <1>3, <1>4, <1>11, <1>12 DEF SnapBegun
<1>14. SnapLane(w) => SnapLane(w)'
  BY <1>1, <1>2, <1>3, <1>4, <1>6, <1>11, <1>13, Messages DEF SnapLane
<1>15. ReconfOver(w) => ReconfOver(w)'
  BY <1>1, <1>5, <1>6 DEF ReconfOver
<1>16. ReconfBegun(w) => ReconfBegun(w)'
  BY <1>1, <1>3, <1>4, <1>5, <1>15 DEF ReconfBegun
<1>17. ReconfLane(w) => ReconfLane(w)'
  BY <1>1, <1>2, <1>3, <1>4, <1>5, <1>6, <1>16, Messages DEF ReconfLane
<1>18. SuspendLane(w) => SuspendLane(w)'
  BY <1>1, <1>4, <1>6, <1>9 DEF SuspendLane
<1> QED
  BY <1>7, <1>9, <1>10, <1>12, <1>13, <1>14, <1>15, <1>16, <1>17, <1>18 DEF Keeps

LEMMA RespawnStaysInLane ==
  ASSUME Types, NEW w \in Workers, Respawn(w)
  PROVE  Keeps(w)
<1>1. /\ control[w] = "removed" /\ control'[w] = "waitBuild" /\ phases'[w] = phases[w]
      /\ fromWorker'[w] = fromWorker[w] /\ toWorker'[w] = toWorker[w] /\ target' = target
  BY DEF Respawn, Types, loopVars, mapVars, chanVars
<1>2. UNCHANGED Coordination
  BY DEF Respawn, Coordination, storeVars
<1>3. \A c, p, r : At(w, c, p, r) => c = "removed"
  BY <1>1 DEF At
<1>4. \A p, r : Left(w, p, r) => Left(w, p, r)'
  BY <1>1 DEF Left
<1>5. ~Settled(w) /\ ~Quiet(w) /\ ~SnapDone(w)
  BY <1>3 DEF Settled, Quiet, SnapDone
<1>6. ~SnapBegun(w) /\ ~Built(w) /\ ~Suspended(w) /\ ~Drained(w) /\ ~StartSent(w)
  BY <1>3, <1>5 DEF SnapBegun, Built, Suspended, Drained, StartSent
<1>7. ~SnapLane(w) /\ ~SuspendLane(w)
  BY <1>3, <1>5, <1>6 DEF SnapLane, SuspendLane
<1>8. Vacant(w) => Vacant(w)'
  BY <1>1 DEF Vacant
<1>9. (Idle(w) => Idle(w)') /\ (BuildReady(w) => BuildReady(w)')
  BY <1>1, <1>8 DEF Idle, BuildReady
<1>10. BuildSent(w) => BuildSent(w)'
  BY <1>1, <1>2, <1>6, <1>8, Messages DEF BuildSent
<1>11. ReconfOver(w) => ReconfOver(w)'
  BY <1>1, <1>4, <1>5 DEF ReconfOver
<1>12. ReconfBegun(w) => ReconfBegun(w)'
  BY <1>1, <1>3, <1>4, <1>11 DEF ReconfBegun
<1>13. ReconfLane(w) => ReconfLane(w)'
  BY <1>1, <1>3, <1>4, <1>5, <1>12 DEF ReconfLane
<1> QED
  BY <1>5, <1>6, <1>7, <1>9, <1>10, <1>11, <1>12, <1>13 DEF Keeps

\* What the worker does to its lane when it takes a message.
LEMMA ReceiveEffect ==
  ASSUME Types, NEW w \in Workers, WorkerReceive(w)
  PROVE  LET m == Head(toWorker[w])
             after == ControlAfter(w, m.kind)
         IN  /\ toWorker'[w] = Tail(toWorker[w]) /\ control'[w] = after /\ job'[w] = m
             /\ fromWorker'[w] = fromWorker[w] \o ReportAfter[after]
             /\ phases' = phases
             /\ knownSet'[w] = IF after \in {"waitStart", "reconfiguring"}
                               THEN m.set ELSE knownSet[w]
  BY DEF WorkerReceive, Report, Types, mapVars

LEMMA ReceiveStaysInLane ==
  ASSUME Types, NEW w \in Workers, WorkerReceive(w)
  PROVE  Keeps(w)
<1>1. toWorker[w] # <<>> /\ control[w] \in {"waitBuild", "waitStart", "running"}
  BY DEF WorkerReceive
<1>2. /\ ~Quiet(w) /\ ~Idle(w) /\ ~BuildReady(w) /\ ~Built(w) /\ ~SnapBegun(w)
      /\ ~ReconfBegun(w) /\ ~Suspended(w) /\ ~Drained(w)
  BY <1>1 DEF Quiet, Idle, BuildReady, Built, SnapBegun, SnapDone, ReconfBegun, ReconfOver,
              Suspended, Drained
<1>3. UNCHANGED Coordination
  BY DEF WorkerReceive, Coordination
<1>4. ASSUME Settled(w) PROVE At(w, "running", "Running", <<>>)
  BY <1>1, <1>4 DEF Settled, At
<1>5. ASSUME Building, BuildSent(w) PROVE BuildSent(w)'
  <2>1. toWorker[w] = <<StartMessage>> /\ Vacant(w) /\ phases[w] \in {"Unknown", Absent}
    BY <1>1, <1>2, <1>5 DEF BuildSent
  <2>2. control[w] = "waitBuild" /\ StartMessage.kind = "StartBuild"
    BY <1>1, <1>5, <2>1 DEF Vacant, StartMessage
  <2>3. ControlAfter(w, StartMessage.kind) = "waitStart"
    BY <2>2 DEF ControlAfter
  <2>4. ReportAfter["waitStart"] = <<"BuildComplete">>
    BY DEF ReportAfter
  <2>5. /\ toWorker'[w] = <<>> /\ control'[w] = "waitStart" /\ phases' = phases
        /\ fromWorker'[w] = fromWorker[w] \o <<"BuildComplete">>
    <3>1. Head(toWorker[w]) = StartMessage /\ Tail(toWorker[w]) = <<>>
      BY <2>1, Tails
    <3> QED BY <2>3, <2>4, <3>1, ReceiveEffect
  <2>6. fromWorker'[w] \in {<<"BuildComplete">>, <<"Removed", "BuildComplete">>}
    <3>1. CASE fromWorker[w] = <<>>
      BY <2>5, <3>1, Joins
    <3>2. CASE fromWorker[w] = <<"Removed">>
      BY <2>5, <3>2, Joins
    <3> QED BY <2>1, <3>1, <3>2 DEF Vacant
  <2> QED BY <2>1, <2>5, <2>6 DEF BuildSent
<1>6. ASSUME ~Building, StartSent(w) PROVE StartSent(w)'
  <2>1. toWorker[w] = <<StartMessage>> /\ At(w, "waitStart", "BuildComplete", <<>>)
    BY <1>1, <1>2, <1>6 DEF StartSent
  <2>2. ControlAfter(w, StartMessage.kind) = "running"
    BY <1>6, <2>1 DEF ControlAfter, StartMessage, At
  <2>3. ReportAfter["running"] = <<"ExecutionStarted">>
    BY DEF ReportAfter
  <2>4. /\ toWorker'[w] = <<>> /\ control'[w] = "running" /\ phases' = phases
        /\ fromWorker'[w] = fromWorker[w] \o <<"ExecutionStarted">>
    <3>1. Head(toWorker[w]) = StartMessage /\ Tail(toWorker[w]) = <<>>
      BY <2>1, Tails
    <3> QED BY <2>2, <2>3, <3>1, ReceiveEffect
  <2>5. At(w, "running", "BuildComplete", <<"ExecutionStarted">>)'
    BY <2>1, <2>4, ReportMoves
  <2> QED BY <2>4, <2>5 DEF StartSent
<1>7. ASSUME SnapLane(w) PROVE SnapLane(w)'
  <2>1. toWorker[w] = <<SnapMessage>> /\ At(w, "running", "Running", <<>>)
    BY <1>1, <1>2, <1>4, <1>7 DEF SnapLane
  <2>2. ControlAfter(w, SnapMessage.kind) = "snapshotting"
    BY <2>1 DEF ControlAfter, SnapMessage, At
  <2>3. ReportAfter["snapshotting"] = <<"SnapshotStarted">>
    BY DEF ReportAfter
  <2>4. /\ toWorker'[w] = <<>> /\ control'[w] = "snapshotting" /\ phases' = phases
        /\ fromWorker'[w] = fromWorker[w] \o <<"SnapshotStarted">> /\ job'[w] = SnapMessage
    <3>1. Head(toWorker[w]) = SnapMessage /\ Tail(toWorker[w]) = <<>>
      BY <2>1, Tails
    <3> QED BY <2>2, <2>3, <3>1, ReceiveEffect
  <2>5. At(w, "snapshotting", "Running", <<"SnapshotStarted">>)'
    BY <2>1, <2>4, ReportMoves
  <2> QED BY <1>3, <2>4, <2>5, Messages DEF SnapLane
<1>8. ASSUME ReconfLane(w) PROVE ReconfLane(w)'
  <2>1. toWorker[w] = <<ReconfMessage>> /\ At(w, "running", "Running", <<>>)
    BY <1>1, <1>2, <1>4, <1>8 DEF ReconfLane
  <2>2. ControlAfter(w, ReconfMessage.kind) = "reconfiguring"
    BY <2>1 DEF ControlAfter, ReconfMessage, At
  <2>3. ReportAfter["reconfiguring"] = <<"ReconfigurationStarted">>
    BY DEF ReportAfter
  <2>4. /\ toWorker'[w] = <<>> /\ control'[w] = "reconfiguring" /\ phases' = phases
        /\ fromWorker'[w] = fromWorker[w] \o <<"ReconfigurationStarted">> /\ job'[w] = ReconfMessage
    <3>1. Head(toWorker[w]) = ReconfMessage /\ Tail(toWorker[w]) = <<>>
      BY <2>1, Tails
    <3> QED BY <2>2, <2>3, <3>1, ReceiveEffect
  <2>5. At(w, "reconfiguring", "Running", <<"ReconfigurationStarted">>)'
    BY <2>1, <2>4, ReportMoves
  <2> QED BY <1>3, <2>4, <2>5, Messages DEF ReconfLane
<1>9. ASSUME SuspendLane(w) PROVE SuspendLane(w)'
  <2>1. toWorker[w] = <<[kind |-> "Suspend"]>> /\ At(w, "running", "Running", <<>>)
    BY <1>1, <1>2, <1>4, <1>9 DEF SuspendLane
  <2>2. ControlAfter(w, [kind |-> "Suspend"].kind) = "suspending"
    BY <2>1 DEF ControlAfter, At
  <2>3. ReportAfter["suspending"] = <<>> /\ <<>> \o <<>> = <<>>
    BY DEF ReportAfter
  <2>4. /\ toWorker'[w] = <<>> /\ control'[w] = "suspending" /\ phases' = phases
        /\ fromWorker'[w] = <<>>
    <3>1. Head(toWorker[w]) = [kind |-> "Suspend"] /\ Tail(toWorker[w]) = <<>>
      BY <2>1, Tails
    <3> QED BY <2>1, <2>2, <2>3, <3>1, ReceiveEffect DEF At
  <2> QED BY <2>1, <2>4 DEF SuspendLane, At
<1>10. ~SnapDone(w) /\ ~ReconfOver(w)
  BY <1>2 DEF SnapDone, ReconfBegun
<1> QED
  BY <1>2, <1>5, <1>6, <1>7, <1>8, <1>9, <1>10 DEF Keeps

\* The end of an operation on a worker.
LEMMA FinishStaysInLane ==
  ASSUME Types, NEW w \in Workers, WorkerFinish(w),
         control[w] = "snapshotting" => NextSnapshot \in Versions
  PROVE  Keeps(w)
<1>1. control[w] \in {"snapshotting", "reconfiguring", "suspending"}
  BY DEF WorkerFinish
<1>2. \A c, p, r : At(w, c, p, r) => c = control[w]
  BY DEF At
<1>3. \A p, r : ~Left(w, p, r)
  BY <1>1 DEF Left
<1>4. ~Settled(w) /\ ~Vacant(w)
  BY <1>1, <1>2 DEF Settled, Vacant
<1>5. /\ ~Quiet(w) /\ ~Idle(w) /\ ~BuildReady(w) /\ ~Built(w) /\ ~BuildSent(w) /\ ~StartSent(w)
      /\ ~SnapDone(w) /\ ~ReconfOver(w) /\ ~Suspended(w) /\ ~Drained(w)
  BY <1>1, <1>2, <1>3, <1>4 DEF Quiet, Idle, BuildReady, Built, BuildSent, StartSent, SnapDone,
     ReconfOver, Suspended, Drained
<1>6. UNCHANGED Coordination /\ toWorker' = toWorker /\ phases' = phases /\ target' = target
  BY DEF WorkerFinish, Coordination, loopVars, mapVars
<1>7. ASSUME SnapLane(w) PROVE SnapLane(w)' /\ (SnapBegun(w) => SnapBegun(w)')
  <2>1. /\ toWorker[w] = <<>> /\ job[w] = SnapMessage /\ control[w] = "snapshotting"
        /\ \/ At(w, "snapshotting", "Running", <<"SnapshotStarted">>)
           \/ At(w, "snapshotting", "Snapshotting", <<>>)
    BY <1>1, <1>2, <1>4, <1>5, <1>7 DEF SnapLane, SnapBegun
  <2>2. /\ written' = [written EXCEPT ![w][SnapMessage.version] = incarnation]
        /\ control'[w] = "running" /\ fromWorker'[w] = fromWorker[w] \o <<"SnapshotComplete">>
    BY <2>1 DEF WorkerFinish, Report, Types
  <2>3. Wrote(w)'
    <3>1. written'[w][NextSnapshot] = incarnation
      BY <2>1, <2>2 DEF SnapMessage, Types
    <3> QED BY <1>6, <3>1, Messages DEF Wrote, Coordination
  <2>4. CASE At(w, "snapshotting", "Running", <<"SnapshotStarted">>)
    <3>1. At(w, "running", "Running", <<"SnapshotStarted", "SnapshotComplete">>)'
      BY <1>6, <2>2, <2>4, ReportMoves
    <3>2. ~SnapBegun(w)
      BY <1>1, <1>2, <1>5, <2>4 DEF SnapBegun, At
    <3> QED BY <1>6, <2>1, <2>3, <3>1, <3>2 DEF SnapLane
  <2>5. CASE At(w, "snapshotting", "Snapshotting", <<>>)
    <3>1. At(w, "running", "Snapshotting", <<"SnapshotComplete">>)'
      BY <1>6, <2>2, <2>5, ReportMoves
    <3>2. SnapBegun(w)'
      BY <1>6, <2>1, <2>3, <3>1 DEF SnapBegun
    <3> QED BY <3>2 DEF SnapLane
  <2> QED BY <2>1, <2>4, <2>5
<1>8. ASSUME ReconfLane(w) PROVE ReconfLane(w)' /\ (ReconfBegun(w) => ReconfBegun(w)')
  <2>1. /\ toWorker[w] = <<>> /\ job[w] = ReconfMessage /\ control[w] = "reconfiguring"
        /\ \/ At(w, "reconfiguring", "Running", <<"ReconfigurationStarted">>)
           \/ At(w, "reconfiguring", "Reconfiguring", <<>>)
    BY <1>1, <1>2, <1>3, <1>4, <1>5, <1>8 DEF ReconfLane, ReconfBegun
  <2>2. job[w].set = target
    BY <2>1 DEF ReconfMessage
  <2>3. CASE w \in target
    <3>1. control'[w] = "running" /\ fromWorker'[w] = fromWorker[w] \o <<"ReconfigureComplete">>
      BY <2>1, <2>2, <2>3 DEF WorkerFinish, Report, Types
    <3>2. CASE At(w, "reconfiguring", "Running", <<"ReconfigurationStarted">>)
      <4>1. At(w, "running", "Running", <<"ReconfigurationStarted", "ReconfigureComplete">>)'
        BY <1>6, <3>1, <3>2, ReportMoves
      <4>2. ~ReconfBegun(w)
        BY <1>1, <1>2, <1>3, <1>5, <3>2 DEF ReconfBegun, At
      <4> QED BY <1>6, <2>1, <2>3, <4>1, <4>2 DEF ReconfLane
    <3>3. CASE At(w, "reconfiguring", "Reconfiguring", <<>>)
      <4>1. At(w, "running", "Reconfiguring", <<"ReconfigureComplete">>)'
        BY <1>6, <3>1, <3>3, ReportMoves
      <4>2. ReconfBegun(w)'
        BY <1>6, <2>1, <2>3, <4>1 DEF ReconfBegun
      <4> QED BY <4>2 DEF ReconfLane
    <3> QED BY <2>1, <3>2, <3>3
  <2>4. CASE w \notin target
    <3>1. /\ control'[w] = "removed"
          /\ fromWorker'[w] = fromWorker[w] \o <<"ReconfigureComplete", "Removed">>
      BY <2>1, <2>2, <2>4 DEF WorkerFinish, Report, Types
    <3>2. CASE At(w, "reconfiguring", "Running", <<"ReconfigurationStarted">>)
      <4>1. /\ phases[w] = "Running"
            /\ fromWorker'[w] = <<"ReconfigurationStarted", "ReconfigureComplete", "Removed">>
        BY <3>1, <3>2, Joins DEF At
      <4>2. Left(w, "Running", <<"ReconfigurationStarted", "ReconfigureComplete", "Removed">>)'
        BY <1>6, <3>1, <4>1 DEF Left
      <4>3. ~ReconfBegun(w)
        BY <1>1, <1>2, <1>3, <1>5, <3>2 DEF ReconfBegun, At
      <4> QED BY <1>6, <2>1, <2>4, <4>2, <4>3 DEF ReconfLane
    <3>3. CASE At(w, "reconfiguring", "Reconfiguring", <<>>)
      <4>1. phases[w] = "Reconfiguring" /\ fromWorker'[w] = <<"ReconfigureComplete", "Removed">>
        BY <3>1, <3>3, Joins DEF At
      <4>2. Left(w, "Reconfiguring", <<"ReconfigureComplete", "Removed">>)'
        BY <1>6, <3>1, <4>1 DEF Left
      <4>3. ReconfBegun(w)'
        BY <1>6, <2>1, <2>4, <4>2 DEF ReconfBegun
      <4> QED BY <4>3 DEF ReconfLane
    <3> QED BY <2>1, <3>2, <3>3
  <2> QED BY <2>3, <2>4
<1>9. ASSUME SuspendLane(w) PROVE SuspendLane(w)'
  <2>1. toWorker[w] = <<>> /\ At(w, "suspending", "Running", <<>>)
    BY <1>1, <1>2, <1>4, <1>5, <1>9 DEF SuspendLane
  <2>2. control'[w] = "suspended" /\ fromWorker'[w] = fromWorker[w] \o <<"SuspendComplete">>
    BY <2>1 DEF WorkerFinish, Report, Types, At
  <2>3. At(w, "suspended", "Running", <<"SuspendComplete">>)'
    BY <1>6, <2>1, <2>2, ReportMoves
  <2> QED BY <1>6, <2>1, <2>3 DEF SuspendLane
<1>10. (SnapBegun(w) => SnapLane(w)) /\ (ReconfBegun(w) => ReconfLane(w))
  BY DEF SnapLane, ReconfLane
<1> QED
  BY <1>5, <1>7, <1>8, <1>9, <1>10 DEF Keeps

\* What the noted phase of a worker tells about its lane.
PhaseTells(w) ==
  /\ SnapLane(w) /\ phases[w] \in {Absent, "Snapshotting"} => SnapBegun(w)
  /\ SnapBegun(w) /\ phases[w] \in {Absent, "Running"} => SnapDone(w)
  /\ ReconfLane(w) /\ phases[w] \in {Absent, "Reconfiguring"} => ReconfBegun(w)
  /\ ReconfBegun(w) /\ phases[w] \in {Absent, "Running"} => ReconfOver(w)
  /\ SuspendLane(w) /\ phases[w] \in {Absent, "Suspended"} => Suspended(w)
  /\ BuildSent(w) /\ phases[w] = "BuildComplete" => Built(w)
  /\ StartSent(w) /\ phases[w] = "Running" => Quiet(w)
  /\ BuildReady(w) \/ BuildSent(w) \/ Built(w) => phases[w] # "Completed"
  /\ Suspended(w) => phases[w] \notin {Absent, "Completed"}
  /\ Quiet(w) \/ StartSent(w) \/ Built(w) => NothingRemoved(w)
  /\ phases[w] \in {Absent, "Completed"} =>
       /\ Quiet(w) \/ StartSent(w) \/ SnapLane(w) \/ SuspendLane(w) => control[w] = "completed"
       /\ ReconfLane(w) =>
            control[w] = "completed" \/ (w \notin target /\ control[w] \in {"removed", "waitBuild"})

LEMMA PhasesTell == (\A w \in Workers : PhaseTells(w)) /\ (\A w \in Workers : PhaseTells(w))'
<1>1. ASSUME NEW w \in Workers PROVE PhaseTells(w)
  <2>1. /\ \A c, p, r : At(w, c, p, r) => phases[w] = p /\ control[w] = c /\ fromWorker[w] = r
        /\ \A p, r : Left(w, p, r) => phases[w] = p /\ control[w] \in {"removed", "waitBuild"}
    BY DEF At, Left
  <2>2. /\ Settled(w) => phases[w] \in {"Running", "Completed"}
        /\ Settled(w) /\ phases[w] \in {Absent, "Completed"} => control[w] = "completed"
        /\ Settled(w) => fromWorker[w] \in {<<>>, <<EC>>}
    BY <2>1 DEF Settled, Absent
  <2>4. Quiet(w) \/ StartSent(w) => /\ phases[w] \in {"BuildComplete", "Running", "Completed"}
                                    /\ phases[w] = "Completed" => control[w] = "completed"
    BY <2>1, <2>2 DEF Quiet, StartSent, Absent
  <2>5. /\ SnapLane(w) /\ phases[w] \in {Absent, "Snapshotting"} => SnapBegun(w)
        /\ SnapLane(w) /\ phases[w] \in {Absent, "Completed"} => control[w] = "completed"
    BY <2>1, <2>2 DEF SnapLane, SnapBegun, SnapDone, Quiet, Absent
  <2>6. SnapBegun(w) /\ phases[w] \in {Absent, "Running"} => SnapDone(w)
    BY <2>1 DEF SnapBegun, Absent
  <2>7. ReconfLane(w) /\ phases[w] \in {Absent, "Reconfiguring"} => ReconfBegun(w)
    BY <2>1, <2>2 DEF ReconfLane, Absent
  <2>8. ReconfBegun(w) /\ phases[w] \in {Absent, "Running"} => ReconfOver(w)
    BY <2>1 DEF ReconfBegun, Absent
  <2>9. ReconfLane(w) /\ phases[w] \in {Absent, "Completed"} =>
          control[w] = "completed" \/ (w \notin target /\ control[w] \in {"removed", "waitBuild"})
    BY <2>1, <2>2 DEF ReconfLane, ReconfBegun, ReconfOver, Absent
  <2>10. /\ SuspendLane(w) /\ phases[w] \in {Absent, "Suspended"} => Suspended(w)
         /\ SuspendLane(w) /\ phases[w] \in {Absent, "Completed"} => control[w] = "completed"
         /\ Suspended(w) => phases[w] \notin {Absent, "Completed"}
    BY <2>1, <2>2 DEF SuspendLane, Suspended, Absent
  <2>11. /\ BuildSent(w) /\ phases[w] = "BuildComplete" => Built(w)
         /\ BuildReady(w) \/ BuildSent(w) \/ Built(w) => phases[w] # "Completed"
    BY <2>1 DEF BuildReady, BuildSent, Built, Absent
  <2>12. StartSent(w) /\ phases[w] = "Running" => Quiet(w)
    BY <2>1 DEF StartSent
  <2>13. Quiet(w) \/ StartSent(w) \/ Built(w) => NothingRemoved(w)
    <3>1. <<"Removed">> # <<>> /\ <<"Removed", "BuildComplete">> # <<>>
      OBVIOUS
    <3>2. \A x : x # "Removed" => <<x>> # <<"Removed">> /\ <<x>> # <<"Removed", "BuildComplete">>
      OBVIOUS
    <3>3. \A x, y : x # "Removed" => <<x, y>> # <<"Removed">> /\ <<x, y>> # <<"Removed", "BuildComplete">>
      OBVIOUS
    <3>4. Quiet(w) \/ StartSent(w) \/ Built(w) =>
            fromWorker[w] \in {<<>>, <<EC>>, <<"ExecutionStarted">>, <<"ExecutionStarted", EC>>}
      BY <2>1, <2>2 DEF Quiet, StartSent, Built
    <3>5. Quiet(w) \/ StartSent(w) \/ Built(w) => phases[w] # Absent
      BY <2>1, <2>4 DEF Built, Absent
    <3> QED BY <3>1, <3>2, <3>3, <3>4, <3>5 DEF NothingRemoved, EC
  <2> QED BY <2>4, <2>5, <2>6, <2>7, <2>8, <2>9, <2>10, <2>11, <2>12, <2>13
          DEF PhaseTells, Absent
<1>2. \A w \in Workers : PhaseTells(w)
  BY <1>1
<1> QED BY <1>2, PTL

\* A lane that nobody touches.
LEMMA SameLane ==
  ASSUME NEW u \in Workers, UNCHANGED LaneOf(u), UNCHANGED Coordination
  PROVE  Keeps(u)
<1>1. /\ toWorker'[u] = toWorker[u] /\ control'[u] = control[u] /\ phases'[u] = phases[u]
      /\ fromWorker'[u] = fromWorker[u] /\ job'[u] = job[u] /\ written'[u] = written[u]
  BY DEF LaneOf
<1>2. /\ pc' = pc /\ active' = active /\ joining' = joining /\ target' = target
      /\ awaiting' = awaiting /\ incarnation' = incarnation
  BY DEF Coordination, loopVars, stateVars
<1>3. /\ \A c, p, r : At(u, c, p, r) => At(u, c, p, r)'
      /\ \A p, r : Left(u, p, r) => Left(u, p, r)'
  BY <1>1 DEF At, Left
<1>4. Settled(u) => Settled(u)'
  BY <1>3 DEF Settled
<1>5. (Quiet(u) => Quiet(u)') /\ (Vacant(u) => Vacant(u)') /\ (Wrote(u) => Wrote(u)')
  BY <1>1, <1>2, <1>4, Messages DEF Quiet, Vacant, Wrote
<1>6. /\ Idle(u) => Idle(u)'
      /\ BuildReady(u) => BuildReady(u)'
      /\ Built(u) => Built(u)'
      /\ Suspended(u) => Suspended(u)'
      /\ Drained(u) => Drained(u)'
  BY <1>1, <1>3, <1>5 DEF Idle, BuildReady, Built, Suspended, Drained
<1>7. (BuildSent(u) => BuildSent(u)') /\ (StartSent(u) => StartSent(u)')
  BY <1>1, <1>3, <1>5, <1>6, Messages DEF BuildSent, StartSent
<1>8. SnapBegun(u) => SnapBegun(u)'
  BY <1>1, <1>3, <1>5, Messages DEF SnapBegun, SnapDone
<1>9. SnapLane(u) => SnapLane(u)'
  BY <1>1, <1>3, <1>4, <1>5, <1>8, Messages DEF SnapLane
<1>10. ReconfOver(u) => ReconfOver(u)'
  BY <1>1, <1>2, <1>3, <1>4 DEF ReconfOver
<1>11. ReconfBegun(u) => ReconfBegun(u)'
  BY <1>1, <1>2, <1>3, <1>10, Messages DEF ReconfBegun
<1>12. ReconfLane(u) => ReconfLane(u)'
  BY <1>1, <1>2, <1>3, <1>4, <1>11, Messages DEF ReconfLane
<1>13. SuspendLane(u) => SuspendLane(u)'
  BY <1>1, <1>3, <1>4, <1>6 DEF SuspendLane
<1> QED
  BY <1>5, <1>6, <1>7, <1>8, <1>9, <1>10, <1>11, <1>12, <1>13 DEF Keeps, SnapDone

LEMMA LaneKept ==
  ASSUME NEW u \in Workers, Keeps(u), UNCHANGED Coordination
  PROVE  Lane(u) => Lane(u)'
<1>1. /\ pc' = pc /\ active' = active /\ joining' = joining /\ awaiting' = awaiting
  BY DEF Coordination, loopVars, stateVars
<1>2. JoinLane(u) => JoinLane(u)'
  BY <1>1 DEF JoinLane, Building, Keeps
<1>3. Outside(u) => Outside(u)'
  BY <1>1 DEF Outside, Keeps
<1>4. Quiet(u) /\ Wrote(u) => Wrote(u)'
  BY DEF SnapDone, Keeps
<1>5. pc \in {"persist", "commit"} => pc \in CalmStages
  BY DEF CalmStages
<1> QED
  BY <1>1, <1>2, <1>3, <1>4, <1>5 DEF Lane, Keeps

----------------------------------------------------------------------------
(* A step of a worker, of its inbound task or of the runtime that replaces *)
(* it preserves the invariant.                                             *)

WorkerSide(w) == Inbound(w) \/ WorkerStep(w) \/ Respawn(w)

LEMMA SideFrame ==
  ASSUME Types, NEW w \in Workers, WorkerSide(w)
  PROVE  /\ UNCHANGED <<Coordination, requests, submitted, defaultDue, commits, saved>>
         /\ \A u \in Workers \ {w} : UNCHANGED LaneOf(u)
<1>1. CASE Inbound(w)
  BY <1>1 DEF Inbound, Change, Types, Coordination, LaneOf, workerVars, storeVars
<1>2. CASE WorkerReceive(w)
  BY <1>2 DEF WorkerReceive, Report, ForVersion, Types, Coordination, LaneOf, mapVars
<1>3. CASE WorkerFinish(w)
  BY <1>3 DEF WorkerFinish, Report, Types, Coordination, LaneOf, mapVars
<1>4. CASE WorkerComplete(w)
  BY <1>4 DEF WorkerComplete, Report, Types, Coordination, LaneOf, mapVars, storeVars
<1>5. CASE Respawn(w)
  BY <1>5 DEF Respawn, Types, Coordination, LaneOf, mapVars, chanVars, storeVars
<1> QED
  BY <1>1, <1>2, <1>3, <1>4, <1>5 DEF WorkerSide, WorkerStep

LEMMA QueueIsFinite ==
  ASSUME Types
  PROVE  IsFiniteSet(Queued) /\ Cardinality(Queued) \in Nat
<1>1. DOMAIN requests = 1..Len(requests) /\ Len(requests) \in Nat
  BY DEF Types
<1>2. IsFiniteSet(1..Len(requests))
  BY <1>1, FS_Interval
<1>3. IsFiniteSet(Queued)
  BY <1>1, <1>2, FS_Subset DEF Queued
<1> QED BY <1>3, FS_CardinalityType

\* Versions of snapshots stay within the bound of the store.
LEMMA VersionsFit ==
  ASSUME Types, VersionsInOrder
  PROVE  /\ \A i \in DOMAIN commits : commits[i] \in Versions /\ commits[i] < NextSnapshot
         /\ pc \in SnapStages => NextSnapshot \in Versions
<1>1. Cardinality(Queued) \in Nat
  BY QueueIsFinite
<1>2. DOMAIN commits = 1..Len(commits) /\ Len(commits) \in Nat /\ MaxRequests \in Nat
  BY CoordinatorAssumption DEF Types
<1>3. snapVersion + 1 <= MaxRequests /\ (pc \in SnapStages => snapVersion + 2 <= MaxRequests)
  BY <1>1, CoordinatorAssumption DEF Types, VersionsInOrder
<1> QED
  BY <1>2, <1>3 DEF VersionsInOrder, Types, Versions, NextSnapshot

\* A worker writes only during a snapshot, and only into that.
LEMMA WriterIsInSnapshot ==
  ASSUME NEW w \in Workers, pc \in Stages, Lane(w), control[w] = "snapshotting"
  PROVE  pc \in SnapStages /\ job[w] = SnapMessage
<1>1. \A c, p, r : At(w, c, p, r) => c = "snapshotting"
  BY DEF At
<1>2. ~Settled(w) /\ ~Quiet(w) /\ ~Vacant(w)
  BY <1>1 DEF Settled, Quiet, Vacant
<1>3. /\ ~Idle(w) /\ ~Drained(w) /\ ~Built(w) /\ ~BuildReady(w) /\ ~BuildSent(w) /\ ~StartSent(w)
      /\ ~Suspended(w)
  BY <1>1, <1>2 DEF Idle, Drained, Built, BuildReady, BuildSent, StartSent, Suspended
<1>4. ~SuspendLane(w) /\ ~ReconfOver(w)
  BY <1>1, <1>2, <1>3 DEF SuspendLane, ReconfOver, Left
<1>5. ~ReconfBegun(w) /\ ~ReconfLane(w)
  BY <1>1, <1>2, <1>4 DEF ReconfBegun, ReconfLane, Left
<1>6. SnapLane(w) \/ SnapBegun(w) => job[w] = SnapMessage
  BY <1>1, <1>2 DEF SnapLane, SnapBegun, SnapDone
<1>7. ~JoinLane(w) /\ ~Outside(w)
  BY <1>2, <1>3 DEF JoinLane, Outside
<1> QED
  BY <1>2, <1>3, <1>4, <1>5, <1>6, <1>7
  DEF Lane, Stages, CalmStages, AgreedStages, ReconfStages, JoinStages, SnapStages

LEMMA SideWrites ==
  ASSUME Types, VersionsInOrder, NEW w \in Workers, Lane(w), WorkerSide(w)
  PROVE  /\ written' \in [Workers -> [Versions -> Int]]
         /\ \A i \in DOMAIN commits, u \in Workers :
               written'[u][commits[i]] = written[u][commits[i]]
<1>1. written \in [Workers -> [Versions -> Int]] /\ incarnation \in Int /\ None \in Int
  BY DEF Types, None
<1>2. ASSUME NEW v, NEW x \in Int, written' = [written EXCEPT ![w][v] = x],
             \A i \in DOMAIN commits : commits[i] # v
      PROVE  /\ written' \in [Workers -> [Versions -> Int]]
             /\ \A i \in DOMAIN commits, u \in Workers :
                   written'[u][commits[i]] = written[u][commits[i]]
  <2>1. [written[w] EXCEPT ![v] = x] \in [Versions -> Int]
    BY <1>1, <1>2
  <2>2. written' = [written EXCEPT ![w] = [written[w] EXCEPT ![v] = x]]
    BY <1>1, <1>2
  <2> QED BY <1>1, <1>2, <2>1, <2>2, VersionsFit
<1>3. CASE written' = written
  BY <1>1, <1>3
<1>4. CASE WorkerReceive(w)
  <2>1. written' = written \/ \E v : written' = ForVersion(w, v)
    BY <1>4 DEF WorkerReceive
  <2> QED BY <1>1, <1>2, <1>3, <2>1 DEF ForVersion
<1>5. CASE WorkerFinish(w)
  <2>1. CASE control[w] = "snapshotting"
    <3>1. written' = [written EXCEPT ![w][job[w].version] = incarnation]
      BY <1>5, <2>1 DEF WorkerFinish
    <3>2. job[w].version = NextSnapshot
      BY <2>1, WriterIsInSnapshot DEF SnapMessage, Types
    <3>3. \A i \in DOMAIN commits : commits[i] # NextSnapshot
      BY VersionsFit DEF NextSnapshot, Types
    <3>4. written' = [written EXCEPT ![w][NextSnapshot] = incarnation]
      BY <3>1, <3>2
    <3> HIDE DEF NextSnapshot
    <3> QED BY <1>1, <1>2, <3>3, <3>4
  <2>2. CASE control[w] # "snapshotting"
    BY <1>3, <1>5, <2>2 DEF WorkerFinish
  <2> QED BY <2>1, <2>2
<1> QED
  BY <1>3, <1>4, <1>5
  DEF WorkerSide, WorkerStep, Inbound, WorkerComplete, Respawn, workerVars, storeVars

\* All workers stay in their lanes.
LEMMA SideLanes ==
  ASSUME Types, VersionsInOrder, \A u \in Workers : Lane(u), NEW w \in Workers, WorkerSide(w)
  PROVE  \A u \in Workers : Keeps(u) /\ Lane(u)'
<1>1. UNCHANGED Coordination /\ \A u \in Workers \ {w} : UNCHANGED LaneOf(u)
  BY SideFrame
<1>2. Keeps(w)
  <2>1. CASE Inbound(w)
    <3>1. Reads(w)
      BY <2>1 DEF Inbound, Change, Reads, Types, workerVars, storeVars
    <3> QED BY <1>1, <3>1, ReadsStayInLane
  <2>2. CASE WorkerFinish(w)
    <3>1. control[w] = "snapshotting" => NextSnapshot \in Versions
      BY WriterIsInSnapshot, VersionsFit DEF Types
    <3> QED BY <2>2, <3>1, FinishStaysInLane
  <2> QED
    BY <2>1, <2>2, ReceiveStaysInLane, CompleteStaysInLane, RespawnStaysInLane
    DEF WorkerSide, WorkerStep
<1>3. \A u \in Workers : Keeps(u)
  BY <1>1, <1>2, SameLane
<1> QED
  BY <1>1, <1>3, LaneKept

\* What such a step does to the conditions: only a report fires any.
LEMMA SideConditions ==
  ASSUME Types, NEW w \in Workers, WorkerSide(w)
  PROVE  /\ registered' \subseteq registered /\ (FiredOnce => FiredOnce')
         /\ \A c \in fired' : c \in fired \/ (c \in registered /\ Holds(c, phases') /\ Inbound(w))
<1>1. CASE Inbound(w)
  BY <1>1 DEF Inbound, Change, FiredOnce
<1>2. CASE ~Inbound(w)
  BY <1>2 DEF WorkerSide, WorkerStep, WorkerReceive, WorkerFinish, WorkerComplete, Respawn, mapVars,
              FiredOnce
<1> QED BY <1>1, <1>2

\* What the worker learns from the message it takes, by the stage of the loop.
LEMMA ReceiveTells ==
  ASSUME Types, NEW w \in Workers, Lane(w), WorkerReceive(w)
  PROVE  /\ w \in active
         /\ \/ pc \in JoinStages /\ Building /\ knownSet'[w] = active
            \/ pc \in JoinStages /\ ~Building /\ control[w] = "waitStart" /\ knownSet'[w] = knownSet[w]
            \/ pc = "reconfStarted" /\ knownSet'[w] = target
            \/ pc \in {"snapStarted", "suspended"} /\ knownSet'[w] = knownSet[w]
<1>1. toWorker[w] # <<>> /\ control[w] \in {"waitBuild", "waitStart", "running"}
  BY DEF WorkerReceive
<1>2. /\ ~Quiet(w) /\ ~Idle(w) /\ ~BuildReady(w) /\ ~Built(w) /\ ~SnapBegun(w)
      /\ ~ReconfBegun(w) /\ ~ReconfOver(w) /\ ~Suspended(w) /\ ~Drained(w)
  BY <1>1 DEF Quiet, Idle, BuildReady, Built, SnapBegun, SnapDone, ReconfBegun, ReconfOver,
              Suspended, Drained
<1>3. ASSUME NEW m, toWorker[w] = <<m>>
      PROVE  LET after == ControlAfter(w, m.kind)
             IN  knownSet'[w] = IF after \in {"waitStart", "reconfiguring"}
                                THEN m.set ELSE knownSet[w]
  BY <1>3, ReceiveEffect, Tails
<1>4. Settled(w) => control[w] = "running"
  BY <1>1 DEF Settled, At
<1>5. ASSUME BuildSent(w), Building PROVE knownSet'[w] = active
  <2>1. toWorker[w] = <<StartMessage>> /\ control[w] = "waitBuild"
    BY <1>1, <1>2, <1>5 DEF BuildSent, Vacant
  <2>2. StartMessage.kind = "StartBuild" /\ StartMessage.set = active
    BY <1>5 DEF StartMessage
  <2> QED BY <1>3, <2>1, <2>2 DEF ControlAfter
<1>6. ASSUME StartSent(w), ~Building PROVE control[w] = "waitStart" /\ knownSet'[w] = knownSet[w]
  <2>1. toWorker[w] = <<StartMessage>> /\ control[w] = "waitStart"
    BY <1>1, <1>2, <1>6 DEF StartSent, At
  <2>2. StartMessage.kind = "StartExecution"
    BY <1>6 DEF StartMessage
  <2> QED BY <1>3, <2>1, <2>2 DEF ControlAfter
<1>7. ASSUME ReconfLane(w) PROVE knownSet'[w] = target
  <2>1. toWorker[w] = <<ReconfMessage>> /\ control[w] = "running"
    BY <1>1, <1>2, <1>4, <1>7 DEF ReconfLane
  <2>2. ReconfMessage.kind = "Reconfigure" /\ ReconfMessage.set = target
    BY DEF ReconfMessage
  <2> QED BY <1>3, <2>1, <2>2 DEF ControlAfter
<1>8. ASSUME SnapLane(w) PROVE knownSet'[w] = knownSet[w]
  <2>1. toWorker[w] = <<SnapMessage>> /\ control[w] = "running"
    BY <1>1, <1>2, <1>4, <1>8 DEF SnapLane
  <2>2. SnapMessage.kind = "Snapshot"
    BY DEF SnapMessage
  <2> QED BY <1>3, <2>1, <2>2 DEF ControlAfter
<1>9. ASSUME SuspendLane(w) PROVE knownSet'[w] = knownSet[w]
  <2>1. toWorker[w] = <<[kind |-> "Suspend"]>> /\ control[w] = "running"
    BY <1>1, <1>2, <1>4, <1>9 DEF SuspendLane
  <2> QED BY <1>3, <2>1 DEF ControlAfter
<1>10. w \in active
  BY <1>2 DEF Lane, Outside
<1>11. CASE pc \in JoinStages
  <2>1. JoinLane(w)
    BY <1>2, <1>10, <1>11 DEF Lane
  <2>2. (Building => BuildSent(w)) /\ (~Building => StartSent(w))
    BY <1>2, <2>1 DEF JoinLane, Types
  <2> QED BY <1>5, <1>6, <1>10, <1>11, <2>2
<1>12. CASE pc \notin JoinStages
  <2>1. \/ pc = "snapStarted" /\ SnapLane(w)
        \/ pc = "reconfStarted" /\ ReconfLane(w)
        \/ pc = "suspended" /\ SuspendLane(w)
    BY <1>2, <1>10, <1>12 DEF Lane, Types, Stages, CalmStages, AgreedStages, ReconfStages, JoinStages
  <2> QED BY <1>7, <1>8, <1>9, <1>10, <2>1
<1> QED BY <1>11, <1>12

LEMMA SideAgreement ==
  ASSUME Types, NEW w \in Workers, Lane(w), Agreement, WorkerSide(w)
  PROVE  Agreement'
<1>1. UNCHANGED Coordination /\ \A u \in Workers \ {w} : UNCHANGED LaneOf(u)
  BY SideFrame
<1>2. pc' = pc /\ active' = active /\ target' = target /\ active \subseteq Workers
  BY <1>1 DEF Coordination, loopVars, stateVars, Types
<1>3. ASSUME NEW u \in active, knownSet'[u] = knownSet[u], toWorker'[u] = toWorker[u],
             control'[u] \notin {"waitBuild", "removed"} => control[u] \notin {"waitBuild", "removed"}
      PROVE  /\ pc \in AgreedStages => knownSet'[u] = active
             /\ pc \in {"buildAll", "startAll"} /\ control'[u] \notin {"waitBuild", "removed"} =>
                  knownSet'[u] = active
             /\ pc \in {"reconfStarted", "reconfDone", "remove"} /\ u \in target
                  /\ toWorker'[u] = <<>> => knownSet'[u] = target
  BY <1>3 DEF Agreement
<1>4. ASSUME NEW u \in active, u # w
      PROVE  knownSet'[u] = knownSet[u] /\ toWorker'[u] = toWorker[u] /\ control'[u] = control[u]
  BY <1>1, <1>2, <1>4 DEF LaneOf
<1>5. ASSUME ~WorkerReceive(w)
      PROVE  /\ knownSet'[w] = knownSet[w] /\ toWorker'[w] = toWorker[w]
             /\ control'[w] \notin {"waitBuild", "removed"} => control[w] \notin {"waitBuild", "removed"}
  BY <1>5 DEF WorkerSide, WorkerStep, Inbound, WorkerFinish, WorkerComplete, Respawn, Types,
              workerVars, chanVars
<1>6. ASSUME WorkerReceive(w), w \in active
      PROVE  /\ pc \in AgreedStages => knownSet'[w] = active
             /\ pc \in {"buildAll", "startAll"} => knownSet'[w] = active
             /\ pc \in {"reconfStarted", "reconfDone", "remove"} => knownSet'[w] = target
  BY <1>6, ReceiveTells
  DEF Agreement, AgreedStages, CalmStages, JoinStages, Building
<1>7. ASSUME NEW u \in active
      PROVE  /\ pc \in AgreedStages => knownSet'[u] = active
             /\ pc \in {"buildAll", "startAll"} /\ control'[u] \notin {"waitBuild", "removed"} =>
                  knownSet'[u] = active
             /\ pc \in {"reconfStarted", "reconfDone", "remove"} /\ u \in target
                  /\ toWorker'[u] = <<>> => knownSet'[u] = target
  BY <1>3, <1>4, <1>5, <1>6, <1>7
<1> QED BY <1>2, <1>7 DEF Agreement

\* Conditions about all workers and about one.
LEMMA ConditionFacts ==
  /\ \A p : Condition(AllWorkers, p).worker = AllWorkers /\ Condition(AllWorkers, p).phase = p
  /\ \A w \in Workers : \A p : /\ Condition(w, p).worker = w /\ Condition(w, p).phase = p
                                /\ w # AllWorkers
  /\ \A w \in Workers : \A p, map : Holds(Condition(AllWorkers, p), map) => map[w] \in {Absent, p}
  /\ \A w \in Workers : \A p, map : Holds(Condition(w, p), map) => map[w] = p
  /\ \A p \in {"BuildComplete", "Running"} : \A q : \A w \in Workers :
       Condition(w, p) # Condition(AllWorkers, q)
<1>1. \A p : Condition(AllWorkers, p).worker = AllWorkers /\ Condition(AllWorkers, p).phase = p
  BY DEF Condition
<1>2. \A w \in Workers : \A p : /\ Condition(w, p).worker = w /\ Condition(w, p).phase = p
                                /\ w # AllWorkers
  BY CoordinatorAssumption DEF Condition, Workers, AllWorkers
<1> QED BY <1>1, <1>2 DEF Holds

LEMMA ConditionTyped ==
  \A p \in AwaitedPhases :
    /\ Condition(AllWorkers, p) \in ConditionType
    /\ \A w \in Workers : Condition(w, p) \in ConditionType
  BY DEF Condition, ConditionType

\* Which condition about all workers may be there at which stage.
LEMMA AwaitedAll ==
  ASSUME ConditionsAreAwaited, NEW p, Condition(AllWorkers, p) \in registered \cup fired
  PROVE  \/ p = "Completed" /\ pc \notin {"buildAll", "startAll", "arm"}
         \/ pc \in DOMAIN WaitPhase /\ p = WaitPhase[pc] /\ step = "wait"
  BY ConditionFacts DEF ConditionsAreAwaited

LEMMA AwaitedOne ==
  ASSUME ConditionsAreAwaited, NEW w \in Workers, NEW p, Condition(w, p) \in registered \cup fired
  PROVE  pc \in JoinStages /\ Condition(w, p) = Awaited(w) /\ awaiting[w] = "wait"
  BY ConditionFacts DEF ConditionsAreAwaited

LEMMA SideFired ==
  ASSUME Types, LoopShape, ConditionsAreAwaited, FiredIsTrue, NEW w \in Workers, WorkerSide(w),
         \A u \in Workers : Keeps(u) /\ Lane(u)'
  PROVE  FiredIsTrue'
<1>1. UNCHANGED Coordination
  BY SideFrame
<1>2. /\ pc' = pc /\ active' = active /\ target' = target /\ active \subseteq Workers
      /\ awaiting' = awaiting /\ joining' = joining
      /\ (Building <=> Building') /\ \A u : Awaited(u)' = Awaited(u)
  BY <1>1 DEF Coordination, loopVars, stateVars, Types, Building, Awaited
<1>3. ASSUME NEW u \in Workers, NEW p, FiredAll(p)', ~FiredAll(p)
      PROVE  phases'[u] \in {Absent, p}
  BY <1>3, SideConditions, ConditionFacts DEF FiredAll
<1>4. ASSUME NEW u \in Workers, Awaited(u) \in fired', Awaited(u) \notin fired
      PROVE  /\ awaiting[u] = "wait"
             /\ phases'[u] = IF Building THEN "BuildComplete" ELSE "Running"
  <2>1. Awaited(u) \in registered /\ Holds(Awaited(u), phases')
    BY <1>4, SideConditions
  <2> QED BY <2>1, AwaitedOne, ConditionFacts DEF Awaited
<1>5. ASSUME NEW u \in active
      PROVE  /\ pc = "snapStarted" /\ FiredAll("Snapshotting")' => SnapBegun(u)'
             /\ pc = "snapDone" /\ FiredAll("Running")' => SnapDone(u)'
             /\ pc = "reconfStarted" /\ FiredAll("Reconfiguring")' => ReconfBegun(u)'
             /\ pc = "reconfDone" /\ FiredAll("Running")' => ReconfOver(u)'
             /\ pc = "suspended" /\ FiredAll("Suspended")' => Suspended(u)'
  <2>1. /\ pc = "snapStarted" => SnapLane(u)'
        /\ pc = "snapDone" => SnapBegun(u)'
        /\ pc = "reconfStarted" => ReconfLane(u)'
        /\ pc = "reconfDone" => ReconfBegun(u)'
        /\ pc = "suspended" => SuspendLane(u)'
    BY <1>2, <1>5 DEF Lane
  <2> QED BY <1>2, <1>3, <1>5, <2>1, PhasesTell DEF PhaseTells, FiredIsTrue, Keeps
<1>6. ASSUME NEW u \in active, pc \in JoinStages, u \in joining, Awaited(u) \in fired'
      PROVE  IF Building THEN Built(u)' ELSE Quiet(u)'
  <2>1. CASE Awaited(u) \in fired
    BY <1>2, <1>6, <2>1 DEF FiredIsTrue, Keeps
  <2>2. CASE Awaited(u) \notin fired
    <3>1. awaiting[u] = "wait" /\ phases'[u] = IF Building THEN "BuildComplete" ELSE "Running"
      BY <1>2, <1>4, <1>6, <2>2
    <3>2. IF Building THEN BuildSent(u)' ELSE StartSent(u)'
      BY <1>2, <1>6, <3>1 DEF Lane, JoinLane
    <3> QED BY <1>2, <3>1, <3>2, PhasesTell DEF PhaseTells
  <2> QED BY <2>1, <2>2
<1> QED BY <1>2, <1>5, <1>6 DEF FiredIsTrue

LEMMA SideNobodyRemoved ==
  ASSUME Types, LoopShape, NobodyRemovedAtFirst, NEW w \in Workers, WorkerSide(w), Lane(w),
         \A u \in Workers : Keeps(u) /\ Lane(u)'
  PROVE  NobodyRemovedAtFirst'
<1>1. UNCHANGED Coordination /\ \A u \in Workers \ {w} : UNCHANGED LaneOf(u)
  BY SideFrame
<1>2. /\ pc' = pc /\ active' = active /\ active \subseteq Workers
      /\ awaiting' = awaiting /\ joining' = joining /\ (FirstStart' <=> FirstStart)
      /\ Building' = Building
  BY <1>1 DEF Coordination, loopVars, stateVars, Types, FirstStart, Building
<1> SUFFICES ASSUME FirstStart, NEW u \in Workers PROVE NothingRemoved(u)'
  BY <1>2 DEF NobodyRemovedAtFirst
<1>3. NothingRemoved(w)
  BY DEF NobodyRemovedAtFirst
<1>4. CASE u # w
  BY <1>1, <1>2, <1>4 DEF NobodyRemovedAtFirst, NothingRemoved, LaneOf
<1>5. Quiet(w)' \/ StartSent(w)' \/ Built(w)' => NothingRemoved(w)'
  BY PhasesTell DEF PhaseTells
<1>6. ASSUME Vacant(w) PROVE fromWorker[w] = <<>>
  BY <1>3, <1>6 DEF Vacant, NothingRemoved
<1>7. ASSUME Vacant(w), toWorker[w] = <<>> PROVE NothingRemoved(w)'
  <2>1. control[w] \in {"waitBuild", "removed"}
    BY <1>7 DEF Vacant
  <2>2. Respawn(w)
    BY <1>6, <1>7, <2>1 DEF WorkerSide, WorkerStep, Inbound, WorkerReceive, WorkerFinish, WorkerComplete
  <2>3. fromWorker' = fromWorker /\ phases' = phases
    BY <2>2 DEF Respawn, mapVars, chanVars
  <2> QED BY <1>2, <1>3, <2>3 DEF NothingRemoved
<1>8. ASSUME Building, BuildSent(w) PROVE NothingRemoved(w)'
  <2>1. CASE toWorker[w] = <<StartMessage>> /\ Vacant(w)
    <3>1. control[w] \in {"waitBuild", "removed"}
      BY <2>1 DEF Vacant
    <3>2. Respawn(w) \/ (WorkerReceive(w) /\ control[w] = "waitBuild")
      BY <1>6, <2>1, <3>1 DEF WorkerSide, WorkerStep, Inbound, WorkerReceive, WorkerFinish, WorkerComplete
    <3>3. CASE Respawn(w)
      <4>1. fromWorker' = fromWorker /\ phases' = phases
        BY <3>3 DEF Respawn, mapVars, chanVars
      <4> QED BY <1>2, <1>3, <4>1 DEF NothingRemoved
    <3>4. CASE WorkerReceive(w) /\ control[w] = "waitBuild"
      <4>1. Head(toWorker[w]) = StartMessage
        BY <2>1, Tails
      <4>2. ControlAfter(w, StartMessage.kind) = "waitStart" /\ ReportAfter["waitStart"] = <<"BuildComplete">>
        BY <1>8, <3>4 DEF ControlAfter, ReportAfter, StartMessage
      <4>3. phases' = phases /\ fromWorker'[w] = fromWorker[w] \o <<"BuildComplete">>
        BY <3>4, <4>1, <4>2, ReceiveEffect
      <4>4. fromWorker'[w] = <<"BuildComplete">>
        BY <1>6, <2>1, <4>3, Joins
      <4>5. <<"BuildComplete">> \notin {<<"Removed">>, <<"Removed", "BuildComplete">>}
        OBVIOUS
      <4> QED BY <1>2, <1>3, <4>3, <4>4, <4>5 DEF NothingRemoved
    <3> QED BY <3>2, <3>3, <3>4
  <2>2. CASE toWorker[w] = <<>> /\ control[w] = "waitStart" /\ ~Built(w)
    <3>1. Inbound(w)
      BY <2>2 DEF WorkerSide, WorkerStep, Respawn, WorkerReceive, WorkerFinish, WorkerComplete
    <3>2. fromWorker[w] = <<"BuildComplete">>
      BY <1>3, <1>8, <2>2 DEF BuildSent, Vacant, NothingRemoved
    <3>3. Reads(w)
      BY <3>1 DEF Inbound, Change, Reads, Types, workerVars, storeVars
    <3>4. Built(w)'
      BY <2>2, <3>2, <3>3, Tails, ReportedPhases DEF Reads, Built, At
    <3> QED BY <1>5, <3>4
  <2>3. CASE Built(w)
    BY <1>5, <2>3 DEF Keeps
  <2> QED BY <1>8, <2>1, <2>2, <2>3 DEF BuildSent
<1>9. CASE w \notin active
  <2>1. Vacant(w) /\ toWorker[w] = <<>>
    BY <1>9 DEF Lane, Outside, Idle, FirstStart, JoinStages
  <2> QED BY <1>4, <1>7, <2>1
<1>10. CASE w \in active
  <2>1. pc \in JoinStages /\ w \in joining
    BY <1>10 DEF FirstStart
  <2>2. JoinLane(w)
    BY <1>10, <2>1 DEF Lane
  <2>3. \/ BuildReady(w) \/ Built(w) \/ Quiet(w)
        \/ Building /\ BuildSent(w)
        \/ ~Building /\ StartSent(w)
    BY <2>2 DEF JoinLane
  <2>4. CASE BuildReady(w)
    BY <1>4, <1>7, <2>4 DEF BuildReady
  <2> QED BY <1>4, <1>5, <1>8, <2>3, <2>4 DEF Keeps
<1> QED BY <1>9, <1>10

\* Who has completed stays so.
LEMMA SideCompletedStays ==
  ASSUME Types, NEW w \in Workers, WorkerSide(w)
  PROVE  \A u \in Workers : control[u] = "completed" =>
           control'[u] = "completed" /\ toWorker'[u] = toWorker[u]
<1>1. \A u \in Workers \ {w} : UNCHANGED LaneOf(u)
  BY SideFrame
<1>2. control[w] = "completed" => control'[w] = "completed" /\ toWorker'[w] = toWorker[w]
  BY DEF WorkerSide, WorkerStep, Inbound, WorkerReceive, WorkerFinish, WorkerComplete, Respawn,
         workerVars
<1> QED BY <1>1, <1>2 DEF LaneOf

LEMMA SideHasCompletedStays ==
  ASSUME Types, NEW w \in Workers, Lane(w), WorkerSide(w)
  PROVE  \A u \in active : HasCompleted(u) => HasCompleted(u)'
<1>1. UNCHANGED Coordination /\ \A u \in Workers \ {w} : UNCHANGED LaneOf(u)
  BY SideFrame
<1>2. pc' = pc /\ target' = target /\ active \subseteq Workers
  BY <1>1 DEF Coordination, loopVars, stateVars, Types
<1>3. \A u \in active : u # w => control'[u] = control[u]
  BY <1>1, <1>2 DEF LaneOf
<1>4. ASSUME pc \in {"reconfStarted", "reconfDone", "remove"}, w \in active,
             control[w] \in {"removed", "waitBuild"}
      PROVE  control'[w] \in {"removed", "waitBuild"}
  <2>1. \A c, p, r : At(w, c, p, r) => c \in {"removed", "waitBuild"}
    BY <1>4 DEF At
  <2>2. ~Settled(w)
    BY <2>1 DEF Settled
  <2>3. ReconfLane(w) \/ ReconfBegun(w) \/ ReconfOver(w)
    BY <1>4 DEF Lane
  <2>4. toWorker[w] = <<>>
    BY <2>2, <2>3 DEF ReconfLane, ReconfBegun, ReconfOver
  <2> QED BY <1>4, <2>4 DEF WorkerSide, WorkerStep, Inbound, WorkerReceive, WorkerFinish,
             WorkerComplete, Respawn, workerVars, Types
<1> QED BY <1>2, <1>3, <1>4, SideCompletedStays DEF HasCompleted

LEMMA SideCompletion ==
  ASSUME Types, LoopShape, ConditionsAreAwaited, CompletedMeans, NotBothEmpty,
         NobodyRemovedAtFirst, NobodyRemovedAtFirst', NEW w \in Workers, WorkerSide(w), Lane(w),
         \A u \in Workers : Keeps(u) /\ Lane(u)'
  PROVE  CompletedMeans' /\ NotBothEmpty'
<1> DEFINE End == Condition(AllWorkers, "Completed")
<1>1. UNCHANGED Coordination
  BY SideFrame
<1>2. /\ pc' = pc /\ active' = active /\ active \subseteq Workers /\ target' = target
      /\ joining' = joining /\ awaiting' = awaiting
      /\ (FirstStart' <=> FirstStart) /\ Building' = Building
  BY <1>1 DEF Coordination, loopVars, stateVars, Types, FirstStart, Building
<1>3. CASE End \in fired
  <2>1. CompletedMeans'
    <3>1. CASE \A u \in active : HasCompleted(u)
      BY <1>2, <3>1, SideHasCompletedStays DEF CompletedMeans
    <3>2. CASE /\ pc \in {"buildNew", "startNew", "reconfSend", "reconfStarted"}
               /\ \E o \in active \ joining : /\ control[o] = "completed"
                                              /\ pc = "reconfStarted" => toWorker[o] # <<>>
      BY <1>2, <3>2, SideCompletedStays DEF CompletedMeans
    <3> QED BY <1>3, <3>1, <3>2 DEF CompletedMeans
  <2> QED BY <1>2, <1>3, <2>1 DEF NotBothEmpty
<1>4. CASE End \in fired' /\ End \notin fired
  <2>1. End \in registered /\ Holds(End, phases') /\ Inbound(w)
    BY <1>4, SideConditions
  <2>2. \A u \in Workers : phases'[u] \in {Absent, "Completed"}
    BY <2>1, ConditionFacts
  <2>3. pc \notin {"buildAll", "startAll", "arm"}
    BY <2>1, AwaitedAll DEF WaitPhase
  <2>4. pc \notin {"reply", "returned"} => active # {}
    <3> SUFFICES ASSUME pc \notin {"reply", "returned"}, active = {} PROVE FALSE
      OBVIOUS
    <3>1. FirstStart
      BY DEF FirstStart
    <3>2. fromWorker[w] # <<>> /\ fromWorker[w] # <<"Removed">>
      BY <2>1, <3>1 DEF Inbound, NobodyRemovedAtFirst, NothingRemoved
    <3> QED BY <3>2 DEF Lane, Outside, Idle, Vacant
  <2>5. ASSUME NEW u \in active, pc \notin JoinStages PROVE HasCompleted(u)'
    <3>1. PhaseTells(u)'
      BY <1>2, PhasesTell
    <3>2. \/ Quiet(u)' \/ SnapLane(u)' \/ SuspendLane(u)'
          \/ pc \in {"reconfStarted", "reconfDone", "remove"} /\ ReconfLane(u)'
      <4>1. Lane(u)' /\ pc' \in Stages /\ u \in active'
        BY <1>2, <2>5 DEF Types
      <4>2. /\ Quiet(u)' \/ SnapLane(u)' \/ SnapBegun(u)' \/ SuspendLane(u)' \/ Suspended(u)'
               \/ /\ pc \in {"reconfStarted", "reconfDone", "remove"}
                  /\ ReconfLane(u)' \/ ReconfBegun(u)' \/ ReconfOver(u)'
        BY <1>2, <2>5, <4>1
        DEF Lane, Stages, CalmStages, AgreedStages, ReconfStages, JoinStages
      <4> QED BY <4>2 DEF SnapLane, SuspendLane, ReconfLane, ReconfBegun
    <3>3. phases'[u] \in {Absent, "Completed"}
      BY <1>2, <2>2
    <3> QED BY <1>2, <3>1, <3>2, <3>3 DEF PhaseTells, HasCompleted
  <2>6. ASSUME pc \notin JoinStages PROVE CompletedMeans'
    BY <1>2, <2>5, <2>6 DEF CompletedMeans
  <2>7. ASSUME pc \in JoinStages, ~(active \subseteq joining) PROVE CompletedMeans'
    <3>1. PICK o \in active \ joining : TRUE
      BY <2>7
    <3>2. Quiet(o)'
      BY <1>2, <2>7, <3>1 DEF Lane
    <3>3. control'[o] = "completed"
      BY <1>2, <2>2, <3>1, <3>2, PhasesTell DEF PhaseTells
    <3> QED BY <1>2, <2>3, <2>7, <3>1, <3>3 DEF CompletedMeans, JoinStages
  <2>8. ASSUME pc \in JoinStages, active \subseteq joining PROVE CompletedMeans'
    <3>1. \A u \in active : phases'[u] = "Completed"
      BY <1>2, <2>2, <2>8 DEF NobodyRemovedAtFirst, NothingRemoved, FirstStart
    <3>2. ASSUME NEW u \in active PROVE control'[u] = "completed"
      <4>1. PhaseTells(u)' /\ JoinLane(u)'
        BY <1>2, <2>8, PhasesTell DEF Lane
      <4>2. BuildReady(u)' \/ BuildSent(u)' \/ Built(u)' \/ Quiet(u)' \/ StartSent(u)'
        BY <4>1 DEF JoinLane
      <4> QED BY <3>1, <4>1, <4>2 DEF PhaseTells
    <3> QED BY <1>2, <3>2 DEF CompletedMeans, HasCompleted
  <2>9. CompletedMeans'
    BY <2>6, <2>7, <2>8
  <2> QED BY <1>2, <2>4, <2>9 DEF NotBothEmpty
<1> QED BY <1>3, <1>4 DEF CompletedMeans, NotBothEmpty

LEMMA SideStep ==
  ASSUME IInv, NEW w \in Workers, WorkerSide(w)
  PROVE  IInv'
<1>1. /\ Types /\ VersionsInOrder /\ LoopShape /\ ConditionsAreAwaited /\ FiredIsTrue /\ Agreement
      /\ FiredOnce
      /\ NobodyRemovedAtFirst /\ CompletedMeans /\ NotBothEmpty /\ PersistedState
      /\ CommittedSnapshotIsComplete /\ ReturnsOnlyWhenDone /\ Lane(w) /\ \A u \in Workers : Lane(u)
  BY DEF IInv
<1>2. UNCHANGED <<Coordination, requests, submitted, defaultDue, commits, saved>>
  BY <1>1, SideFrame
<1>3. UNCHANGED <<pc, step, request, target, joining, awaiting, active, configVersion, snapVersion,
                  incarnation, requests, submitted, defaultDue, commits, saved>>
  BY <1>2 DEF Coordination, loopVars, stateVars
<1>4. \A u \in Workers : Keeps(u) /\ Lane(u)'
  BY <1>1, SideLanes
<1>5. /\ registered' \subseteq registered
      /\ fired' \subseteq fired \cup registered /\ FiredOnce'
  BY <1>1, SideConditions
<1>6. /\ written' \in [Workers -> [Versions -> Int]]
      /\ \A i \in DOMAIN commits, u \in Workers : written'[u][commits[i]] = written[u][commits[i]]
  BY <1>1, SideWrites
<1>7. Types'
  <2>1. /\ DOMAIN toWorker' = Workers /\ DOMAIN fromWorker' = Workers /\ DOMAIN phases' = Workers
        /\ DOMAIN control' = Workers /\ DOMAIN job' = Workers /\ DOMAIN knownSet' = Workers
    <3>1. CASE Inbound(w)
      BY <1>1, <3>1 DEF Types, Inbound, Change, workerVars
    <3>2. CASE WorkerReceive(w)
      BY <1>1, <3>2 DEF Types, WorkerReceive, Report, mapVars
    <3>3. CASE WorkerFinish(w)
      BY <1>1, <3>3 DEF Types, WorkerFinish, Report, mapVars
    <3>4. CASE WorkerComplete(w)
      BY <1>1, <3>4 DEF Types, WorkerComplete, Report, mapVars
    <3>5. CASE Respawn(w)
      BY <1>1, <3>5 DEF Types, Respawn, mapVars, chanVars
    <3> QED BY <3>1, <3>2, <3>3, <3>4, <3>5 DEF WorkerSide, WorkerStep
  <2>2. ProperRequest(request)' /\ (\A i \in DOMAIN requests : ProperRequest(requests[i]))'
    BY <1>1, <1>3 DEF Types, ProperRequest
  <2> QED BY <1>1, <1>3, <1>5, <1>6, <2>1, <2>2 DEF Types
<1>8. VersionsInOrder' /\ LoopShape' /\ PersistedState'
  BY <1>1, <1>3 DEF VersionsInOrder, Queued, LoopShape, PersistedState, NextSnapshot
<1>9. ConditionsAreAwaited'
  BY <1>1, <1>3, <1>5 DEF ConditionsAreAwaited, Awaited, Building
<1>10. FiredIsTrue'
  BY <1>1, <1>4, SideFired
<1>11. Agreement'
  BY <1>1, SideAgreement
<1>12. NobodyRemovedAtFirst'
  BY <1>1, <1>4, SideNobodyRemoved
<1>13. CompletedMeans' /\ NotBothEmpty'
  BY <1>1, <1>4, <1>12, SideCompletion
<1>14. CommittedSnapshotIsComplete'
  <2>1. \A i \in DOMAIN commits : saved[commits[i]].active \subseteq Workers
    BY <1>1, VersionsFit DEF Types, StateType
  <2> QED BY <1>1, <1>3, <1>6, <2>1 DEF CommittedSnapshotIsComplete
<1>15. ReturnsOnlyWhenDone'
  BY <1>1, <1>3, SideCompletedStays DEF ReturnsOnlyWhenDone, Types
<1> QED
  BY <1>4, <1>5, <1>7, <1>8, <1>9, <1>10, <1>11, <1>12, <1>13, <1>14, <1>15 DEF IInv

----------------------------------------------------------------------------
(* Steps of the coordinator.                                               *)

\* A worker that the step leaves alone is where it was, as far as that does
\* not depend on what the coordinator has in work.
LEMMA StillLane ==
  ASSUME NEW u \in Workers, UNCHANGED LaneOf(u)
  PROVE  /\ Settled(u) => Settled(u)'
         /\ Quiet(u) => Quiet(u)'
         /\ Idle(u) => Idle(u)'
         /\ BuildReady(u) => BuildReady(u)'
         /\ Built(u) => Built(u)'
         /\ Suspended(u) => Suspended(u)'
         /\ Drained(u) => Drained(u)'
         /\ StartMessage' = StartMessage =>
              (BuildSent(u) => BuildSent(u)') /\ (StartSent(u) => StartSent(u)')
         /\ NextSnapshot' = NextSnapshot /\ incarnation' = incarnation =>
              /\ Wrote(u) => Wrote(u)'
              /\ SnapBegun(u) => SnapBegun(u)'
              /\ SnapLane(u) => SnapLane(u)'
         /\ target' = target => (ReconfOver(u) => ReconfOver(u)')
         /\ target' = target /\ ReconfMessage' = ReconfMessage =>
              (ReconfBegun(u) => ReconfBegun(u)') /\ (ReconfLane(u) => ReconfLane(u)')
         /\ SuspendLane(u) => SuspendLane(u)'
<1>1. /\ toWorker'[u] = toWorker[u] /\ control'[u] = control[u] /\ phases'[u] = phases[u]
      /\ fromWorker'[u] = fromWorker[u] /\ job'[u] = job[u] /\ written'[u] = written[u]
  BY DEF LaneOf
<1>2. /\ \A c, p, r : At(u, c, p, r) => At(u, c, p, r)'
      /\ \A p, r : Left(u, p, r) => Left(u, p, r)'
  BY <1>1 DEF At, Left
<1>3. Settled(u) => Settled(u)'
  BY <1>2 DEF Settled
<1>4. (Quiet(u) => Quiet(u)') /\ (Vacant(u) => Vacant(u)')
  BY <1>1, <1>3 DEF Quiet, Vacant
<1>5. /\ Idle(u) => Idle(u)'
      /\ BuildReady(u) => BuildReady(u)'
      /\ Built(u) => Built(u)'
      /\ Suspended(u) => Suspended(u)'
      /\ Drained(u) => Drained(u)'
  BY <1>1, <1>2, <1>4 DEF Idle, BuildReady, Built, Suspended, Drained
<1>6. StartMessage' = StartMessage =>
        (BuildSent(u) => BuildSent(u)') /\ (StartSent(u) => StartSent(u)')
  BY <1>1, <1>2, <1>4, <1>5 DEF BuildSent, StartSent
<1>7. ASSUME NextSnapshot' = NextSnapshot, incarnation' = incarnation
      PROVE  /\ Wrote(u) => Wrote(u)'
             /\ SnapBegun(u) => SnapBegun(u)'
             /\ SnapLane(u) => SnapLane(u)'
  <2>1. SnapMessage' = SnapMessage
    BY <1>7 DEF SnapMessage
  <2>2. Wrote(u) => Wrote(u)'
    BY <1>1, <1>7 DEF Wrote
  <2>3. SnapBegun(u) => SnapBegun(u)'
    BY <1>1, <1>2, <1>4, <2>1, <2>2 DEF SnapBegun, SnapDone
  <2> QED BY <1>1, <1>2, <1>3, <2>1, <2>2, <2>3 DEF SnapLane
<1>8. target' = target => (ReconfOver(u) => ReconfOver(u)')
  BY <1>1, <1>2, <1>3 DEF ReconfOver
<1>9. ASSUME target' = target, ReconfMessage' = ReconfMessage
      PROVE  (ReconfBegun(u) => ReconfBegun(u)') /\ (ReconfLane(u) => ReconfLane(u)')
  <2>1. ReconfBegun(u) => ReconfBegun(u)'
    BY <1>1, <1>2, <1>8, <1>9 DEF ReconfBegun
  <2> QED BY <1>1, <1>2, <1>3, <1>9, <2>1 DEF ReconfLane
<1>10. SuspendLane(u) => SuspendLane(u)'
  BY <1>1, <1>2, <1>3, <1>5 DEF SuspendLane
<1> QED BY <1>3, <1>4, <1>5, <1>6, <1>7, <1>8, <1>9, <1>10

\* A step that moves neither the workers nor the stage of the loop.
LaneVars ==
  <<pc, target, joining, awaiting, active, configVersion, snapVersion, phases, fired, toWorker,
    fromWorker, control, job, knownSet, written, incarnation>>

LEMMA UnmovedLanes ==
  ASSUME Types, \A u \in Workers : Lane(u), FiredIsTrue, UNCHANGED LaneVars
  PROVE  (\A u \in Workers : Lane(u)') /\ FiredIsTrue'
<1>1. UNCHANGED <<pc, target, joining, awaiting, active, configVersion, snapVersion, phases, fired,
                  toWorker, fromWorker, control, job, knownSet, written, incarnation>>
  BY DEF LaneVars
<1>2. /\ StartMessage' = StartMessage /\ NextSnapshot' = NextSnapshot
      /\ ReconfMessage' = ReconfMessage /\ (Building' <=> Building)
      /\ \A u : Awaited(u)' = Awaited(u)
  BY <1>1 DEF StartMessage, NextSnapshot, ReconfMessage, NextConfig, Building, Awaited
<1>3. \A u \in Workers : UNCHANGED LaneOf(u)
  BY <1>1 DEF LaneOf
<1>4. ASSUME NEW u \in Workers PROVE Lane(u)'
  <2>1. JoinLane(u) => JoinLane(u)'
    BY <1>1, <1>2, <1>3, StillLane DEF JoinLane
  <2>2. Outside(u) => Outside(u)'
    BY <1>1, <1>3, StillLane DEF Outside
  <2> QED BY <1>1, <1>2, <1>3, <2>1, <2>2, StillLane DEF Lane
<1>5. ASSUME NEW u \in active
      PROVE  (/\ pc = "snapStarted" /\ FiredAll("Snapshotting") => SnapBegun(u)
              /\ pc = "snapDone" /\ FiredAll("Running") => SnapDone(u)
              /\ pc = "reconfStarted" /\ FiredAll("Reconfiguring") => ReconfBegun(u)
              /\ pc = "reconfDone" /\ FiredAll("Running") => ReconfOver(u)
              /\ pc = "suspended" /\ FiredAll("Suspended") => Suspended(u)
              /\ pc \in JoinStages /\ u \in joining /\ Awaited(u) \in fired =>
                   IF Building THEN Built(u) ELSE Quiet(u))'
  <2>1. u \in Workers
    BY DEF Types
  <2>2. SnapDone(u) => SnapDone(u)'
    BY <1>1, <1>2, <1>3, <2>1, StillLane DEF SnapDone
  <2> QED BY <1>1, <1>2, <1>3, <2>1, <2>2, StillLane DEF FiredIsTrue, FiredAll
<1> QED BY <1>1, <1>4, <1>5 DEF FiredIsTrue

\* A step between two stages in which the workers are in no operation.
LEMMA CalmLanes ==
  ASSUME \A u \in Workers : Lane(u), pc \in CalmStages, pc' \in CalmStages, active' = active,
         \A u \in Workers : UNCHANGED LaneOf(u),
         active = {} /\ pc \in {"reply", "returned"} => pc' \in {"reply", "returned"},
         pc' \in {"persist", "commit"} =>
           pc \in {"persist", "commit"} /\ UNCHANGED <<snapVersion, incarnation>>
  PROVE  \A u \in Workers : Lane(u)'
<1> SUFFICES ASSUME NEW u \in Workers PROVE Lane(u)'
  OBVIOUS
<1>1. CASE u \notin active
  BY <1>1, StillLane DEF Lane, Outside
<1>2. CASE u \in active
  <2>1. Quiet(u)' /\ (pc' \in {"persist", "commit"} => Wrote(u)')
    BY <1>2, StillLane DEF Lane, NextSnapshot
  <2> QED BY <1>2, <2>1 DEF Lane, CalmStages, JoinStages
<1> QED BY <1>1, <1>2

\* The store and the numbering of snapshots are left alone.
LEMMA StoreKept ==
  ASSUME Types, VersionsInOrder, CommittedSnapshotIsComplete,
         UNCHANGED <<commits, written, saved, snapVersion, requests, submitted>>,
         pc' \in SnapStages => pc \in SnapStages
  PROVE  VersionsInOrder' /\ CommittedSnapshotIsComplete'
<1>1. Cardinality(Queued) \in Nat /\ Queued' = Queued
  BY QueueIsFinite DEF Queued
<1>2. VersionsInOrder'
  BY <1>1 DEF VersionsInOrder, Types
<1> QED BY <1>2 DEF CommittedSnapshotIsComplete

\* Outside the operations on all workers and the starts of workers the only
\* condition there can be is the one that ends the job.
LEMMA OnlyTheEnd ==
  ASSUME ConditionsAreAwaited, pc \notin JoinStages, pc \notin DOMAIN WaitPhase,
         registered' \cup fired' \subseteq registered \cup fired,
         pc' \notin {"buildAll", "startAll", "arm"}
  PROVE  ConditionsAreAwaited' /\ (active' \subseteq Workers => FiredIsTrue')
<1>1. \A c \in registered' \cup fired' : c.worker = AllWorkers /\ c.phase = "Completed"
  BY DEF ConditionsAreAwaited
<1>2. ConditionsAreAwaited'
  BY <1>1 DEF ConditionsAreAwaited
<1>3. \A p : p # "Completed" => ~FiredAll(p)'
  BY <1>1, ConditionFacts DEF FiredAll
<1>4. \A u \in Workers : Awaited(u)' \notin fired'
  BY <1>1, ConditionFacts DEF Awaited
<1>5. active' \subseteq Workers => FiredIsTrue'
  BY <1>3, <1>4 DEF FiredIsTrue
<1> QED BY <1>2, <1>5

\* How the end of the job stays noticed when no operation is in work.
LEMMA CalmCompletion ==
  ASSUME CompletedMeans, pc \notin ReconfStages, active' = active, control' = control,
         Condition(AllWorkers, "Completed") \in fired' => Condition(AllWorkers, "Completed") \in fired
  PROVE  CompletedMeans' /\ (Condition(AllWorkers, "Completed") \in fired' =>
                               \A u \in active : control[u] = "completed")
  BY DEF CompletedMeans, HasCompleted, ReconfStages
LEMMA ArmStep ==
  ASSUME IInv, ArmCompletion
  PROVE  IInv'
<1>1. /\ Types /\ VersionsInOrder /\ LoopShape /\ ConditionsAreAwaited /\ FiredOnce
      /\ FiredIsTrue /\ Agreement /\ NobodyRemovedAtFirst /\ CompletedMeans /\ NotBothEmpty
      /\ PersistedState /\ CommittedSnapshotIsComplete /\ ReturnsOnlyWhenDone
      /\ \A u \in Workers : Lane(u)
  BY DEF IInv
<1>2. /\ pc = "arm" /\ pc' = "loop" /\ fired' = fired
      /\ registered' = registered \cup {Condition(AllWorkers, "Completed")}
      /\ UNCHANGED <<step, request, target, joining, awaiting, active, configVersion, snapVersion,
                     phases, requests, submitted, defaultDue, toWorker, fromWorker, control, job,
                     knownSet, commits, written, saved, incarnation>>
  BY DEF ArmCompletion, Notify, stateVars, chanVars, workerVars, storeVars
<1>3. registered \cup fired = {}
  BY <1>1, <1>2 DEF ConditionsAreAwaited, JoinStages, WaitPhase
<1>4. Types'
  <2>1. Condition(AllWorkers, "Completed") \in ConditionType
    BY ConditionTyped DEF AwaitedPhases
  <2>2. registered' \subseteq ConditionType
    BY <1>1, <1>2, <2>1 DEF Types
  <2>3. pc' \in Stages
    BY <1>2 DEF Stages, CalmStages
  <2> QED BY <1>1, <1>2, <2>2, <2>3 DEF Types, ProperRequest
<1>5. ConditionsAreAwaited' /\ FiredOnce'
  BY <1>2, <1>3, ConditionFacts DEF ConditionsAreAwaited, FiredOnce
<1>6. \A u \in Workers : Lane(u)'
  BY <1>1, <1>2, CalmLanes DEF CalmStages, LaneOf
<1>7. VersionsInOrder' /\ CommittedSnapshotIsComplete'
  BY <1>1, <1>2, StoreKept DEF SnapStages
<1>8. /\ FiredIsTrue' /\ CompletedMeans' /\ NotBothEmpty'
  BY <1>2, <1>3 DEF FiredIsTrue, CompletedMeans, NotBothEmpty, FiredAll
<1>9. Agreement' /\ LoopShape' /\ PersistedState' /\ ReturnsOnlyWhenDone'
  BY <1>1, <1>2 DEF Agreement, AgreedStages, CalmStages, LoopShape, JoinStages, ReconfStages,
                    PersistedState, ReturnsOnlyWhenDone
<1>10. NobodyRemovedAtFirst'
  BY <1>1, <1>2 DEF NobodyRemovedAtFirst, NothingRemoved, FirstStart, JoinStages
<1> QED BY <1>4, <1>5, <1>6, <1>7, <1>8, <1>9, <1>10 DEF IInv

LEMMA ReturnStep ==
  ASSUME IInv, ReturnCompleted
  PROVE  IInv'
<1>1. /\ Types /\ VersionsInOrder /\ LoopShape /\ ConditionsAreAwaited /\ FiredOnce
      /\ FiredIsTrue /\ Agreement /\ NobodyRemovedAtFirst /\ CompletedMeans /\ NotBothEmpty
      /\ PersistedState /\ CommittedSnapshotIsComplete /\ ReturnsOnlyWhenDone
      /\ \A u \in Workers : Lane(u)
  BY DEF IInv
<1>2. /\ pc = "loop" /\ pc' = "returned" /\ registered' = registered
      /\ Condition(AllWorkers, "Completed") \in fired
      /\ fired' = fired \ {Condition(AllWorkers, "Completed")}
      /\ UNCHANGED <<step, request, target, joining, awaiting, active, configVersion, snapVersion,
                     phases, requests, submitted, defaultDue, toWorker, fromWorker, control, job,
                     knownSet, commits, written, saved, incarnation>>
  BY DEF ReturnCompleted, Notified, stateVars, chanVars, workerVars, storeVars
<1>3. ReturnsOnlyWhenDone'
  BY <1>1, <1>2 DEF ReturnsOnlyWhenDone, CompletedMeans, HasCompleted
<1>4. Types'
  BY <1>1, <1>2 DEF Types, Stages, CalmStages, ProperRequest
<1>5. ConditionsAreAwaited' /\ FiredOnce' /\ FiredIsTrue'
  BY <1>1, <1>2, OnlyTheEnd DEF FiredOnce, JoinStages, WaitPhase, Types
<1>6. \A u \in Workers : Lane(u)'
  BY <1>1, <1>2, CalmLanes DEF CalmStages, LaneOf
<1>7. VersionsInOrder' /\ CommittedSnapshotIsComplete'
  BY <1>1, <1>2, StoreKept DEF SnapStages
<1>8. CompletedMeans' /\ NotBothEmpty'
  BY <1>2 DEF CompletedMeans, NotBothEmpty
<1>9. Agreement' /\ LoopShape' /\ PersistedState'
  BY <1>1, <1>2 DEF Agreement, AgreedStages, CalmStages, LoopShape, JoinStages, ReconfStages,
                    PersistedState
<1>10. NobodyRemovedAtFirst'
  BY <1>1, <1>2 DEF NobodyRemovedAtFirst, NothingRemoved, FirstStart, JoinStages
<1> QED BY <1>3, <1>4, <1>5, <1>6, <1>7, <1>8, <1>9, <1>10 DEF IInv

LEMMA ReplyStep ==
  ASSUME IInv, Reply
  PROVE  IInv'
<1>1. /\ Types /\ VersionsInOrder /\ LoopShape /\ ConditionsAreAwaited /\ FiredOnce
      /\ FiredIsTrue /\ Agreement /\ NobodyRemovedAtFirst /\ CompletedMeans /\ NotBothEmpty
      /\ PersistedState /\ CommittedSnapshotIsComplete /\ ReturnsOnlyWhenDone
      /\ \A u \in Workers : Lane(u)
  BY DEF IInv
<1>2. /\ pc = "reply" /\ pc' \in {"returned", "loop"} /\ (pc' = "returned" <=> active = {})
      /\ UNCHANGED <<step, request, target, joining, awaiting, active, configVersion, snapVersion,
                     phases, registered, fired, requests, submitted, defaultDue, toWorker,
                     fromWorker, control, job, knownSet, commits, written, saved, incarnation>>
  BY DEF Reply, stateVars, mapVars, chanVars, workerVars, storeVars
<1>4. Types'
  BY <1>1, <1>2 DEF Types, Stages, CalmStages, ProperRequest
<1>5. ConditionsAreAwaited' /\ FiredOnce' /\ FiredIsTrue'
  BY <1>1, <1>2, OnlyTheEnd DEF FiredOnce, JoinStages, WaitPhase, Types
<1>6. \A u \in Workers : Lane(u)'
  BY <1>1, <1>2, CalmLanes DEF CalmStages, LaneOf
<1>7. VersionsInOrder' /\ CommittedSnapshotIsComplete'
  BY <1>1, <1>2, StoreKept DEF SnapStages
<1>8. CompletedMeans' /\ NotBothEmpty' /\ ReturnsOnlyWhenDone'
  BY <1>1, <1>2, CalmCompletion DEF NotBothEmpty, ReconfStages, ReturnsOnlyWhenDone
<1>9. Agreement' /\ LoopShape' /\ PersistedState'
  BY <1>1, <1>2 DEF Agreement, AgreedStages, CalmStages, LoopShape, JoinStages, ReconfStages,
                    PersistedState
<1>10. NobodyRemovedAtFirst'
  BY <1>1, <1>2 DEF NobodyRemovedAtFirst, NothingRemoved, FirstStart, JoinStages
<1> QED BY <1>4, <1>5, <1>6, <1>7, <1>8, <1>9, <1>10 DEF IInv

\* A request leaves the queue.
LEMMA TailOfQueue ==
  ASSUME Types, requests # <<>>, requests' = Tail(requests)
  PROVE  /\ requests' \in Seq(RequestType) /\ \A i \in DOMAIN requests' : ProperRequest(requests'[i])
         /\ ProperRequest(Head(requests))
         /\ Cardinality(Queued') \in Nat
         /\ Cardinality(Queued') <= Cardinality(Queued)
         /\ Head(requests).op = "Snapshot" => Cardinality(Queued') + 1 <= Cardinality(Queued)
<1>1. /\ requests \in Seq(RequestType) /\ Len(requests) \in Nat \ {0}
      /\ DOMAIN requests = 1..Len(requests) /\ requests' \in Seq(RequestType)
      /\ DOMAIN requests' = 1..(Len(requests) - 1)
      /\ \A i \in 1..(Len(requests) - 1) : requests'[i] = requests[i + 1]
      /\ Head(requests) = requests[1]
  BY DEF Types
<1>2. /\ \A i \in DOMAIN requests' : ProperRequest(requests'[i])
      /\ ProperRequest(Head(requests))
  <2>1. \A i \in DOMAIN requests : ProperRequest(requests[i])
    BY DEF Types
  <2>2. \A i \in 1..(Len(requests) - 1) : i + 1 \in DOMAIN requests
    BY <1>1
  <2>3. 1 \in DOMAIN requests
    BY <1>1
  <2> HIDE DEF ProperRequest
  <2> QED BY <1>1, <2>1, <2>2, <2>3
<1>3. IsFiniteSet(Queued) /\ Cardinality(Queued) \in Nat
  BY QueueIsFinite
<1> DEFINE f == [i \in Queued' |-> i + 1]
<1>4. Queued' = {i \in 1..(Len(requests) - 1) : requests[i + 1].op = "Snapshot"}
  BY <1>1 DEF Queued
<1>5. f \in Injection(Queued', Queued \ {1})
  <2>1. \A i \in Queued' : i + 1 \in Queued \ {1}
    BY <1>1, <1>4 DEF Queued
  <2>2. \A i, j \in Queued' : i + 1 = j + 1 => i = j
    BY <1>4
  <2> QED BY <2>1, <2>2 DEF Injection, IsInjective
<1>6. IsFiniteSet(Queued \ {1}) /\ Cardinality(Queued \ {1}) \in Nat
      /\ Cardinality(Queued \ {1}) <= Cardinality(Queued)
  BY <1>3, FS_Subset, FS_CardinalityType
<1>7. 1 \in Queued => Cardinality(Queued \ {1}) = Cardinality(Queued) - 1
  BY <1>3, FS_RemoveElement
<1>8. Cardinality(Queued') <= Cardinality(Queued \ {1}) /\ IsFiniteSet(Queued')
  <2> HIDE DEF f
  <2>1. IsFiniteSet(Queued')
    <3>1. IsFiniteSet(1..(Len(requests) - 1))
      BY <1>1, FS_Interval
    <3> QED BY <1>4, <3>1, FS_Subset
  <2> QED BY <1>5, <1>6, <2>1, FS_Injection
<1>9. Head(requests).op = "Snapshot" => 1 \in Queued
  BY <1>1 DEF Queued
<1>10. Cardinality(Queued') \in Nat
  BY <1>8, FS_CardinalityType
<1> QED BY <1>1, <1>2, <1>3, <1>6, <1>7, <1>8, <1>9, <1>10

LEMMA TakeStep ==
  ASSUME IInv, TakeRequest
  PROVE  IInv'
<1>1. /\ Types /\ VersionsInOrder /\ LoopShape /\ ConditionsAreAwaited /\ FiredOnce
      /\ FiredIsTrue /\ Agreement /\ NobodyRemovedAtFirst /\ CompletedMeans /\ NotBothEmpty
      /\ PersistedState /\ CommittedSnapshotIsComplete /\ ReturnsOnlyWhenDone
      /\ \A u \in Workers : Lane(u)
  BY DEF IInv
<1>2. /\ pc = "loop" /\ requests # <<>> /\ requests' = Tail(requests) /\ request' = Head(requests)
      /\ UNCHANGED <<step, joining, awaiting, active, configVersion, snapVersion,
                     phases, registered, fired, submitted, defaultDue, toWorker,
                     fromWorker, control, job, knownSet, commits, written, saved, incarnation>>
  BY DEF TakeRequest, stateVars, mapVars, workerVars, storeVars
<1>3. ProperRequest(request') /\ request'.op \in {"Scale", "Snapshot", "Suspend"}
  BY <1>1, <1>2, TailOfQueue DEF ProperRequest, RequestType
<1>4. /\ pc' \in {"snapSend", "suspendSend", "reply", "setup"}
      /\ pc' = "snapSend" <=> request'.op = "Snapshot"
      /\ target' \subseteq Workers
      /\ pc' = "setup" => target' # {}
  <2>1. CASE request'.op = "Scale"
    <3>1. request'.desired \in 1..NumWorkers /\ target' = 0..(request'.desired - 1)
      BY <1>3, <2>1 DEF ProperRequest, TakeRequest
    <3>2. pc' \in {"reply", "setup"}
      BY <2>1 DEF TakeRequest
    <3>3. 0 \in target' /\ target' \subseteq Workers
      BY <3>1, CoordinatorAssumption DEF Workers
    <3> QED BY <2>1, <3>2, <3>3
  <2>2. CASE request'.op = "Snapshot"
    BY <2>2 DEF TakeRequest
  <2>3. CASE request'.op = "Suspend"
    BY <2>3 DEF TakeRequest
  <2> QED BY <1>3, <2>1, <2>2, <2>3
<1>5. Types'
  BY <1>1, <1>2, <1>3, <1>4, TailOfQueue DEF Types, Stages, CalmStages, ProperRequest
<1>6. ConditionsAreAwaited' /\ FiredOnce' /\ FiredIsTrue'
  BY <1>1, <1>2, <1>4, OnlyTheEnd DEF FiredOnce, JoinStages, WaitPhase, Types
<1>7. \A u \in Workers : Lane(u)'
  BY <1>1, <1>2, <1>4, CalmLanes DEF CalmStages, LaneOf
<1>8. VersionsInOrder' /\ CommittedSnapshotIsComplete'
  <2>1. /\ Cardinality(Queued)' \in Nat /\ Cardinality(Queued) \in Nat
        /\ Cardinality(Queued)' + (IF pc' \in SnapStages THEN 1 ELSE 0) <= Cardinality(Queued)
    BY <1>1, <1>2, <1>4, TailOfQueue, QueueIsFinite DEF SnapStages
  <2>2. VersionsInOrder'
    BY <1>1, <1>2, <2>1 DEF VersionsInOrder, Types, SnapStages
  <2> QED BY <1>1, <1>2, <2>2 DEF CommittedSnapshotIsComplete
<1>9. CompletedMeans' /\ NotBothEmpty' /\ ReturnsOnlyWhenDone'
  BY <1>1, <1>2, <1>4, CalmCompletion DEF NotBothEmpty, ReconfStages, ReturnsOnlyWhenDone
<1>10. Agreement' /\ LoopShape' /\ PersistedState'
  BY <1>1, <1>2, <1>4 DEF Agreement, AgreedStages, CalmStages, LoopShape, JoinStages, ReconfStages,
                    PersistedState
<1>11. NobodyRemovedAtFirst'
  BY <1>1, <1>2, <1>4 DEF NobodyRemovedAtFirst, NothingRemoved, FirstStart, JoinStages
<1> QED BY <1>5, <1>6, <1>7, <1>8, <1>9, <1>10, <1>11 DEF IInv

\* A request is put into the queue.
LEMMA QueueGrows ==
  ASSUME Types, NEW r \in RequestType, ProperRequest(r), requests' = Append(requests, r)
  PROVE  /\ requests' \in Seq(RequestType) /\ \A i \in DOMAIN requests' : ProperRequest(requests'[i])
         /\ Cardinality(Queued') \in Nat
         /\ Cardinality(Queued') <= Cardinality(Queued) + 1
         /\ r.op # "Snapshot" => Cardinality(Queued') <= Cardinality(Queued)
<1> DEFINE n == Len(requests) + 1
<1>1. /\ requests \in Seq(RequestType) /\ Len(requests) \in Nat
      /\ DOMAIN requests = 1..Len(requests) /\ requests' \in Seq(RequestType)
      /\ DOMAIN requests' = 1..n
      /\ \A i \in 1..Len(requests) : requests'[i] = requests[i]
      /\ requests'[n] = r
  BY DEF Types
<1>2. \A i \in DOMAIN requests' : i = n \/ i \in DOMAIN requests
  BY <1>1
<1>3. \A i \in DOMAIN requests' : ProperRequest(requests'[i])
  <2>1. \A i \in DOMAIN requests : ProperRequest(requests[i])
    BY DEF Types
  <2> HIDE DEF n
  <2> QED BY <1>1, <1>2, <2>1
<1>4. IsFiniteSet(Queued) /\ Cardinality(Queued) \in Nat
  BY QueueIsFinite
<1>5. Queued' = IF r.op = "Snapshot" THEN Queued \cup {n} ELSE Queued
  BY <1>1, <1>2 DEF Queued
<1>6. Cardinality(Queued \cup {n}) \in Nat /\ Cardinality(Queued \cup {n}) <= Cardinality(Queued) + 1
  <2> HIDE DEF n
  <2>1. IsFiniteSet(Queued \cup {n})
        /\ (Cardinality(Queued \cup {n}) = Cardinality(Queued)
              \/ Cardinality(Queued \cup {n}) = Cardinality(Queued) + 1)
    BY <1>4, FS_AddElement
  <2> QED BY <1>4, <2>1
<1> QED BY <1>1, <1>3, <1>4, <1>5, <1>6

\* Only the queue changes.
LEMMA QueueStep ==
  ASSUME IInv, requests' \in Seq(RequestType), \A i \in DOMAIN requests' : ProperRequest(requests'[i]),
         submitted' \in 0..MaxRequests, defaultDue' \in BOOLEAN, Cardinality(Queued') \in Nat,
         Cardinality(Queued') - submitted' <= Cardinality(Queued) - submitted,
         UNCHANGED <<loopVars, stateVars, mapVars, toWorker, fromWorker, workerVars, storeVars>>
  PROVE  IInv'
<1>1. /\ Types /\ VersionsInOrder /\ LoopShape /\ ConditionsAreAwaited /\ FiredOnce
      /\ FiredIsTrue /\ Agreement /\ NobodyRemovedAtFirst /\ CompletedMeans /\ NotBothEmpty
      /\ PersistedState /\ CommittedSnapshotIsComplete /\ ReturnsOnlyWhenDone
      /\ \A u \in Workers : Lane(u)
  BY DEF IInv
<1>2. UNCHANGED <<pc, step, request, target, joining, awaiting, active, configVersion, snapVersion,
                  phases, registered, fired, toWorker, fromWorker, control, job, knownSet, commits,
                  written, saved, incarnation>>
  BY DEF loopVars, stateVars, mapVars, workerVars, storeVars
<1>3. UNCHANGED LaneVars
  BY <1>2 DEF LaneVars
<1>5. (\A u \in Workers : Lane(u)') /\ FiredIsTrue'
  BY <1>1, <1>3, UnmovedLanes
<1>6. Types'
  BY <1>1, <1>2 DEF Types, ProperRequest
<1>7. VersionsInOrder'
  <2>1. Cardinality(Queued) \in Nat
    BY <1>1, QueueIsFinite
  <2>2. submitted \in Int /\ submitted' \in Int /\ snapVersion \in Int
    BY <1>1 DEF Types
  <2> QED BY <1>1, <1>2, <2>1, <2>2 DEF VersionsInOrder
<1>8. ConditionsAreAwaited' /\ LoopShape' /\ FiredOnce'
  BY <1>1, <1>2 DEF ConditionsAreAwaited, Awaited, Building, LoopShape, FiredOnce
<1>10. Agreement' /\ NobodyRemovedAtFirst' /\ NotBothEmpty'
  BY <1>1, <1>2 DEF Agreement, NobodyRemovedAtFirst, NothingRemoved, FirstStart, NotBothEmpty
<1>11. CompletedMeans' /\ PersistedState' /\ CommittedSnapshotIsComplete' /\ ReturnsOnlyWhenDone'
  BY <1>1, <1>2 DEF CompletedMeans, HasCompleted, PersistedState, NextSnapshot,
                    CommittedSnapshotIsComplete, ReturnsOnlyWhenDone
<1> QED BY <1>5, <1>6, <1>7, <1>8, <1>10, <1>11 DEF IInv

LEMMA DefaultScaleStep ==
  ASSUME IInv, SendDefaultScale
  PROVE  IInv'
<1>1. Scale(DefaultScale) \in RequestType /\ ProperRequest(Scale(DefaultScale))
      /\ Scale(DefaultScale).op # "Snapshot"
  BY CoordinatorAssumption DEF Scale, RequestType, ProperRequest
<1>2. requests' = Append(requests, Scale(DefaultScale)) /\ Types
  BY DEF SendDefaultScale, IInv
<1>3. /\ requests' \in Seq(RequestType) /\ \A i \in DOMAIN requests' : ProperRequest(requests'[i])
      /\ Cardinality(Queued') \in Nat /\ Cardinality(Queued') <= Cardinality(Queued)
  BY <1>1, <1>2, QueueGrows
<1>4. /\ submitted' = submitted /\ submitted \in 0..MaxRequests /\ defaultDue' = FALSE
      /\ Cardinality(Queued) \in Nat
  BY <1>2, QueueIsFinite DEF SendDefaultScale, Types
<1>5. defaultDue' \in BOOLEAN
  BY <1>4, Zenon
<1>6. /\ Cardinality(Queued') - submitted' <= Cardinality(Queued) - submitted
      /\ submitted' \in 0..MaxRequests
  <2>1. submitted' = submitted /\ submitted \in Int
    BY <1>4
  <2> QED BY <1>3, <1>4, <2>1
<1>7. UNCHANGED <<loopVars, stateVars, mapVars, toWorker, fromWorker, workerVars, storeVars>>
  BY DEF SendDefaultScale
<1> QED BY <1>3, <1>5, <1>6, <1>7, QueueStep

LEMMA SubmitStep ==
  ASSUME IInv, Submit
  PROVE  IInv'
<1>1. PICK r \in Requests : requests' = Append(requests, r)
  BY DEF Submit
<1>2. r \in RequestType /\ ProperRequest(r)
  BY CoordinatorAssumption DEF Scale, Snapshot, Suspend, RequestType, ProperRequest
<1>3. Types
  BY DEF IInv
<1>4. /\ requests' \in Seq(RequestType) /\ \A i \in DOMAIN requests' : ProperRequest(requests'[i])
      /\ Cardinality(Queued') \in Nat /\ Cardinality(Queued') <= Cardinality(Queued) + 1
  BY <1>1, <1>2, <1>3, QueueGrows
<1>5. /\ submitted' = submitted + 1 /\ submitted' \in 0..MaxRequests /\ submitted \in Int
      /\ defaultDue' = defaultDue /\ defaultDue \in BOOLEAN /\ Cardinality(Queued) \in Nat
  BY <1>3, QueueIsFinite, CoordinatorAssumption DEF Submit, Types
<1> QED BY <1>4, <1>5, QueueStep DEF Submit

\* A message is sent to every worker of the job, whose channels are empty.
LEMMA SentToAll ==
  ASSUME Types, \A u \in active : Quiet(u)
  PROVE  \A m : toWorker' = Send(active, m) =>
           /\ DOMAIN toWorker' = Workers
           /\ \A u \in active : toWorker'[u] = <<m>> /\ <<m>> # <<>>
           /\ \A u \in Workers \ active : toWorker'[u] = toWorker[u]
<1> TAKE m
<1> HAVE toWorker' = Send(active, m)
<1>1. \A u \in active : toWorker[u] = <<>> /\ u \in Workers
  BY DEF Quiet, Types
<1>2. \A u \in active : toWorker'[u] = Append(<<>>, m)
  BY <1>1 DEF Send
<1>3. Append(<<>>, m) = <<m>> /\ <<m>> # <<>>
  BY Appends
<1> QED BY <1>2, <1>3 DEF Send

\* Workers keep their control state, reports and phases.
LEMMA OnlySent ==
  ASSUME NEW u \in Workers, UNCHANGED <<phases, control, fromWorker>>
  PROVE  (Settled(u) => Settled(u)') /\ (control'[u] = control[u])
  BY DEF Settled, At

LEMMA SnapshotSendStep ==
  ASSUME IInv, SnapshotSend
  PROVE  IInv'
<1>1. /\ Types /\ VersionsInOrder /\ LoopShape /\ ConditionsAreAwaited /\ FiredOnce
      /\ FiredIsTrue /\ Agreement /\ NobodyRemovedAtFirst /\ CompletedMeans /\ NotBothEmpty
      /\ PersistedState /\ CommittedSnapshotIsComplete /\ ReturnsOnlyWhenDone
      /\ \A u \in Workers : Lane(u)
  BY DEF IInv
<1>2. /\ pc = "snapSend" /\ pc' = "snapStarted" /\ toWorker' = Send(active, SnapMessage)
      /\ UNCHANGED <<step, request, target, joining, awaiting, active, configVersion, snapVersion,
                     phases, registered, fired, requests, submitted, defaultDue, fromWorker,
                     control, job, knownSet, commits, written, saved, incarnation>>
  BY DEF SnapshotSend, SnapMessage, stateVars, mapVars, workerVars, storeVars
<1>3. \A u \in active : Quiet(u)
  BY <1>1, <1>2 DEF Lane, CalmStages, Types
<1>4. /\ DOMAIN toWorker' = Workers
      /\ \A u \in active : toWorker'[u] = <<SnapMessage>>
      /\ \A u \in Workers \ active : toWorker'[u] = toWorker[u]
  BY <1>1, <1>2, <1>3, SentToAll
<1>5. Types'
  <2>1. pc' \in Stages
    BY <1>2 DEF Stages, AgreedStages
  <2> QED BY <1>1, <1>2, <1>4, <2>1 DEF Types, ProperRequest
<1>6. ConditionsAreAwaited' /\ FiredOnce' /\ FiredIsTrue'
  BY <1>1, <1>2, OnlyTheEnd DEF FiredOnce, JoinStages, WaitPhase, Types
<1>7. ASSUME NEW u \in Workers PROVE Lane(u)'
  <2>1. CASE u \notin active
    <3>1. Idle(u) /\ UNCHANGED LaneOf(u)
      BY <1>1, <1>2, <1>4, <2>1 DEF Lane, Outside, LaneOf
    <3> QED BY <1>2, <2>1, <3>1, StillLane DEF Lane, Outside
  <2>2. CASE u \in active
    <3>1. Settled(u)'
      BY <1>2, <1>3, <2>2, OnlySent DEF Quiet
    <3>2. SnapMessage' = SnapMessage
      BY <1>2 DEF SnapMessage, NextSnapshot
    <3>3. SnapLane(u)'
      BY <1>4, <2>2, <3>1, <3>2 DEF SnapLane
    <3> QED BY <1>2, <2>2, <3>3 DEF Lane, CalmStages, JoinStages
  <2> QED BY <2>1, <2>2
<1>8. VersionsInOrder' /\ CommittedSnapshotIsComplete'
  BY <1>1, <1>2, StoreKept DEF SnapStages
<1>9. CompletedMeans' /\ NotBothEmpty' /\ ReturnsOnlyWhenDone'
  BY <1>1, <1>2, CalmCompletion DEF NotBothEmpty, ReconfStages, ReturnsOnlyWhenDone
<1>10. Agreement' /\ LoopShape' /\ PersistedState'
  BY <1>1, <1>2 DEF Agreement, AgreedStages, CalmStages, LoopShape, JoinStages, ReconfStages,
                    PersistedState
<1>11. NobodyRemovedAtFirst'
  BY <1>1, <1>2 DEF NobodyRemovedAtFirst, NothingRemoved, FirstStart, JoinStages
<1> QED BY <1>5, <1>6, <1>7, <1>8, <1>9, <1>10, <1>11 DEF IInv

LEMMA SuspendSendStep ==
  ASSUME IInv, SuspendSend
  PROVE  IInv'
<1>1. /\ Types /\ VersionsInOrder /\ LoopShape /\ ConditionsAreAwaited /\ FiredOnce
      /\ FiredIsTrue /\ Agreement /\ NobodyRemovedAtFirst /\ CompletedMeans /\ NotBothEmpty
      /\ PersistedState /\ CommittedSnapshotIsComplete /\ ReturnsOnlyWhenDone
      /\ \A u \in Workers : Lane(u)
  BY DEF IInv
<1>2. /\ pc = "suspendSend" /\ pc' = "suspended" /\ toWorker' = Send(active, [kind |-> "Suspend"])
      /\ UNCHANGED <<step, request, target, joining, awaiting, active, configVersion, snapVersion,
                     phases, registered, fired, requests, submitted, defaultDue, fromWorker,
                     control, job, knownSet, commits, written, saved, incarnation>>
  BY DEF SuspendSend, stateVars, mapVars, workerVars, storeVars
<1>3. \A u \in active : Quiet(u)
  BY <1>1, <1>2 DEF Lane, CalmStages, Types
<1>4. /\ DOMAIN toWorker' = Workers
      /\ \A u \in active : toWorker'[u] = <<[kind |-> "Suspend"]>>
      /\ \A u \in Workers \ active : toWorker'[u] = toWorker[u]
  BY <1>1, <1>2, <1>3, SentToAll
<1>5. Types'
  <2>1. pc' \in Stages
    BY <1>2 DEF Stages, AgreedStages
  <2> QED BY <1>1, <1>2, <1>4, <2>1 DEF Types, ProperRequest
<1>6. ConditionsAreAwaited' /\ FiredOnce' /\ FiredIsTrue'
  BY <1>1, <1>2, OnlyTheEnd DEF FiredOnce, JoinStages, WaitPhase, Types
<1>7. ASSUME NEW u \in Workers PROVE Lane(u)'
  <2>1. CASE u \notin active
    <3>1. Idle(u) /\ UNCHANGED LaneOf(u)
      BY <1>1, <1>2, <1>4, <2>1 DEF Lane, Outside, LaneOf
    <3> QED BY <1>2, <2>1, <3>1, StillLane DEF Lane, Outside
  <2>2. CASE u \in active
    <3>1. Settled(u)'
      BY <1>2, <1>3, <2>2, OnlySent DEF Quiet
    <3>2. SuspendLane(u)'
      BY <1>4, <2>2, <3>1 DEF SuspendLane
    <3> QED BY <1>2, <2>2, <3>2 DEF Lane, CalmStages, JoinStages
  <2> QED BY <2>1, <2>2
<1>8. VersionsInOrder' /\ CommittedSnapshotIsComplete'
  BY <1>1, <1>2, StoreKept DEF SnapStages
<1>9. CompletedMeans' /\ NotBothEmpty' /\ ReturnsOnlyWhenDone'
  BY <1>1, <1>2, CalmCompletion DEF NotBothEmpty, ReconfStages, ReturnsOnlyWhenDone
<1>10. Agreement' /\ LoopShape' /\ PersistedState'
  BY <1>1, <1>2 DEF Agreement, AgreedStages, CalmStages, LoopShape, JoinStages, ReconfStages,
                    PersistedState
<1>11. NobodyRemovedAtFirst'
  BY <1>1, <1>2 DEF NobodyRemovedAtFirst, NothingRemoved, FirstStart, JoinStages
<1> QED BY <1>5, <1>6, <1>7, <1>8, <1>9, <1>10, <1>11 DEF IInv

LEMMA ReconfigSendStep ==
  ASSUME IInv, ReconfigSend
  PROVE  IInv'
<1>1. /\ Types /\ VersionsInOrder /\ LoopShape /\ ConditionsAreAwaited /\ FiredOnce
      /\ FiredIsTrue /\ Agreement /\ NobodyRemovedAtFirst /\ CompletedMeans /\ NotBothEmpty
      /\ PersistedState /\ CommittedSnapshotIsComplete /\ ReturnsOnlyWhenDone
      /\ \A u \in Workers : Lane(u)
  BY DEF IInv
<1>2. /\ pc = "reconfSend" /\ pc' = "reconfStarted" /\ toWorker' = Send(active, ReconfMessage)
      /\ UNCHANGED <<step, request, target, joining, awaiting, active, configVersion, snapVersion,
                     phases, registered, fired, requests, submitted, defaultDue, fromWorker,
                     control, job, knownSet, commits, written, saved, incarnation>>
  BY DEF ReconfigSend, ReconfMessage, stateVars, mapVars, workerVars, storeVars
<1>3. \A u \in active : Quiet(u)
  BY <1>1, <1>2 DEF Lane, CalmStages, Types
<1>4. /\ DOMAIN toWorker' = Workers
      /\ \A u \in active : toWorker'[u] = <<ReconfMessage>> /\ <<ReconfMessage>> # <<>>
      /\ \A u \in Workers \ active : toWorker'[u] = toWorker[u]
  BY <1>1, <1>2, <1>3, SentToAll
<1>5. Types'
  <2>1. pc' \in Stages
    BY <1>2 DEF Stages, ReconfStages
  <2> QED BY <1>1, <1>2, <1>4, <2>1 DEF Types, ProperRequest
<1>6. ConditionsAreAwaited' /\ FiredOnce' /\ FiredIsTrue'
  BY <1>1, <1>2, OnlyTheEnd DEF FiredOnce, JoinStages, WaitPhase, Types
<1>7. ASSUME NEW u \in Workers PROVE Lane(u)'
  <2>1. CASE u \notin active
    <3>1. Idle(u) /\ UNCHANGED LaneOf(u)
      BY <1>1, <1>2, <1>4, <2>1 DEF Lane, Outside, LaneOf
    <3> QED BY <1>2, <2>1, <3>1, StillLane DEF Lane, Outside
  <2>2. CASE u \in active
    <3>1. Settled(u)'
      BY <1>2, <1>3, <2>2, OnlySent DEF Quiet
    <3>2. ReconfMessage' = ReconfMessage
      BY <1>2 DEF ReconfMessage, NextConfig
    <3>3. ReconfLane(u)'
      BY <1>4, <2>2, <3>1, <3>2 DEF ReconfLane
    <3> QED BY <1>2, <2>2, <3>3 DEF Lane, CalmStages, JoinStages
  <2> QED BY <2>1, <2>2
<1>8. VersionsInOrder' /\ CommittedSnapshotIsComplete'
  BY <1>1, <1>2, StoreKept DEF SnapStages
<1>9. CompletedMeans' /\ NotBothEmpty' /\ ReturnsOnlyWhenDone'
  BY <1>1, <1>2, <1>4 DEF CompletedMeans, HasCompleted, NotBothEmpty, ReturnsOnlyWhenDone
<1>10. Agreement' /\ LoopShape' /\ PersistedState'
  BY <1>1, <1>2, <1>4 DEF Agreement, AgreedStages, CalmStages, LoopShape, JoinStages, ReconfStages,
                    PersistedState
<1>11. NobodyRemovedAtFirst'
  BY <1>1, <1>2 DEF NobodyRemovedAtFirst, NothingRemoved, FirstStart, JoinStages
<1> QED BY <1>5, <1>6, <1>7, <1>8, <1>9, <1>10, <1>11 DEF IInv

LEMMA PersistStep ==
  ASSUME IInv, SnapshotPersist
  PROVE  IInv'
<1>1. /\ Types /\ VersionsInOrder /\ LoopShape /\ ConditionsAreAwaited /\ FiredOnce
      /\ FiredIsTrue /\ Agreement /\ NobodyRemovedAtFirst /\ CompletedMeans /\ NotBothEmpty
      /\ PersistedState /\ CommittedSnapshotIsComplete /\ ReturnsOnlyWhenDone
      /\ \A u \in Workers : Lane(u)
  BY DEF IInv
<1>2. /\ pc = "persist" /\ pc' = "commit"
      /\ saved' = [saved EXCEPT ![NextSnapshot] =
                     [active |-> active, config |-> configVersion, run |-> incarnation]]
      /\ UNCHANGED <<step, request, target, joining, awaiting, active, configVersion, snapVersion,
                     phases, registered, fired, requests, submitted, defaultDue, toWorker,
                     fromWorker, control, job, knownSet, commits, written, incarnation>>
  BY DEF SnapshotPersist, stateVars, mapVars, chanVars, workerVars
<1>3. NextSnapshot \in Versions /\ \A i \in DOMAIN commits : commits[i] # NextSnapshot
  BY <1>1, <1>2, VersionsFit DEF SnapStages, Types, NextSnapshot
<1>4. /\ saved' \in [Versions -> StateType]
      /\ saved'[NextSnapshot] = [active |-> active, config |-> configVersion, run |-> incarnation]
      /\ \A i \in DOMAIN commits : saved'[commits[i]] = saved[commits[i]]
  <2>1. [active |-> active, config |-> configVersion, run |-> incarnation] \in StateType
    BY <1>1 DEF Types, StateType
  <2>2. \A i \in DOMAIN commits : commits[i] \in Versions
    BY <1>1, VersionsFit
  <2>3. saved \in [Versions -> StateType]
    BY <1>1 DEF Types
  <2> HIDE DEF NextSnapshot
  <2> QED BY <1>2, <1>3, <2>1, <2>2, <2>3
<1>5. Types'
  <2>1. pc' \in Stages
    BY <1>2 DEF Stages, CalmStages
  <2> QED BY <1>1, <1>2, <1>4, <2>1 DEF Types, ProperRequest
<1>6. ConditionsAreAwaited' /\ FiredOnce' /\ FiredIsTrue'
  BY <1>1, <1>2, OnlyTheEnd DEF FiredOnce, JoinStages, WaitPhase, Types
<1>7. \A u \in Workers : Lane(u)'
  BY <1>1, <1>2, CalmLanes DEF CalmStages, LaneOf
<1>8. VersionsInOrder'
  <2>1. Cardinality(Queued) \in Nat /\ Queued' = Queued
    BY <1>1, <1>2, QueueIsFinite DEF Queued
  <2> QED BY <1>1, <1>2, <2>1 DEF VersionsInOrder, Types, SnapStages
<1>9. CommittedSnapshotIsComplete'
  BY <1>1, <1>2, <1>4 DEF CommittedSnapshotIsComplete
<1>10. PersistedState'
  BY <1>2, <1>4 DEF PersistedState, NextSnapshot
<1>11. CompletedMeans' /\ NotBothEmpty' /\ ReturnsOnlyWhenDone'
  BY <1>1, <1>2, CalmCompletion DEF NotBothEmpty, ReconfStages, ReturnsOnlyWhenDone
<1>12. Agreement' /\ LoopShape'
  BY <1>1, <1>2 DEF Agreement, AgreedStages, CalmStages, LoopShape, JoinStages, ReconfStages
<1>13. NobodyRemovedAtFirst'
  BY <1>1, <1>2 DEF NobodyRemovedAtFirst, NothingRemoved, FirstStart, JoinStages
<1> QED BY <1>5, <1>6, <1>7, <1>8, <1>9, <1>10, <1>11, <1>12, <1>13 DEF IInv

LEMMA CommitStep ==
  ASSUME IInv, SnapshotCommit
  PROVE  IInv'
<1>1. /\ Types /\ VersionsInOrder /\ LoopShape /\ ConditionsAreAwaited /\ FiredOnce
      /\ FiredIsTrue /\ Agreement /\ NobodyRemovedAtFirst /\ CompletedMeans /\ NotBothEmpty
      /\ PersistedState /\ CommittedSnapshotIsComplete /\ ReturnsOnlyWhenDone
      /\ \A u \in Workers : Lane(u)
  BY DEF IInv
<1>2. /\ pc = "commit" /\ pc' = "reply" /\ commits' = Append(commits, NextSnapshot)
      /\ snapVersion' = NextSnapshot
      /\ UNCHANGED <<step, request, target, joining, awaiting, active, configVersion,
                     phases, registered, fired, requests, submitted, defaultDue, toWorker,
                     fromWorker, control, job, knownSet, written, saved, incarnation>>
  BY DEF SnapshotCommit, mapVars, chanVars, workerVars
<1>3. /\ commits \in Seq(Int) /\ Len(commits) \in Nat /\ NextSnapshot \in Int
      /\ DOMAIN commits = 1..Len(commits) /\ NextSnapshot = Len(commits)
  BY <1>1 DEF Types, NextSnapshot, VersionsInOrder
<1>4. /\ commits' \in Seq(Int) /\ Len(commits') = Len(commits) + 1
      /\ DOMAIN commits' = 1..(Len(commits) + 1)
      /\ \A i \in 1..Len(commits) : commits'[i] = commits[i]
      /\ commits'[Len(commits) + 1] = NextSnapshot
  BY <1>2, <1>3
<1>5. Types'
  <2>1. pc' \in Stages
    BY <1>2 DEF Stages, CalmStages
  <2> QED BY <1>1, <1>2, <1>3, <1>4, <2>1 DEF Types, ProperRequest
<1>6. ConditionsAreAwaited' /\ FiredOnce' /\ FiredIsTrue'
  BY <1>1, <1>2, OnlyTheEnd DEF FiredOnce, JoinStages, WaitPhase, Types
<1>7. \A u \in Workers : Lane(u)'
  BY <1>1, <1>2, CalmLanes DEF CalmStages, LaneOf
<1>8. VersionsInOrder'
  <2>1. Cardinality(Queued) \in Nat /\ Queued' = Queued
    BY <1>1, <1>2, QueueIsFinite DEF Queued
  <2>2. \A i \in DOMAIN commits' : commits'[i] = i - 1
    BY <1>1, <1>3, <1>4 DEF VersionsInOrder
  <2>3. snapVersion' = Len(commits') - 1
    BY <1>2, <1>3, <1>4
  <2>4. snapVersion' + 1 + Cardinality(Queued) <= submitted
    BY <1>1, <1>2, <1>3, <2>1 DEF VersionsInOrder, Types, SnapStages, NextSnapshot
  <2>5. snapVersion' \in Int
    BY <1>2, <1>3
  <2> QED BY <1>2, <2>1, <2>2, <2>3, <2>4, <2>5 DEF VersionsInOrder, SnapStages
<1>9. CommittedSnapshotIsComplete'
  <2>1. \A u \in active : written[u][NextSnapshot] = incarnation
    BY <1>1, <1>2 DEF Lane, Wrote, Types
  <2>2. saved[NextSnapshot].active = active /\ saved[NextSnapshot].run = incarnation
    BY <1>1, <1>2 DEF PersistedState
  <2>3. \A i \in DOMAIN commits' : commits'[i] = NextSnapshot \/ (i \in DOMAIN commits /\ commits'[i] = commits[i])
    BY <1>3, <1>4
  <2> HIDE DEF NextSnapshot
  <2> QED BY <1>1, <1>2, <2>1, <2>2, <2>3 DEF CommittedSnapshotIsComplete
<1>10. CompletedMeans' /\ NotBothEmpty' /\ ReturnsOnlyWhenDone' /\ PersistedState'
  BY <1>1, <1>2, CalmCompletion DEF NotBothEmpty, ReconfStages, ReturnsOnlyWhenDone, PersistedState
<1>11. Agreement' /\ LoopShape'
  BY <1>1, <1>2 DEF Agreement, AgreedStages, CalmStages, LoopShape, JoinStages, ReconfStages
<1>12. NobodyRemovedAtFirst'
  BY <1>1, <1>2 DEF NobodyRemovedAtFirst, NothingRemoved, FirstStart, JoinStages
<1> QED BY <1>5, <1>6, <1>7, <1>8, <1>9, <1>10, <1>11, <1>12 DEF IInv

LEMMA DrainStep ==
  ASSUME IInv, SuspendDrain
  PROVE  IInv'
<1>1. /\ Types /\ VersionsInOrder /\ LoopShape /\ ConditionsAreAwaited /\ FiredOnce
      /\ FiredIsTrue /\ Agreement /\ NobodyRemovedAtFirst /\ CompletedMeans /\ NotBothEmpty
      /\ PersistedState /\ CommittedSnapshotIsComplete /\ ReturnsOnlyWhenDone
      /\ \A u \in Workers : Lane(u)
  BY DEF IInv
<1>2. /\ pc = "drain" /\ pc' = "reply" /\ active' = {}
      /\ phases' = [u \in Workers |-> IF u \in active THEN Absent ELSE phases[u]]
      /\ registered' \cup fired' \subseteq registered \cup fired
      /\ registered' \cap fired' = {}
      /\ UNCHANGED <<step, request, target, joining, awaiting, configVersion, snapVersion,
                     requests, submitted, defaultDue, toWorker, fromWorker, control, job, knownSet,
                     commits, written, saved, incarnation>>
  BY <1>1 DEF SuspendDrain, Change, chanVars, workerVars, storeVars, FiredOnce
<1>3. Types'
  <2>1. pc' \in Stages
    BY <1>2 DEF Stages, CalmStages
  <2> QED BY <1>1, <1>2, <2>1 DEF Types, ProperRequest
<1>4. ConditionsAreAwaited' /\ FiredOnce' /\ FiredIsTrue'
  BY <1>1, <1>2, OnlyTheEnd DEF FiredOnce, JoinStages, WaitPhase, Types
<1>5. ASSUME NEW u \in Workers PROVE Lane(u)'
  <2>1. CASE u \notin active
    <3>1. Idle(u) /\ UNCHANGED LaneOf(u)
      BY <1>1, <1>2, <2>1 DEF Lane, Outside, LaneOf
    <3> QED BY <1>2, <3>1, StillLane DEF Lane, Outside
  <2>2. CASE u \in active
    <3>1. Suspended(u)
      BY <1>1, <1>2, <2>2 DEF Lane
    <3>2. Drained(u)'
      BY <1>2, <2>2, <3>1 DEF Suspended, Drained, At
    <3> QED BY <1>2, <3>2 DEF Lane, Outside
  <2> QED BY <2>1, <2>2
<1>6. VersionsInOrder' /\ CommittedSnapshotIsComplete'
  BY <1>1, <1>2, StoreKept DEF SnapStages
<1>7. CompletedMeans' /\ NotBothEmpty' /\ ReturnsOnlyWhenDone' /\ PersistedState' /\ Agreement'
  BY <1>2 DEF CompletedMeans, NotBothEmpty, ReturnsOnlyWhenDone, PersistedState, Agreement
<1>8. LoopShape' /\ NobodyRemovedAtFirst'
  BY <1>1, <1>2 DEF LoopShape, JoinStages, ReconfStages, NobodyRemovedAtFirst, FirstStart
<1> QED BY <1>3, <1>4, <1>5, <1>6, <1>7, <1>8 DEF IInv

LEMMA RemoveStep ==
  ASSUME IInv, ReconfigRemove
  PROVE  IInv'
<1> DEFINE End == Condition(AllWorkers, "Completed")
<1>1. /\ Types /\ VersionsInOrder /\ LoopShape /\ ConditionsAreAwaited /\ FiredOnce
      /\ FiredIsTrue /\ Agreement /\ NobodyRemovedAtFirst /\ CompletedMeans /\ NotBothEmpty
      /\ PersistedState /\ CommittedSnapshotIsComplete /\ ReturnsOnlyWhenDone
      /\ \A u \in Workers : Lane(u)
  BY DEF IInv
<1>2. /\ pc = "remove" /\ pc' = "reply" /\ active' = active \cap target
      /\ phases' = [u \in Workers |-> IF u \in active \ target THEN Absent ELSE phases[u]]
      /\ registered' \cup fired' \subseteq registered \cup fired
      /\ registered' \cap fired' = {} /\ configVersion' = NextConfig
      /\ \A c \in fired' : c \in fired \/ Holds(c, phases')
      /\ UNCHANGED <<step, request, target, joining, awaiting, snapVersion,
                     requests, submitted, defaultDue, toWorker, fromWorker, control, job, knownSet,
                     commits, written, saved, incarnation>>
  BY <1>1 DEF ReconfigRemove, Change, chanVars, workerVars, storeVars, FiredOnce
<1>3. active' = target /\ target \subseteq active
  BY <1>1, <1>2 DEF LoopShape, ReconfStages
<1>4. Types'
  <2>1. pc' \in Stages /\ configVersion' \in Int
    BY <1>1, <1>2 DEF Stages, CalmStages, NextConfig, Types
  <2> QED BY <1>1, <1>2, <1>3, <2>1 DEF Types, ProperRequest
<1>5. ConditionsAreAwaited' /\ FiredOnce' /\ FiredIsTrue'
  BY <1>1, <1>2, <1>3, OnlyTheEnd DEF FiredOnce, JoinStages, WaitPhase, Types
<1>6. ASSUME NEW u \in Workers PROVE Lane(u)' /\ (u \in target => Quiet(u)')
  <2>1. CASE u \notin active
    <3>1. Idle(u) /\ UNCHANGED LaneOf(u)
      BY <1>1, <1>2, <2>1 DEF Lane, Outside, LaneOf
    <3> QED BY <1>2, <1>3, <2>1, <3>1, StillLane DEF Lane, Outside
  <2>2. CASE u \in active /\ u \notin target
    <3>1. ReconfOver(u)
      BY <1>1, <1>2, <2>2 DEF Lane
    <3>2. toWorker[u] = <<>> /\ (Left(u, "Running", <<"Removed">>) \/ Left(u, Absent, <<>>))
      BY <2>2, <3>1 DEF ReconfOver
    <3>3. control[u] \in {"waitBuild", "removed"} /\ fromWorker[u] \in {<<>>, <<"Removed">>}
      BY <3>2 DEF Left
    <3>4. Idle(u)'
      BY <1>2, <2>2, <3>2, <3>3 DEF Idle, Vacant
    <3> QED BY <1>3, <2>2, <3>4 DEF Lane, Outside
  <2>3. CASE u \in active /\ u \in target
    <3>1. ReconfOver(u) /\ UNCHANGED LaneOf(u)
      BY <1>1, <1>2, <2>3 DEF Lane, LaneOf
    <3>2. Quiet(u)
      BY <2>3, <3>1 DEF ReconfOver, Quiet
    <3>3. Quiet(u)'
      BY <3>1, <3>2, StillLane
    <3> QED BY <1>2, <1>3, <2>3, <3>3 DEF Lane, JoinStages
  <2> QED BY <2>1, <2>2, <2>3
<1>7. VersionsInOrder' /\ CommittedSnapshotIsComplete'
  BY <1>1, <1>2, StoreKept DEF SnapStages
<1>8. CompletedMeans'
  <2>1. CASE End \in fired
    BY <1>1, <1>2, <1>3, <2>1 DEF CompletedMeans, HasCompleted
  <2>2. CASE End \in fired' /\ End \notin fired
    <3>1. \A u \in Workers : phases'[u] \in {Absent, "Completed"}
      BY <1>2, <2>2, ConditionFacts
    <3>2. \A u \in target : control'[u] = "completed"
      BY <1>1, <1>6, <3>1, PhasesTell DEF PhaseTells, Types
    <3> QED BY <1>3, <3>2 DEF CompletedMeans, HasCompleted
  <2> QED BY <2>1, <2>2 DEF CompletedMeans
<1>9. NotBothEmpty' /\ ReturnsOnlyWhenDone' /\ PersistedState'
  BY <1>2 DEF NotBothEmpty, ReturnsOnlyWhenDone, PersistedState
<1>10. Agreement'
  <2>1. \A u \in target : toWorker[u] = <<>>
    BY <1>1, <1>2, <1>3 DEF Lane, ReconfOver, Types
  <2> QED BY <1>1, <1>2, <1>3, <2>1 DEF Agreement
<1>11. LoopShape' /\ NobodyRemovedAtFirst'
  BY <1>1, <1>2 DEF LoopShape, JoinStages, ReconfStages, NobodyRemovedAtFirst, FirstStart
<1> QED BY <1>4, <1>5, <1>6, <1>7, <1>8, <1>9, <1>10, <1>11 DEF IInv

LEMMA SetupStep ==
  ASSUME IInv, ReconfigSetup
  PROVE  IInv'
<1> DEFINE End == Condition(AllWorkers, "Completed")
<1>1. /\ Types /\ VersionsInOrder /\ LoopShape /\ ConditionsAreAwaited /\ FiredOnce
      /\ FiredIsTrue /\ Agreement /\ NobodyRemovedAtFirst /\ CompletedMeans /\ NotBothEmpty
      /\ PersistedState /\ CommittedSnapshotIsComplete /\ ReturnsOnlyWhenDone
      /\ \A u \in Workers : Lane(u)
  BY DEF IInv
<1>2. /\ pc = "setup" /\ pc' = "buildNew" /\ active' = active \cup NewWorkers /\ joining' = NewWorkers
      /\ phases' = [u \in Workers |-> IF u \in NewWorkers THEN "Unknown" ELSE phases[u]]
      /\ awaiting' = [u \in Workers |-> IF u \in NewWorkers THEN "send" ELSE "idle"]
      /\ registered' \cup fired' \subseteq registered \cup fired
      /\ registered' \cap fired' = {}
      /\ \A c \in fired' : c \in fired \/ Holds(c, phases')
      /\ UNCHANGED <<step, request, target, configVersion, snapVersion,
                     requests, submitted, defaultDue, toWorker, fromWorker, control, job, knownSet,
                     commits, written, saved, incarnation>>
  BY <1>1 DEF ReconfigSetup, Change, chanVars, workerVars, storeVars, FiredOnce
<1>3. /\ NewWorkers = target \ active /\ NewWorkers \subseteq Workers /\ active \subseteq Workers
      /\ target # {} /\ target \subseteq active' /\ active' \subseteq Workers
  BY <1>1, <1>2 DEF NewWorkers, LoopShape, Types
<1>4. Types'
  <2>1. pc' \in Stages
    BY <1>2 DEF Stages, ReconfStages
  <2> QED BY <1>1, <1>2, <1>3, <2>1 DEF Types, ProperRequest
<1>5. ConditionsAreAwaited' /\ FiredOnce' /\ FiredIsTrue'
  BY <1>1, <1>2, <1>3, OnlyTheEnd DEF FiredOnce, JoinStages, WaitPhase
<1>6. \A u \in active : Quiet(u)
  BY <1>1, <1>2, <1>3 DEF Lane, CalmStages
<1>7. ASSUME NEW u \in Workers PROVE Lane(u)'
  <2>1. CASE u \notin active'
    <3>1. Idle(u) /\ UNCHANGED LaneOf(u)
      BY <1>1, <1>2, <2>1 DEF Lane, Outside, LaneOf
    <3> QED BY <2>1, <3>1, StillLane DEF Lane, Outside
  <2>2. CASE u \in active
    <3>1. Quiet(u) /\ UNCHANGED LaneOf(u)
      BY <1>2, <1>3, <1>6, <2>2 DEF LaneOf
    <3>2. Quiet(u)' /\ u \notin joining'
      BY <1>2, <1>3, <2>2, <3>1, StillLane
    <3> QED BY <1>2, <2>2, <3>2 DEF Lane
  <2>3. CASE u \in NewWorkers
    <3>1. Idle(u)
      BY <1>1, <1>2, <1>3, <2>3 DEF Lane, Outside
    <3>2. BuildReady(u)'
      BY <1>2, <2>3, <3>1 DEF Idle, BuildReady, Vacant
    <3>3. awaiting'[u] = "send" /\ Building' /\ u \in active' /\ u \in joining'
      BY <1>2, <2>3 DEF Building
    <3>4. JoinLane(u)'
      BY <3>2, <3>3 DEF JoinLane
    <3> QED BY <1>2, <3>3, <3>4 DEF Lane, CalmStages
  <2> QED BY <1>2, <2>1, <2>2, <2>3
<1>8. VersionsInOrder' /\ CommittedSnapshotIsComplete'
  BY <1>1, <1>2, StoreKept DEF SnapStages
<1>9. CompletedMeans'
  <2>1. CASE End \in fired
    <3>1. \A u \in active : control[u] = "completed"
      BY <1>1, <1>2, <2>1 DEF CompletedMeans, HasCompleted
    <3>2. PICK o \in active : TRUE
      BY <1>1, <1>2, <2>1 DEF NotBothEmpty
    <3>3. o \in active' \ joining' /\ control'[o] = "completed"
      BY <1>2, <1>3, <3>1
    <3> QED BY <1>2, <3>3 DEF CompletedMeans
  <2>2. CASE End \in fired' /\ End \notin fired
    <3>1. \A u \in Workers : phases'[u] \in {Absent, "Completed"}
      BY <1>2, <2>2, ConditionFacts
    <3>2. NewWorkers = {}
      BY <1>2, <1>3, <3>1 DEF Absent
    <3>3. ASSUME NEW u \in active PROVE control[u] = "completed"
      <4>1. phases[u] \in {Absent, "Completed"} /\ Quiet(u) /\ PhaseTells(u)
        BY <1>2, <1>3, <1>6, <3>1, <3>2, PhasesTell
      <4> QED BY <4>1 DEF PhaseTells
    <3> QED BY <1>2, <3>2, <3>3 DEF CompletedMeans, HasCompleted
  <2> QED BY <2>1, <2>2 DEF CompletedMeans
<1>10. NotBothEmpty' /\ ReturnsOnlyWhenDone' /\ PersistedState'
  BY <1>2, <1>3 DEF NotBothEmpty, ReturnsOnlyWhenDone, PersistedState
<1>11. Agreement' /\ LoopShape'
  BY <1>1, <1>2, <1>3 DEF Agreement, AgreedStages, CalmStages, LoopShape, JoinStages, ReconfStages
<1>12. NobodyRemovedAtFirst'
  <2> SUFFICES ASSUME FirstStart', NEW u \in Workers PROVE NothingRemoved(u)'
    BY DEF NobodyRemovedAtFirst
  <2>1. active = {}
    BY <1>2, <1>3 DEF FirstStart
  <2>2. FirstStart
    BY <1>2, <2>1 DEF FirstStart
  <2>3. fromWorker[u] \notin {<<"Removed">>, <<"Removed", "BuildComplete">>}
    BY <1>1, <2>2 DEF NobodyRemovedAtFirst, NothingRemoved
  <2>4. u \in active' => phases'[u] # Absent
    BY <1>2, <2>1 DEF Absent
  <2> QED BY <1>2, <2>3, <2>4 DEF NothingRemoved
<1> QED BY <1>4, <1>5, <1>7, <1>8, <1>9, <1>10, <1>11, <1>12 DEF IInv

\* A worker that is being started, and the others, while the coordinator works
\* on the start of one.
JoinFrame(w) ==
  /\ UNCHANGED <<pc, step, request, target, joining, active, configVersion, snapVersion, phases,
                 requests, submitted, defaultDue, fromWorker, control, job, knownSet, commits,
                 written, saved, incarnation>>
  /\ \A u \in Workers \ {w} : awaiting'[u] = awaiting[u] /\ UNCHANGED LaneOf(u)

LEMMA JoinFrameKeeps ==
  ASSUME IInv, NEW w \in Workers, pc \in JoinStages, awaiting[w] # "idle", JoinFrame(w),
         Condition(AllWorkers, "Completed") \in fired' => Condition(AllWorkers, "Completed") \in fired
  PROVE  /\ VersionsInOrder' /\ LoopShape' /\ Agreement' /\ NobodyRemovedAtFirst' /\ CompletedMeans'
         /\ NotBothEmpty' /\ PersistedState' /\ CommittedSnapshotIsComplete' /\ ReturnsOnlyWhenDone'
         /\ w \in joining /\ w \in active /\ JoinLane(w)
         /\ \A u \in Workers \ {w} : Lane(u)'
         /\ JoinLane(w)' => Lane(w)'
<1>1. /\ Types /\ VersionsInOrder /\ LoopShape /\ Agreement /\ NobodyRemovedAtFirst
      /\ CompletedMeans /\ NotBothEmpty /\ CommittedSnapshotIsComplete
      /\ \A u \in Workers : Lane(u)
  BY DEF IInv
<1>2. UNCHANGED <<pc, step, request, target, joining, active, configVersion, snapVersion, phases,
                  requests, submitted, defaultDue, fromWorker, control, job, knownSet, commits,
                  written, saved, incarnation>>
  BY DEF JoinFrame
<1>3. w \in joining /\ w \in active /\ JoinLane(w)
  BY <1>1 DEF LoopShape, Lane
<1>4. VersionsInOrder' /\ CommittedSnapshotIsComplete'
  BY <1>1, <1>2, StoreKept
<1>5. LoopShape'
  BY <1>1, <1>2, <1>3 DEF LoopShape, JoinFrame
<1>6. Agreement' /\ PersistedState' /\ ReturnsOnlyWhenDone'
  BY <1>1, <1>2 DEF Agreement, AgreedStages, CalmStages, JoinStages, PersistedState,
                    ReturnsOnlyWhenDone
<1>7. NobodyRemovedAtFirst' /\ NotBothEmpty'
  BY <1>1, <1>2 DEF NobodyRemovedAtFirst, NothingRemoved, FirstStart, NotBothEmpty
<1>8. CompletedMeans'
  BY <1>1, <1>2 DEF CompletedMeans, HasCompleted, JoinStages
<1>9. ASSUME NEW u \in Workers \ {w} PROVE Lane(u)'
  <2>1. StartMessage' = StartMessage /\ Building' = Building /\ awaiting'[u] = awaiting[u]
        /\ UNCHANGED LaneOf(u) /\ Lane(u)
    BY <1>1, <1>2 DEF StartMessage, Building, JoinFrame
  <2>2. CASE u \notin active
    BY <1>2, <2>1, <2>2, StillLane DEF Lane, Outside
  <2>3. CASE u \in active /\ u \notin joining
    <3>1. Quiet(u)'
      BY <2>1, <2>3, StillLane DEF Lane
    <3> QED BY <1>2, <2>3, <3>1 DEF Lane, JoinStages
  <2>4. CASE u \in active /\ u \in joining
    <3>1. JoinLane(u)
      BY <2>1, <2>4 DEF Lane
    <3>2. JoinLane(u)'
      BY <2>1, <3>1, StillLane DEF JoinLane
    <3> QED BY <1>2, <2>4, <3>2 DEF Lane, JoinStages, CalmStages
  <2> QED BY <2>2, <2>3, <2>4
<1>10. JoinLane(w)' => Lane(w)'
  BY <1>2, <1>3 DEF Lane, JoinStages, CalmStages
<1> QED BY <1>3, <1>4, <1>5, <1>6, <1>7, <1>8, <1>9, <1>10

\* What the conditions of the starting workers tell while nothing moves but one.
LEMMA JoinFired ==
  ASSUME Types, FiredIsTrue, NEW w \in Workers, pc \in JoinStages, JoinFrame(w), fired' \subseteq fired,
         Awaited(w) \notin fired'
  PROVE  FiredIsTrue'
<1>1. /\ pc' = pc /\ active' = active /\ joining' = joining /\ (Building' <=> Building)
      /\ active \subseteq Workers /\ \A u : Awaited(u)' = Awaited(u)
  BY DEF JoinFrame, Building, Awaited, Types
<1>2. ASSUME NEW u \in active, u # w PROVE (Built(u) => Built(u)') /\ (Quiet(u) => Quiet(u)')
  BY <1>1, <1>2, StillLane DEF JoinFrame
<1> QED BY <1>1, <1>2 DEF FiredIsTrue, JoinStages

LEMMA AwaitSendStep ==
  ASSUME IInv, NEW w \in Workers, AwaitSend(w)
  PROVE  IInv'
<1>1. Types /\ ConditionsAreAwaited /\ FiredOnce /\ FiredIsTrue /\ pc \in JoinStages
  BY DEF IInv, AwaitSend
<1>2. /\ awaiting[w] = "send" /\ awaiting' = [awaiting EXCEPT ![w] = "register"]
      /\ toWorker' = Send({w}, StartMessage)
      /\ UNCHANGED <<pc, step, request, target, joining, active, configVersion, snapVersion, phases,
                     registered, fired, requests, submitted, defaultDue, fromWorker, control, job,
                     knownSet, commits, written, saved, incarnation>>
  BY DEF AwaitSend, stateVars, mapVars, workerVars, storeVars
<1>3. /\ toWorker'[w] = Append(toWorker[w], StartMessage) /\ DOMAIN toWorker' = Workers
      /\ \A u \in Workers \ {w} : toWorker'[u] = toWorker[u] /\ awaiting'[u] = awaiting[u]
      /\ awaiting'[w] = "register"
      /\ awaiting' \in [Workers -> {"idle", "send", "register", "wait"}]
  BY <1>1, <1>2 DEF Send, Types
<1>4. JoinFrame(w)
  BY <1>2, <1>3 DEF JoinFrame, LaneOf
<1>5. /\ VersionsInOrder' /\ LoopShape' /\ Agreement' /\ NobodyRemovedAtFirst' /\ CompletedMeans'
      /\ NotBothEmpty' /\ PersistedState' /\ CommittedSnapshotIsComplete' /\ ReturnsOnlyWhenDone'
      /\ JoinLane(w)
      /\ \A u \in Workers \ {w} : Lane(u)'
      /\ JoinLane(w)' => Lane(w)'
  BY <1>1, <1>2, <1>4, JoinFrameKeeps
<1>6. JoinLane(w)'
  <2>1. StartMessage' = StartMessage /\ (Building' <=> Building) /\ Append(<<>>, StartMessage) = <<StartMessage>>
    BY <1>2, Appends DEF StartMessage, Building
  <2>2. CASE Building
    <3>1. BuildReady(w)
      BY <1>2, <1>5, <2>2 DEF JoinLane
    <3>2. toWorker'[w] = <<StartMessage>>
      BY <1>3, <2>1, <3>1 DEF BuildReady
    <3>3. BuildSent(w)'
      BY <1>2, <2>1, <3>1, <3>2 DEF BuildSent, BuildReady, Vacant
    <3> QED BY <1>3, <2>1, <2>2, <3>3 DEF JoinLane
  <2>3. CASE ~Building
    <3>1. Built(w)
      BY <1>2, <1>5, <2>3 DEF JoinLane
    <3>2. toWorker'[w] = <<StartMessage>>
      BY <1>3, <2>1, <3>1 DEF Built
    <3>3. StartSent(w)'
      BY <1>2, <2>1, <3>1, <3>2 DEF StartSent, Built, At
    <3> QED BY <1>3, <2>1, <2>3, <3>3 DEF JoinLane
  <2> QED BY <2>2, <2>3
<1>7. Types'
  BY <1>1, <1>2, <1>3 DEF Types, ProperRequest
<1>8. ConditionsAreAwaited' /\ FiredOnce'
  <2>1. \A c \in registered \cup fired : c.worker \in Workers => c.worker # w
    BY <1>1, <1>2 DEF ConditionsAreAwaited, JoinStages, WaitPhase, AllWorkers, Workers
  <2> QED BY <1>1, <1>2, <1>3, <2>1 DEF ConditionsAreAwaited, FiredOnce, Awaited, Building
<1>9. FiredIsTrue'
  <2>1. Awaited(w) \notin fired
    BY <1>1, <1>2, AwaitedOne DEF Awaited
  <2> QED BY <1>1, <1>2, <1>4, <2>1, JoinFired
<1> QED BY <1>5, <1>6, <1>7, <1>8, <1>9 DEF IInv

LEMMA AwaitRegisterStep ==
  ASSUME IInv, NEW w \in Workers, AwaitRegister(w)
  PROVE  IInv'
<1>1. Types /\ ConditionsAreAwaited /\ FiredOnce /\ FiredIsTrue /\ pc \in JoinStages
  BY DEF IInv, AwaitRegister
<1>2. /\ awaiting[w] = "register" /\ awaiting' = [awaiting EXCEPT ![w] = "wait"]
      /\ registered' = registered \cup {Awaited(w)}
      /\ UNCHANGED <<pc, step, request, target, joining, active, configVersion, snapVersion, phases,
                     fired, requests, submitted, defaultDue, toWorker, fromWorker, control, job,
                     knownSet, commits, written, saved, incarnation>>
  BY DEF AwaitRegister, Notify, stateVars, chanVars, workerVars, storeVars
<1>3. /\ \A u \in Workers \ {w} : awaiting'[u] = awaiting[u]
      /\ awaiting'[w] = "wait"
      /\ awaiting' \in [Workers -> {"idle", "send", "register", "wait"}]
  BY <1>1, <1>2 DEF Types
<1>4. JoinFrame(w)
  BY <1>2, <1>3 DEF JoinFrame, LaneOf
<1>5. /\ VersionsInOrder' /\ LoopShape' /\ Agreement' /\ NobodyRemovedAtFirst' /\ CompletedMeans'
      /\ NotBothEmpty' /\ PersistedState' /\ CommittedSnapshotIsComplete' /\ ReturnsOnlyWhenDone'
      /\ JoinLane(w)
      /\ \A u \in Workers \ {w} : Lane(u)'
      /\ JoinLane(w)' => Lane(w)'
  BY <1>1, <1>2, <1>4, JoinFrameKeeps
<1>6. JoinLane(w)'
  <2>1. /\ StartMessage' = StartMessage /\ (Building' <=> Building) /\ UNCHANGED LaneOf(w)
    BY <1>2 DEF StartMessage, Building, LaneOf
  <2> QED BY <1>2, <1>3, <1>5, <2>1, StillLane DEF JoinLane
<1>7. Awaited(w) \notin fired
  BY <1>1, <1>2, AwaitedOne DEF Awaited
<1>8. Types'
  <2>1. Awaited(w) \in ConditionType
    BY ConditionTyped DEF Awaited, AwaitedPhases
  <2> QED BY <1>1, <1>2, <1>3, <2>1 DEF Types, ProperRequest
<1>9. FiredOnce'
  BY <1>1, <1>2, <1>7 DEF FiredOnce
<1>10. ConditionsAreAwaited'
  <2>1. ASSUME NEW c \in registered \cup fired
        PROVE  \/ /\ c.worker = AllWorkers /\ c.phase = "Completed"
                  /\ pc \notin {"buildAll", "startAll", "arm"}
               \/ c.worker \in Workers \ {w} /\ c = Awaited(c.worker) /\ awaiting[c.worker] = "wait"
    BY <1>1, <1>2 DEF ConditionsAreAwaited, JoinStages, WaitPhase
  <2>2. Awaited(w).worker = w
    BY ConditionFacts DEF Awaited
  <2>3. (\A u : Awaited(u)' = Awaited(u)) /\ pc' = pc /\ fired' = fired
    BY <1>2 DEF Awaited, Building
  <2>4. ASSUME NEW c \in registered' \cup fired'
        PROVE  \/ /\ c.worker = AllWorkers /\ c.phase = "Completed"
                  /\ pc' \notin {"buildAll", "startAll", "arm"}
               \/ c.worker \in Workers /\ pc' \in JoinStages /\ c = Awaited(c.worker)'
                  /\ awaiting'[c.worker] = "wait"
    <3>1. CASE c = Awaited(w)
      BY <1>1, <1>3, <2>2, <2>3, <3>1
    <3>2. CASE c \in registered \cup fired
      BY <1>1, <1>3, <2>1, <2>3, <3>2
    <3> QED BY <1>2, <2>3, <3>1, <3>2
  <2> QED BY <2>4 DEF ConditionsAreAwaited
<1>11. FiredIsTrue'
  BY <1>1, <1>2, <1>4, <1>7, JoinFired
<1> QED BY <1>5, <1>6, <1>8, <1>9, <1>10, <1>11 DEF IInv

LEMMA AwaitFiredStep ==
  ASSUME IInv, NEW w \in Workers, AwaitFired(w)
  PROVE  IInv'
<1>1. Types /\ ConditionsAreAwaited /\ FiredOnce /\ FiredIsTrue /\ pc \in JoinStages
  BY DEF IInv, AwaitFired
<1>2. /\ awaiting[w] = "wait" /\ awaiting' = [awaiting EXCEPT ![w] = "idle"]
      /\ Awaited(w) \in fired /\ fired' = fired \ {Awaited(w)}
      /\ UNCHANGED <<pc, step, request, target, joining, active, configVersion, snapVersion, phases,
                     registered, requests, submitted, defaultDue, toWorker, fromWorker, control,
                     job, knownSet, commits, written, saved, incarnation>>
  BY DEF AwaitFired, Notified, stateVars, chanVars, workerVars, storeVars
<1>3. /\ \A u \in Workers \ {w} : awaiting'[u] = awaiting[u]
      /\ awaiting'[w] = "idle"
      /\ awaiting' \in [Workers -> {"idle", "send", "register", "wait"}]
  BY <1>1, <1>2 DEF Types
<1>4. JoinFrame(w)
  BY <1>2, <1>3 DEF JoinFrame, LaneOf
<1>5. /\ VersionsInOrder' /\ LoopShape' /\ Agreement' /\ NobodyRemovedAtFirst' /\ CompletedMeans'
      /\ NotBothEmpty' /\ PersistedState' /\ CommittedSnapshotIsComplete' /\ ReturnsOnlyWhenDone'
      /\ w \in joining /\ w \in active
      /\ \A u \in Workers \ {w} : Lane(u)'
      /\ JoinLane(w)' => Lane(w)'
  BY <1>1, <1>2, <1>4, JoinFrameKeeps
<1>6. JoinLane(w)'
  <2>1. (Building' <=> Building) /\ UNCHANGED LaneOf(w)
    BY <1>2 DEF Building, LaneOf
  <2>2. IF Building THEN Built(w) ELSE Quiet(w)
    BY <1>1, <1>2, <1>5 DEF FiredIsTrue
  <2> QED BY <1>3, <2>1, <2>2, StillLane DEF JoinLane
<1>7. Types'
  BY <1>1, <1>2, <1>3 DEF Types, ProperRequest
<1>8. FiredOnce' /\ FiredIsTrue'
  BY <1>1, <1>2, <1>4, JoinFired DEF FiredOnce
<1>9. ConditionsAreAwaited'
  <2>1. (\A u : Awaited(u)' = Awaited(u)) /\ pc' = pc
    BY <1>2 DEF Awaited, Building
  <2>2. ASSUME NEW c \in registered' \cup fired'
        PROVE  c \in registered \cup fired /\ c # Awaited(w)
    BY <1>1, <1>2 DEF FiredOnce
  <2>3. ASSUME NEW c \in registered' \cup fired'
        PROVE  \/ /\ c.worker = AllWorkers /\ c.phase = "Completed"
                  /\ pc' \notin {"buildAll", "startAll", "arm"}
               \/ c.worker \in Workers /\ pc' \in JoinStages /\ c = Awaited(c.worker)'
                  /\ awaiting'[c.worker] = "wait"
    BY <1>1, <1>3, <2>1, <2>2 DEF ConditionsAreAwaited, JoinStages, WaitPhase
  <2> QED BY <2>3 DEF ConditionsAreAwaited
<1> QED BY <1>5, <1>6, <1>7, <1>8, <1>9 DEF IInv

LEMMA JoinDoneStep ==
  ASSUME IInv, JoinDone
  PROVE  IInv'
<1>1. /\ Types /\ VersionsInOrder /\ LoopShape /\ ConditionsAreAwaited /\ FiredOnce
      /\ FiredIsTrue /\ Agreement /\ NobodyRemovedAtFirst /\ CompletedMeans /\ NotBothEmpty
      /\ PersistedState /\ CommittedSnapshotIsComplete /\ ReturnsOnlyWhenDone
      /\ \A u \in Workers : Lane(u)
  BY DEF IInv
<1>2. /\ pc \in JoinStages /\ \A u \in Workers : awaiting[u] = "idle"
      /\ awaiting' = [u \in Workers |-> IF Building /\ u \in joining THEN "send" ELSE "idle"]
      /\ UNCHANGED <<step, request, target, joining, active, configVersion, snapVersion, phases,
                     registered, fired, requests, submitted, defaultDue, toWorker, fromWorker,
                     control, job, knownSet, commits, written, saved, incarnation>>
  BY DEF JoinDone, stateVars, mapVars, chanVars, workerVars, storeVars
<1>3. \/ pc = "buildAll" /\ pc' = "startAll" /\ Building
      \/ pc = "startAll" /\ pc' = "arm" /\ ~Building
      \/ pc = "buildNew" /\ pc' = "startNew" /\ Building
      \/ pc = "startNew" /\ pc' = "reconfSend" /\ ~Building
  BY DEF JoinDone, JoinStages, Building
<1>4. joining \subseteq active /\ active \subseteq Workers
  BY <1>1, <1>2 DEF LoopShape, Types
<1>5. Types'
  <2>1. pc' \in Stages
    BY <1>3 DEF Stages, JoinStages, CalmStages
  <2>2. awaiting' \in [Workers -> {"idle", "send", "register", "wait"}]
    BY <1>2
  <2> QED BY <1>1, <1>2, <2>1, <2>2 DEF Types, ProperRequest
<1>6. \A c \in registered \cup fired :
        c.worker = AllWorkers /\ c.phase = "Completed" /\ pc \in {"buildNew", "startNew"}
  BY <1>1, <1>2 DEF ConditionsAreAwaited, JoinStages, WaitPhase
<1>7. ConditionsAreAwaited' /\ FiredOnce'
  BY <1>1, <1>2, <1>3, <1>6 DEF ConditionsAreAwaited, FiredOnce
<1>8. FiredIsTrue'
  <2>1. \A p : p # "Completed" => ~FiredAll(p)'
    BY <1>2, <1>6, ConditionFacts DEF FiredAll
  <2>2. \A u \in active : Awaited(u)' \notin fired'
    BY <1>2, <1>4, <1>6, ConditionFacts DEF Awaited
  <2> QED BY <1>2, <2>1, <2>2 DEF FiredIsTrue
<1>9. ASSUME NEW u \in Workers PROVE Lane(u)'
  <2>1. UNCHANGED LaneOf(u) /\ Lane(u)
    BY <1>1, <1>2 DEF LaneOf
  <2>2. CASE u \notin active
    BY <1>2, <1>3, <2>1, <2>2, StillLane DEF Lane, Outside
  <2>3. CASE u \in active /\ u \notin joining
    <3>1. Quiet(u)' /\ pc' \notin {"persist", "commit"}
      BY <1>2, <1>3, <2>1, <2>3, StillLane DEF Lane
    <3> QED BY <1>2, <1>3, <2>3, <3>1 DEF Lane
  <2>4. CASE u \in joining /\ Building
    <3>1. Built(u)
      BY <1>2, <1>4, <2>1, <2>4 DEF Lane, JoinLane
    <3>2. Built(u)' /\ awaiting'[u] = "send" /\ ~Building'
      BY <1>2, <1>3, <2>1, <2>4, <3>1, StillLane DEF Building
    <3>3. JoinLane(u)'
      BY <3>2 DEF JoinLane
    <3> QED BY <1>2, <1>3, <1>4, <2>4, <3>3 DEF Lane, CalmStages
  <2>5. CASE u \in joining /\ ~Building
    <3>1. Quiet(u)
      BY <1>2, <1>4, <2>1, <2>5 DEF Lane, JoinLane
    <3>2. Quiet(u)'
      BY <2>1, <3>1, StillLane
    <3> QED BY <1>2, <1>3, <1>4, <2>5, <3>2 DEF Lane, JoinStages
  <2> QED BY <1>4, <2>2, <2>3, <2>4, <2>5
<1>10. VersionsInOrder' /\ CommittedSnapshotIsComplete'
  BY <1>1, <1>2, <1>3, StoreKept DEF SnapStages
<1>11. Agreement'
  <2>1. CASE pc = "startAll"
    <3>1. ASSUME NEW u \in active PROVE control[u] \notin {"waitBuild", "removed"}
      <4>1. Quiet(u)
        BY <1>1, <1>2, <1>3, <1>4, <2>1 DEF Lane, JoinLane, LoopShape
      <4> QED BY <4>1 DEF Quiet, Settled, At
    <3> QED BY <1>1, <1>2, <1>3, <2>1, <3>1 DEF Agreement
  <2>2. CASE pc # "startAll"
    BY <1>1, <1>2, <1>3, <2>2 DEF Agreement, AgreedStages, CalmStages
  <2> QED BY <2>1, <2>2
<1>12. NobodyRemovedAtFirst' /\ NotBothEmpty' /\ CompletedMeans'
  <2>1. FirstStart' => FirstStart
    BY <1>2, <1>3 DEF FirstStart, JoinStages
  <2>2. NobodyRemovedAtFirst'
    BY <1>1, <1>2, <2>1 DEF NobodyRemovedAtFirst, NothingRemoved
  <2>3. NotBothEmpty'
    BY <1>1, <1>2, <1>3 DEF NotBothEmpty
  <2>4. CompletedMeans'
    BY <1>1, <1>2, <1>3, <1>6 DEF CompletedMeans, HasCompleted
  <2> QED BY <2>2, <2>3, <2>4
<1>13. PersistedState' /\ ReturnsOnlyWhenDone'
  BY <1>3 DEF PersistedState, ReturnsOnlyWhenDone
<1>14. LoopShape'
  BY <1>1, <1>2, <1>3 DEF LoopShape, JoinStages, ReconfStages
<1> QED BY <1>5, <1>7, <1>8, <1>9, <1>10, <1>11, <1>12, <1>13, <1>14 DEF IInv

LEMMA WaitPhaseFacts ==
  /\ DOMAIN WaitPhase = {"snapStarted", "snapDone", "reconfStarted", "reconfDone", "suspended"}
  /\ WaitPhase["snapStarted"] = "Snapshotting" /\ WaitPhase["snapDone"] = "Running"
  /\ WaitPhase["reconfStarted"] = "Reconfiguring" /\ WaitPhase["reconfDone"] = "Running"
  /\ WaitPhase["suspended"] = "Suspended"
  /\ After["snapStarted"] = "snapDone" /\ After["snapDone"] = "persist"
  /\ After["reconfStarted"] = "reconfDone" /\ After["reconfDone"] = "remove"
  /\ After["suspended"] = "drain"
  BY DEF WaitPhase, After

LEMMA RegisterAllStep ==
  ASSUME IInv, RegisterAll
  PROVE  IInv'
<1> DEFINE c0 == Condition(AllWorkers, WaitPhase[pc])
<1>1. /\ Types /\ VersionsInOrder /\ LoopShape /\ ConditionsAreAwaited /\ FiredOnce
      /\ FiredIsTrue /\ Agreement /\ NobodyRemovedAtFirst /\ CompletedMeans /\ NotBothEmpty
      /\ PersistedState /\ CommittedSnapshotIsComplete /\ ReturnsOnlyWhenDone
      /\ \A u \in Workers : Lane(u)
  BY DEF IInv
<1>2. /\ pc \in DOMAIN WaitPhase /\ step = "register" /\ step' = "wait" /\ fired' = fired
      /\ registered' = registered \cup {c0}
      /\ UNCHANGED <<pc, request, target, joining, awaiting, active, configVersion, snapVersion,
                     phases, requests, submitted, defaultDue, toWorker, fromWorker, control, job,
                     knownSet, commits, written, saved, incarnation>>
  BY DEF RegisterAll, Notify, stateVars, chanVars, workerVars, storeVars
<1>3. c0.worker = AllWorkers /\ c0.phase = WaitPhase[pc] /\ WaitPhase[pc] # "Completed" /\ c0 \in ConditionType
  BY <1>2, ConditionFacts, ConditionTyped, WaitPhaseFacts DEF AwaitedPhases
<1>4. c0 \notin fired
  BY <1>1, <1>2, <1>3, AwaitedAll
<1>5. Types'
  <2> HIDE DEF c0
  <2> QED BY <1>1, <1>2, <1>3 DEF Types, ProperRequest
<1>6. ConditionsAreAwaited' /\ FiredOnce'
  <2> HIDE DEF c0
  <2>1. ConditionsAreAwaited'
    BY <1>1, <1>2, <1>3, WaitPhaseFacts DEF ConditionsAreAwaited, JoinStages
  <2> QED BY <1>1, <1>2, <1>4, <2>1 DEF FiredOnce
<1>7. UNCHANGED LaneVars
  BY <1>2 DEF LaneVars
<1>8. /\ \A u \in Workers : Lane(u)'
      /\ FiredIsTrue'
  BY <1>1, <1>2, <1>7, UnmovedLanes
<1>9. VersionsInOrder' /\ CommittedSnapshotIsComplete'
  BY <1>1, <1>2, StoreKept
<1>10. Agreement' /\ NobodyRemovedAtFirst' /\ NotBothEmpty'
  BY <1>1, <1>2 DEF Agreement, NobodyRemovedAtFirst, NothingRemoved, FirstStart, NotBothEmpty
<1>11. CompletedMeans' /\ PersistedState' /\ ReturnsOnlyWhenDone' /\ LoopShape'
  BY <1>1, <1>2 DEF CompletedMeans, HasCompleted, PersistedState, NextSnapshot,
                    ReturnsOnlyWhenDone, LoopShape
<1> QED BY <1>5, <1>6, <1>8, <1>9, <1>10, <1>11 DEF IInv

LEMMA WaitAllStep ==
  ASSUME IInv, WaitAll
  PROVE  IInv'
<1> DEFINE c0 == Condition(AllWorkers, WaitPhase[pc])
<1>1. /\ Types /\ VersionsInOrder /\ LoopShape /\ ConditionsAreAwaited /\ FiredOnce
      /\ FiredIsTrue /\ Agreement /\ NobodyRemovedAtFirst /\ CompletedMeans /\ NotBothEmpty
      /\ PersistedState /\ CommittedSnapshotIsComplete /\ ReturnsOnlyWhenDone
      /\ \A u \in Workers : Lane(u)
  BY DEF IInv
<1>2. /\ pc \in DOMAIN WaitPhase /\ step = "wait" /\ step' = "register" /\ pc' = After[pc]
      /\ c0 \in fired /\ fired' = fired \ {c0} /\ registered' = registered
      /\ UNCHANGED <<request, target, joining, awaiting, active, configVersion, snapVersion,
                     phases, requests, submitted, defaultDue, toWorker, fromWorker, control, job,
                     knownSet, commits, written, saved, incarnation>>
  BY DEF WaitAll, Notified, stateVars, chanVars, workerVars, storeVars
<1>3. \/ pc = "snapStarted" /\ pc' = "snapDone" /\ FiredAll("Snapshotting")
      \/ pc = "snapDone" /\ pc' = "persist" /\ FiredAll("Running")
      \/ pc = "reconfStarted" /\ pc' = "reconfDone" /\ FiredAll("Reconfiguring")
      \/ pc = "reconfDone" /\ pc' = "remove" /\ FiredAll("Running")
      \/ pc = "suspended" /\ pc' = "drain" /\ FiredAll("Suspended")
  BY <1>2, WaitPhaseFacts DEF FiredAll
<1>4. ASSUME NEW c \in registered' \cup fired'
      PROVE  c.worker = AllWorkers /\ c.phase = "Completed"
  <2>1. c \in registered \cup fired /\ c # c0
    BY <1>1, <1>2 DEF FiredOnce
  <2>2. CASE c.worker = AllWorkers /\ c.phase = WaitPhase[pc]
    <3>1. c \in ConditionType /\ c0 \in ConditionType
      BY <1>1, <1>2, <2>1 DEF Types
    <3>2. c0.worker = AllWorkers /\ c0.phase = WaitPhase[pc]
      BY ConditionFacts
    <3>3. c = c0
      BY <2>2, <3>1, <3>2 DEF ConditionType, Condition
    <3> QED BY <2>1, <3>3
  <2>3. pc \notin JoinStages
    BY <1>2, WaitPhaseFacts DEF JoinStages
  <2> QED BY <1>1, <2>1, <2>2, <2>3 DEF ConditionsAreAwaited
<1>5. ConditionsAreAwaited' /\ FiredOnce'
  BY <1>1, <1>2, <1>3, <1>4 DEF ConditionsAreAwaited, FiredOnce
<1>6. FiredIsTrue'
  <2>1. \A p : p # "Completed" => ~FiredAll(p)'
    BY <1>4, ConditionFacts DEF FiredAll
  <2>2. pc' \notin JoinStages
    BY <1>3 DEF JoinStages
  <2> QED BY <2>1, <2>2 DEF FiredIsTrue
<1>7. Types'
  <2>1. pc' \in Stages
    BY <1>3 DEF Stages, CalmStages, AgreedStages, ReconfStages
  <2>2. fired' \subseteq ConditionType
    BY <1>1, <1>2 DEF Types
  <2> QED BY <1>1, <1>2, <2>1, <2>2 DEF Types, ProperRequest
<1>8. \A u \in Workers : UNCHANGED LaneOf(u)
  BY <1>2 DEF LaneOf
<1>9. /\ NextSnapshot' = NextSnapshot /\ ReconfMessage' = ReconfMessage
  BY <1>2 DEF NextSnapshot, ReconfMessage, NextConfig
<1>10. ASSUME NEW u \in Workers PROVE Lane(u)'
  <2>1. CASE u \notin active
    BY <1>1, <1>2, <1>3, <1>8, <2>1, StillLane DEF Lane, Outside
  <2>2. CASE u \in active
    <3>1. /\ pc = "snapStarted" => SnapBegun(u)'
          /\ pc = "snapDone" => Quiet(u)' /\ Wrote(u)'
          /\ pc = "reconfStarted" => ReconfBegun(u)'
          /\ pc = "reconfDone" => ReconfOver(u)'
          /\ pc = "suspended" => Suspended(u)'
      BY <1>1, <1>2, <1>3, <1>8, <1>9, <2>2, StillLane DEF FiredIsTrue, SnapDone
    <3> QED BY <1>2, <1>3, <2>2, <3>1 DEF Lane, JoinStages, CalmStages
  <2> QED BY <2>1, <2>2
<1>11. VersionsInOrder' /\ CommittedSnapshotIsComplete'
  BY <1>1, <1>2, <1>3, StoreKept DEF SnapStages
<1>12. CompletedMeans'
  <2>1. pc = "reconfStarted" => \A o \in active : toWorker[o] = <<>>
    BY <1>1, <1>3 DEF FiredIsTrue, ReconfBegun, ReconfOver
  <2> QED BY <1>1, <1>2, <1>3, <2>1 DEF CompletedMeans, HasCompleted
<1>13. Agreement' /\ LoopShape'
  BY <1>1, <1>2, <1>3 DEF Agreement, AgreedStages, CalmStages, LoopShape, JoinStages, ReconfStages
<1>14. NobodyRemovedAtFirst' /\ NotBothEmpty' /\ PersistedState' /\ ReturnsOnlyWhenDone'
  BY <1>1, <1>2, <1>3 DEF NobodyRemovedAtFirst, NothingRemoved, FirstStart, JoinStages, NotBothEmpty,
     PersistedState, ReturnsOnlyWhenDone
<1> QED BY <1>5, <1>6, <1>7, <1>10, <1>11, <1>12, <1>13, <1>14 DEF IInv

----------------------------------------------------------------------------
(* Start and restart.                                                      *)

LEMMA LoadedState ==
  ASSUME Types, VersionsInOrder
  PROVE  LoadCommitted \in StateType /\ Last(commits) = snapVersion
<1>1. commits \in Seq(Int) /\ DOMAIN commits = 1..Len(commits) /\ Len(commits) \in Nat
  BY DEF Types
<1>2. CASE commits = <<>>
  <2>1. snapVersion = None
    BY <1>2 DEF VersionsInOrder, None
  <2> QED BY <1>2, <2>1 DEF LoadCommitted, NoState, StateType, Last, None
<1>3. CASE commits # <<>>
  <2>1. Len(commits) \in DOMAIN commits /\ Last(commits) = commits[Len(commits)]
    BY <1>1, <1>3 DEF Last
  <2>2. Last(commits) \in Versions /\ Last(commits) = Len(commits) - 1
    BY <2>1, VersionsFit DEF VersionsInOrder
  <2> QED BY <1>3, <2>2 DEF LoadCommitted, Types, VersionsInOrder
<1> QED BY <1>2, <1>3

\* How a run begins, with the state that was loaded.
Fresh ==
  /\ pc = "buildAll" /\ step = "register" /\ request = Snapshot /\ target = {} /\ joining = active
  /\ awaiting = [w \in Workers |-> IF w \in active THEN "send" ELSE "idle"]
  /\ phases = [w \in Workers |-> IF w \in active THEN "Unknown" ELSE Absent]
  /\ registered = {} /\ fired = {} /\ requests = <<>>
  /\ toWorker = [w \in Workers |-> <<>>] /\ fromWorker = [w \in Workers |-> <<>>]
  /\ control = [w \in Workers |-> "waitBuild"]
  /\ job = [w \in Workers |-> NoJob] /\ knownSet = [w \in Workers |-> {}]
  /\ active \subseteq Workers /\ configVersion \in Int /\ snapVersion \in Int
  /\ submitted \in 0..MaxRequests /\ defaultDue \in BOOLEAN
  /\ commits \in Seq(Int) /\ incarnation \in Nat
  /\ written \in [Workers -> [Versions -> Int]] /\ saved \in [Versions -> StateType]
  /\ snapVersion = Len(commits) - 1 /\ \A i \in DOMAIN commits : commits[i] = i - 1
  /\ snapVersion + 1 <= submitted

LEMMA FreshIsGood == Fresh /\ CommittedSnapshotIsComplete => IInv
<1> SUFFICES ASSUME Fresh, CommittedSnapshotIsComplete PROVE IInv
  OBVIOUS
<1>1. Types
  <2>1. pc \in Stages /\ step \in {"register", "wait"}
    BY DEF Fresh, Stages, JoinStages
  <2>2. ProperRequest(request)
    BY DEF Fresh, ProperRequest, RequestType, Snapshot
  <2>3. requests \in Seq(RequestType) /\ \A i \in DOMAIN requests : ProperRequest(requests[i])
    BY DEF Fresh
  <2>4. /\ awaiting \in [Workers -> {"idle", "send", "register", "wait"}]
        /\ target \subseteq Workers /\ joining \subseteq Workers /\ active \subseteq Workers
        /\ registered \subseteq ConditionType /\ fired \subseteq ConditionType
        /\ DOMAIN toWorker = Workers /\ DOMAIN fromWorker = Workers /\ DOMAIN phases = Workers
        /\ DOMAIN control = Workers /\ DOMAIN job = Workers /\ DOMAIN knownSet = Workers
    BY DEF Fresh
  <2> QED BY <2>1, <2>2, <2>3, <2>4 DEF Types, Fresh
<1>2. VersionsInOrder
  <2>1. Queued = {}
    BY DEF Fresh, Queued
  <2>2. Cardinality(Queued) = 0
    BY <2>1, FS_EmptySet
  <2> QED BY <2>2 DEF VersionsInOrder, Fresh, SnapStages
<1>3. ASSUME NEW w \in Workers PROVE Lane(w)
  <2>1. /\ toWorker[w] = <<>> /\ Vacant(w) /\ pc = "buildAll" /\ Building
        /\ phases[w] = (IF w \in active THEN "Unknown" ELSE Absent)
        /\ awaiting[w] = (IF w \in active THEN "send" ELSE "idle") /\ joining = active
    BY DEF Fresh, Vacant, Building
  <2>2. CASE w \notin active
    <3>1. Idle(w)
      BY <2>1, <2>2 DEF Idle
    <3> QED BY <2>2, <3>1 DEF Lane, Outside
  <2>3. CASE w \in active
    <3>1. BuildReady(w)
      BY <2>1, <2>3 DEF BuildReady
    <3>2. JoinLane(w)
      BY <2>1, <2>3, <3>1 DEF JoinLane
    <3> QED BY <2>1, <2>3, <3>2 DEF Lane, CalmStages
  <2> QED BY <2>2, <2>3
<1>4. LoopShape
  BY DEF Fresh, LoopShape, JoinStages, ReconfStages
<1>5. /\ ConditionsAreAwaited /\ FiredOnce /\ FiredIsTrue /\ CompletedMeans /\ NotBothEmpty
  BY DEF Fresh, ConditionsAreAwaited, FiredOnce, FiredIsTrue, FiredAll, CompletedMeans, NotBothEmpty
<1>6. Agreement
  BY DEF Fresh, Agreement, AgreedStages, CalmStages
<1>7. NobodyRemovedAtFirst
  BY DEF Fresh, NobodyRemovedAtFirst, NothingRemoved, Absent
<1>8. PersistedState /\ ReturnsOnlyWhenDone
  BY DEF Fresh, PersistedState, ReturnsOnlyWhenDone
<1> QED BY <1>1, <1>2, <1>3, <1>4, <1>5, <1>6, <1>7, <1>8 DEF IInv

LEMMA InitIsGood == Init => IInv
<1> SUFFICES ASSUME Init PROVE IInv
  OBVIOUS
<1>1. commits = <<>> /\ Len(<<>>) = 0 /\ DOMAIN <<>> = {} /\ <<>> \in Seq(Int)
  BY DEF Init
<1>2. Fresh
  <2>1. /\ active = {} /\ configVersion \in Int /\ snapVersion = -1 /\ submitted \in 0..MaxRequests
        /\ incarnation \in Nat /\ submitted = 0
    BY CoordinatorAssumption DEF Init, None
  <2>2. written \in [Workers -> [Versions -> Int]] /\ saved \in [Versions -> StateType]
    BY DEF Init, None, NoState, StateType
  <2>3. /\ awaiting = [w \in Workers |-> IF w \in active THEN "send" ELSE "idle"]
        /\ phases = [w \in Workers |-> IF w \in active THEN "Unknown" ELSE Absent]
    BY DEF Init, LoadAwaiting, LoadPhases, NoState
  <2>4. defaultDue \in BOOLEAN
    BY DEF Init
  <2>5. snapVersion = Len(commits) - 1 /\ \A i \in DOMAIN commits : commits[i] = i - 1
        /\ snapVersion + 1 <= submitted /\ commits \in Seq(Int) /\ snapVersion \in Int
    BY <1>1, <2>1
  <2> QED BY <2>1, <2>2, <2>3, <2>4, <2>5 DEF Init, Fresh
<1>3. CommittedSnapshotIsComplete
  BY <1>1 DEF CommittedSnapshotIsComplete
<1> QED BY <1>2, <1>3, FreshIsGood

LEMMA CrashStep ==
  ASSUME IInv, Crash
  PROVE  IInv'
<1>1. Types /\ VersionsInOrder /\ CommittedSnapshotIsComplete
  BY DEF IInv
<1>2. LoadCommitted \in StateType /\ Last(commits) = snapVersion
  BY <1>1, LoadedState
<1>3. Fresh'
  <2>1. /\ active' = LoadCommitted.active /\ active' \subseteq Workers
        /\ configVersion' \in Int /\ snapVersion' = snapVersion /\ snapVersion \in Int
        /\ incarnation' \in Nat
    BY <1>1, <1>2 DEF Crash, StateType, Types
  <2>2. /\ awaiting' = [w \in Workers |-> IF w \in active' THEN "send" ELSE "idle"]
        /\ phases' = [w \in Workers |-> IF w \in active' THEN "Unknown" ELSE Absent]
        /\ joining' = active'
    BY DEF Crash, LoadAwaiting, LoadPhases
  <2>3. defaultDue' \in BOOLEAN
    BY Zenon DEF Crash
  <2>4. snapVersion + 1 <= submitted /\ submitted \in 0..MaxRequests
    BY <1>1, QueueIsFinite DEF VersionsInOrder, Types
  <2>5. UNCHANGED <<submitted, commits, written, saved>>
    BY DEF Crash
  <2>6. /\ snapVersion' = Len(commits') - 1 /\ \A i \in DOMAIN commits' : commits'[i] = i - 1
        /\ snapVersion' + 1 <= submitted' /\ commits' \in Seq(Int)
        /\ written' \in [Workers -> [Versions -> Int]] /\ saved' \in [Versions -> StateType]
        /\ submitted' \in 0..MaxRequests
    BY <1>1, <2>1, <2>4, <2>5 DEF VersionsInOrder, Types
  <2>7. /\ pc' = "buildAll" /\ step' = "register" /\ request' = Snapshot /\ target' = {}
        /\ registered' = {} /\ fired' = {} /\ requests' = <<>>
        /\ toWorker' = [w \in Workers |-> <<>>] /\ fromWorker' = [w \in Workers |-> <<>>]
        /\ control' = [w \in Workers |-> "waitBuild"]
        /\ job' = [w \in Workers |-> NoJob] /\ knownSet' = [w \in Workers |-> {}]
    BY DEF Crash, Snapshot
  <2> QED BY <2>1, <2>2, <2>3, <2>6, <2>7 DEF Fresh, Snapshot, NoJob
<1>4. CommittedSnapshotIsComplete'
  BY <1>1 DEF CommittedSnapshotIsComplete, Crash
<1>5. (Fresh /\ CommittedSnapshotIsComplete => IInv)'
  BY FreshIsGood, PTL
<1> QED BY <1>3, <1>4, <1>5

----------------------------------------------------------------------------
(* The theorems.                                                           *)

LEMMA NextKeepsInvariant == IInv /\ [Next]_vars => IInv'
<1> SUFFICES ASSUME IInv, [Next]_vars PROVE IInv'
  OBVIOUS
<1>1. CASE UNCHANGED vars
  <2>1. Types /\ requests' = requests /\ submitted' = submitted /\ defaultDue' = defaultDue
    BY <1>1 DEF vars, chanVars, IInv
  <2>2. Queued' = Queued
    BY <2>1 DEF Queued
  <2>3. /\ UNCHANGED <<loopVars, stateVars, mapVars, toWorker, fromWorker, workerVars, storeVars>>
        /\ requests' \in Seq(RequestType) /\ \A i \in DOMAIN requests' : ProperRequest(requests'[i])
        /\ submitted' \in 0..MaxRequests /\ defaultDue' \in BOOLEAN
    BY <1>1, <2>1 DEF vars, chanVars, Types
  <2>4. Cardinality(Queued') \in Nat /\ Cardinality(Queued') - submitted' <= Cardinality(Queued) - submitted
    BY <2>1, <2>2, QueueIsFinite DEF Types
  <2> QED BY <2>3, <2>4, QueueStep
<1>2. ASSUME NEW w \in Workers, AwaitSend(w) \/ AwaitRegister(w) \/ AwaitFired(w) PROVE IInv'
  BY <1>2, AwaitSendStep, AwaitRegisterStep, AwaitFiredStep
<1>3. ASSUME NEW w \in Workers, Inbound(w) \/ WorkerStep(w) \/ Respawn(w) PROVE IInv'
  BY <1>3, SideStep DEF WorkerSide
<1>4. CASE SendDefaultScale \/ Submit \/ Crash
  BY <1>4, DefaultScaleStep, SubmitStep, CrashStep
<1>5. CASE CoordinatorStep
  BY <1>2, <1>5, JoinDoneStep, ArmStep, ReturnStep, TakeStep, ReplyStep, RegisterAllStep,
     WaitAllStep, SnapshotSendStep, PersistStep, CommitStep, SetupStep, ReconfigSendStep,
     RemoveStep, SuspendSendStep, DrainStep
  DEF CoordinatorStep
<1> QED BY <1>1, <1>3, <1>4, <1>5 DEF Next

LEMMA Invariance == Spec => []IInv
<1>1. Init => IInv
  BY InitIsGood
<1>2. IInv /\ [Next]_vars => IInv'
  BY NextKeepsInvariant
<1> QED BY <1>1, <1>2, PTL DEF Spec

\* Every committed snapshot can be restored: each worker of the job at that
\* time has written its part under that version, in the same run of the job as
\* the coordinator (perform_snapshot_all, SlateDbBackend::commit_snapshot).
THEOREM SnapshotsAreComplete == Spec => []CommittedSnapshotIsComplete
<1>1. IInv => CommittedSnapshotIsComplete
  BY DEF IInv
<1> QED BY <1>1, Invariance, PTL

\* No worker and no later coordinator ever writes to a committed snapshot, even
\* when a restarted job takes the version of a snapshot that was not committed
\* (SlateDbBackend::for_version).
THEOREM CommittedSnapshotsStay == Spec => CommittedIsImmutable
<1> DEFINE Kept == \A i \in DOMAIN commits :
                     /\ saved'[commits[i]] = saved[commits[i]]
                     /\ \A w \in Workers : written'[w][commits[i]] = written[w][commits[i]]
<1>1. IInv /\ [Next]_vars => [Kept]_vars
  <2> SUFFICES ASSUME IInv, Next PROVE Kept
    OBVIOUS
  <2>1. Types /\ VersionsInOrder /\ \A w \in Workers : Lane(w)
    BY DEF IInv
  <2>2. CASE UNCHANGED <<written, saved>>
    BY <2>2
  <2>3. ASSUME NEW w \in Workers, WorkerSide(w) PROVE Kept
    <3>1. saved' = saved
      BY <2>1, <2>3, SideFrame
    <3>2. \A i \in DOMAIN commits, u \in Workers : written'[u][commits[i]] = written[u][commits[i]]
      BY <2>1, <2>3, SideWrites
    <3> QED BY <3>1, <3>2
  <2>4. CASE SnapshotPersist
    <3>1. \A i \in DOMAIN commits : commits[i] # NextSnapshot /\ commits[i] \in Versions
      BY <2>1, VersionsFit DEF NextSnapshot, Types
    <3>2. /\ written' = written
          /\ saved' = [saved EXCEPT ![NextSnapshot] =
                         [active |-> active, config |-> configVersion, run |-> incarnation]]
      BY <2>4 DEF SnapshotPersist
    <3>3. DOMAIN saved = Versions
      BY <2>1 DEF Types
    <3> HIDE DEF NextSnapshot
    <3> QED BY <3>1, <3>2, <3>3
  <2>5. ASSUME NEW w \in Workers, AwaitSend(w) \/ AwaitRegister(w) \/ AwaitFired(w)
        PROVE  UNCHANGED <<written, saved>>
    BY <2>5 DEF AwaitSend, AwaitRegister, AwaitFired, storeVars
  <2>6. CASE CoordinatorStep /\ ~SnapshotPersist
    <3>1. CASE JoinDone \/ ArmCompletion \/ ReturnCompleted \/ TakeRequest \/ Reply
      BY <2>2, <3>1 DEF JoinDone, ArmCompletion, ReturnCompleted, TakeRequest, Reply, storeVars
    <3>2. CASE RegisterAll \/ WaitAll \/ SnapshotSend \/ SnapshotCommit
      BY <2>2, <3>2 DEF RegisterAll, WaitAll, SnapshotSend, SnapshotCommit, storeVars
    <3>3. CASE ReconfigSetup \/ ReconfigSend \/ ReconfigRemove \/ SuspendSend \/ SuspendDrain
      BY <2>2, <3>3 DEF ReconfigSetup, ReconfigSend, ReconfigRemove, SuspendSend, SuspendDrain, storeVars
    <3> QED BY <2>2, <2>5, <2>6, <3>1, <3>2, <3>3 DEF CoordinatorStep
  <2>7. CASE SendDefaultScale \/ Submit \/ Crash
    BY <2>2, <2>7 DEF SendDefaultScale, Submit, Crash, storeVars
  <2> QED BY <2>3, <2>4, <2>6, <2>7 DEF Next, WorkerSide
<1> QED BY <1>1, Invariance, PTL DEF Spec, CommittedIsImmutable

\* No worker meets a message its state does not expect: none of the
\* unreachable!() arms of worker/mod.rs is taken.
THEOREM NoWorkerPanics == Spec => []NoUnreachable
<1>1. IInv => NoUnreachable
  <2> SUFFICES ASSUME Types, NEW w \in Workers, Lane(w), control[w] = "panicked" PROVE FALSE
    BY DEF IInv, NoUnreachable
  <2>1. \A c, p, r : At(w, c, p, r) => c = "panicked"
    BY DEF At
  <2>2. \A p, r : ~Left(w, p, r)
    BY DEF Left
  <2>3. ~Settled(w) /\ ~Quiet(w) /\ ~Vacant(w)
    BY <2>1 DEF Settled, Quiet, Vacant
  <2>4. /\ ~Idle(w) /\ ~Drained(w) /\ ~Built(w) /\ ~BuildReady(w) /\ ~BuildSent(w) /\ ~StartSent(w)
        /\ ~Suspended(w)
    BY <2>1, <2>3 DEF Idle, Drained, Built, BuildReady, BuildSent, StartSent, Suspended
  <2>5. ~SnapBegun(w) /\ ~ReconfOver(w) /\ ~SuspendLane(w)
    BY <2>1, <2>2, <2>3, <2>4 DEF SnapBegun, SnapDone, ReconfOver, SuspendLane
  <2>6. ~ReconfBegun(w) /\ ~SnapLane(w)
    BY <2>1, <2>2, <2>3, <2>5 DEF ReconfBegun, SnapLane
  <2>7. ~ReconfLane(w)
    BY <2>1, <2>2, <2>3, <2>6 DEF ReconfLane
  <2>8. ~JoinLane(w) /\ ~Outside(w)
    BY <2>3, <2>4 DEF JoinLane, Outside
  <2> QED
    BY <2>3, <2>4, <2>5, <2>6, <2>7, <2>8
    DEF Lane, Types, Stages, CalmStages, AgreedStages, ReconfStages, JoinStages
<1> QED BY <1>1, Invariance, PTL

\* Between two requests no worker is in an operation, and every worker works
\* with the worker set the coordinator has (perform_reconfig_all).
THEOREM ConfigurationsAgree == Spec => []WorkersAgreeOnConfig
<1>1. IInv => WorkersAgreeOnConfig
  <2> SUFFICES ASSUME IInv, pc = "loop", NEW w \in active
               PROVE  control[w] \in {"running", "completed"} /\ knownSet[w] = active
    BY DEF WorkersAgreeOnConfig
  <2>1. Quiet(w)
    BY DEF IInv, Types, Lane, CalmStages
  <2>2. knownSet[w] = active
    BY DEF IInv, Agreement, AgreedStages, CalmStages
  <2> QED BY <2>1, <2>2 DEF Quiet, Settled, At
<1> QED BY <1>1, Invariance, PTL

\* The coordinator's loop ends only when all workers of the job have completed,
\* although the notification it waits for is registered once and may fire in
\* the middle of a rescale, a snapshot or a suspension.
THEOREM ReturnsWhenDone == Spec => []ReturnsOnlyWhenDone
<1>1. IInv => ReturnsOnlyWhenDone
  BY DEF IInv
<1> QED BY <1>1, Invariance, PTL
============================================================================
