------------------------- MODULE DistributorProofs -------------------------
(***************************************************************************)
(* What holds of the distributors for every set of workers, of keys, every *)
(* partitioner and every sequence of reconfigurations; and, for clusters   *)
(* that only grow, delivery: no distributor panics and every message is    *)
(* delivered exactly once, under full load, the upstreams emit at any      *)
(* moment of a reconfiguration.                                            *)
(***************************************************************************)
EXTENDS Distributor, SequenceTheorems, FiniteSetTheorems, TLAPS

LEMMA ScalesType ==
  /\ Len(Scales) \in Nat
  /\ \A i \in 1..Len(Scales) : Scales[i] \in SUBSET Workers /\ Scales[i] # {}
<1>1. Scales \in Seq(WorkerSets)
  BY DistributorAssumption
<1>2. \A i \in 1..Len(Scales) : Scales[i] \in WorkerSets
  BY <1>1, ElementOfSeq
<1> QED
  BY <1>1, <1>2, LenProperties DEF WorkerSets

LEMMA InitTypeOK == Init => TypeOK
<1> SUFFICES ASSUME Init PROVE TypeOK
  OBVIOUS
<1>1. RouterTypeOK
  BY DistributorAssumption DEF Init, RouterTypeOK, Modes
<1>2. PeerTypeOK
  BY DistributorAssumption DEF Init, PeerTypeOK, NoTime, WorkerSets
<1>3. LocalTypeOK
  BY DEF Init, LocalTypeOK, NoTime, Turns
<1>4. LinkTypeOK
  BY DEF Init, LinkTypeOK
<1>5. OperatorTypeOK
  BY DEF Init, OperatorTypeOK, NoTime
<1>6. EnvTypeOK
  <2>1. Len(Scales) \in Nat /\ MaxBarriers \in Nat /\ MaxData \in Nat /\ InitWorkers \subseteq Workers
    BY DistributorAssumption, ScalesType DEF WorkerSets
  <2>2. round \in 0..Len(Scales) /\ delivered \in [Workers -> 0..Len(Scales)]
    BY <2>1 DEF Init
  <2>3. barrierRound \in 0..MaxBarriers /\ nextId \in 1..(MaxData + 1)
    BY <2>1 DEF Init
  <2>4. alive \in SUBSET Workers /\ suspending \in BOOLEAN /\ suspendTaken \in SUBSET Workers
    BY <2>1 DEF Init
  <2>5. taken \in [Workers -> Nat] /\ consumed \in [Ids -> Nat] /\ cut \in [Ids -> Nat]
    BY DEF Init
  <2> QED
    BY <2>2, <2>3, <2>4, <2>5 DEF EnvTypeOK
<1> QED
  BY <1>1, <1>2, <1>3, <1>4, <1>5, <1>6 DEF TypeOK

----------------------------------------------------------------------------
\* Parts of the type invariant that a step leaves alone.

LEMMA UnchangedTypes ==
  /\ RouterTypeOK /\ UNCHANGED routerVars => RouterTypeOK'
  /\ PeerTypeOK /\ UNCHANGED <<peerVars, remoteVars>> => PeerTypeOK'
  /\ LocalTypeOK /\ UNCHANGED <<localVars, suspended, turn, panicked>> => LocalTypeOK'
  /\ LinkTypeOK /\ UNCHANGED <<chan, out>> => LinkTypeOK'
  /\ OperatorTypeOK /\ UNCHANGED opVars => OperatorTypeOK'
  /\ EnvTypeOK /\ UNCHANGED <<envVars, histVars>> => EnvTypeOK'
<1>1. RouterTypeOK /\ UNCHANGED routerVars => RouterTypeOK'
  BY DEF RouterTypeOK, routerVars
<1>2. PeerTypeOK /\ UNCHANGED <<peerVars, remoteVars>> => PeerTypeOK'
  BY DEF PeerTypeOK, peerVars, remoteVars
<1>3. LocalTypeOK /\ UNCHANGED <<localVars, suspended, turn, panicked>> => LocalTypeOK'
  BY DEF LocalTypeOK, localVars
<1>4. LinkTypeOK /\ UNCHANGED <<chan, out>> => LinkTypeOK'
  BY DEF LinkTypeOK
<1>5. OperatorTypeOK /\ UNCHANGED opVars => OperatorTypeOK'
  BY DEF OperatorTypeOK, opVars
<1>6. EnvTypeOK /\ UNCHANGED <<envVars, histVars>> => EnvTypeOK'
  BY DEF EnvTypeOK, envVars, histVars
<1> QED
  BY <1>1, <1>2, <1>3, <1>4, <1>5, <1>6

\* Messages keep their types on links and queues.
LEMMA SeqFacts ==
  ASSUME NEW S, NEW s \in Seq(S)
  PROVE  /\ \A e \in S : Append(s, e) \in Seq(S)
         /\ s # <<>> => Head(s) \in S /\ Tail(s) \in Seq(S)
         /\ \A t \in Seq(S) : s \o t \in Seq(S)
  OBVIOUS

\* The fields of the messages on the links and in the operators' queues.
LEMMA NetworkFields ==
  ASSUME NEW m \in NetworkMessage
  PROVE  /\ m.kind = "Data" => m.data \in DataMessage /\ m.version \in Nat
         /\ m.kind = "Epoch" => m.ts \in Nat
         /\ m.kind = "Acquire" => m \in OperatorMessage
         /\ m.kind \in {"Upgrade", "AckUpgrade"} => m.version \in Nat
  BY DEF NetworkMessage, OperatorMessage

LEMMA OperatorFields ==
  ASSUME NEW m \in OperatorMessage
  PROVE  /\ m.kind = "Data" => m.data \in DataMessage
         /\ m.kind = "Epoch" => m.ts \in Nat
         /\ m.kind \in {"Collect", "Acquire"} => m.key \in Keys
         /\ m.kind = "Acquire" => m.state \in SUBSET Ids
  BY DEF OperatorMessage

LEMMA MessageTypes ==
  /\ \A d \in DataMessage, v \in Nat : [kind |-> "Data", data |-> d, version |-> v] \in NetworkMessage
  /\ \A t \in Nat \ {NoTime} : [kind |-> "Epoch", ts |-> t] \in NetworkMessage
  /\ [kind |-> "BarrierMarker"] \in NetworkMessage /\ [kind |-> "SuspendMarker"] \in NetworkMessage
  /\ \A k \in Keys, st \in SUBSET Ids :
        [kind |-> "Acquire", key |-> k, state |-> st] \in NetworkMessage
  /\ \A v \in Nat : [kind |-> "Upgrade", version |-> v] \in NetworkMessage
  /\ \A v \in Nat : [kind |-> "AckUpgrade", version |-> v] \in NetworkMessage
  /\ \A d \in DataMessage : [kind |-> "Data", data |-> d] \in OperatorMessage
  /\ \A t \in Nat \ {NoTime} : [kind |-> "Epoch", ts |-> t] \in OperatorMessage
  /\ \A kind \in {"AbsBarrier", "SuspendMarker", "Rescale", "Interrogate"} :
        [kind |-> kind] \in OperatorMessage
  /\ \A k \in Keys : [kind |-> "Collect", key |-> k] \in OperatorMessage
  BY DEF NetworkMessage, OperatorMessage

\* Sending to one worker, to all remotes, and taking a message off a link.
LEMMA LinkTypes ==
  ASSUME NEW c \in [Links -> Seq(NetworkMessage)], NEW w \in Workers, NEW r \in Workers,
         NEW m \in NetworkMessage
  PROVE  /\ [c EXCEPT ![<<w, r>>] = Append(@, m)] \in [Links -> Seq(NetworkMessage)]
         /\ Broadcast(c, w, m) \in [Links -> Seq(NetworkMessage)]
         /\ c[<<r, w>>] # <<>> =>
              /\ Head(c[<<r, w>>]) \in NetworkMessage
              /\ [c EXCEPT ![<<r, w>>] = Tail(@)] \in [Links -> Seq(NetworkMessage)]
<1>1. \A l \in Links : c[l] \in Seq(NetworkMessage)
  OBVIOUS
<1>2. <<w, r>> \in Links /\ <<r, w>> \in Links
  BY DEF Links
<1> QED
  BY <1>1, <1>2, SeqFacts DEF Broadcast

\* Setting and clearing flags.
LEMMA FlagTypes ==
  ASSUME NEW f \in [Workers -> [Workers -> BOOLEAN]], NEW w \in Workers, NEW r \in Workers
  PROVE  [f EXCEPT ![w][r] = TRUE] \in [Workers -> [Workers -> BOOLEAN]]
<1>1. [f[w] EXCEPT ![r] = TRUE] \in [Workers -> BOOLEAN]
  BY Zenon
<1> QED
  BY <1>1, Zenon

LEMMA HandleEpochType ==
  ASSUME NEW w \in Workers, NEW f \in [Workers -> Nat], NEW local \in Nat, remotes[w] \subseteq Workers
  PROVE  HandleEpoch(w, f, local) \in Seq(OperatorMessage)
<1> DEFINE all == Frontiers(w, f, local)
<1>1. all \subseteq Nat
  BY DEF Frontiers
<1>2. CASE \E t \in all : t # NoTime /\ \A u \in all : t <= u
  <2>1. PICK t \in all : t # NoTime /\ \A u \in all : t <= u
    BY <1>2
  <2>2. MergeTimestamps(all) \in all /\ \A u \in all : MergeTimestamps(all) <= u
    BY <2>1 DEF MergeTimestamps
  <2>3. MergeTimestamps(all) = t
    BY <1>1, <2>1, <2>2
  <2>4. [kind |-> "Epoch", ts |-> MergeTimestamps(all)] \in OperatorMessage
    BY <1>1, <2>1, <2>3, MessageTypes
  <2> HIDE DEF all
  <2>5. HandleEpoch(w, f, local) = <<[kind |-> "Epoch", ts |-> MergeTimestamps(all)]>>
    BY <1>2 DEF HandleEpoch, all
  <2> QED
    BY <2>4, <2>5
<1>3. CASE ~\E t \in all : t # NoTime /\ \A u \in all : t <= u
  <2>1. HandleEpoch(w, f, local) = <<>>
    BY <1>3 DEF HandleEpoch
  <2> QED
    BY <2>1
<1> QED
  BY <1>2, <1>3

----------------------------------------------------------------------------
\* Types, action by action.

LEMMA BeginRunType ==
  ASSUME TypeOK, NEW w \in Workers, BeginRun(w) PROVE TypeOK'
<1> USE DEF TypeOK
<1>1. UNCHANGED <<routerVars, peerVars, remoteVars, localVars, chan, out, suspended, opVars,
                  panicked, envVars, histVars>>
  BY DEF BeginRun
<1>2. LocalTypeOK'
  <2>1. PICK ready \in SUBSET Pollable(w) : turn' = [worker |-> w, stage |-> "recv", poll |-> ready]
    BY DEF BeginRun
  <2>2. Pollable(w) \subseteq Workers
    BY DEF Pollable, PeerTypeOK
  <2> QED
    BY <1>1, <2>1, <2>2 DEF LocalTypeOK, localVars, Turns
<1> QED
  BY <1>1, <1>2, UnchangedTypes

LEMMA HandleDataType ==
  ASSUME TypeOK, NEW w \in Workers, NEW d \in DataMessage, NEW sender, NEW v,
         NEW c \in [Links -> Seq(NetworkMessage)], NEW next \in Turns,
         HandleData(w, d, sender, v, c, next)
  PROVE  RouterTypeOK' /\ LinkTypeOK' /\ turn' \in Turns /\ panicked' \in SUBSET Workers
<1> USE DEF TypeOK
<1> DEFINE target == RouteMessage(w, d.key, sender, v)
<1>1. d.key \in Keys
  BY DEF DataMessage
<1>2. whitelist' \in [Workers -> SUBSET Keys]
  <2>1. Whitelisted(w, d.key, v) \in SUBSET Keys
    BY <1>1 DEF Whitelisted, RouterTypeOK
  <2>2. whitelist' = [whitelist EXCEPT ![w] = Whitelisted(w, d.key, v)]
    BY DEF HandleData
  <2> QED
    BY <2>1, <2>2 DEF RouterTypeOK
<1>3. buffered' \in [Workers -> Seq(DataMessage)]
  <2>1. buffered' = buffered \/ buffered' = [buffered EXCEPT ![w] = Append(@, d)]
    BY DEF HandleData
  <2>2. Append(buffered[w], d) \in Seq(DataMessage)
    BY SeqFacts DEF RouterTypeOK
  <2> QED
    BY <2>1, <2>2 DEF RouterTypeOK
<1>4. RouterTypeOK'
  <2>1. UNCHANGED <<mode, version, trigger, oldSet, newSet, collecting, collected>>
    BY DEF HandleData
  <2> QED
    BY <1>2, <1>3, <2>1 DEF RouterTypeOK
<1>5. out' \in [Workers -> Seq(OperatorMessage)]
  <2>1. out' = out \/ out' = [out EXCEPT ![w] = Append(@, [kind |-> "Data", data |-> d])]
    BY DEF HandleData
  <2>2. Append(out[w], [kind |-> "Data", data |-> d]) \in Seq(OperatorMessage)
    BY SeqFacts, MessageTypes DEF LinkTypeOK
  <2> QED
    BY <2>1, <2>2 DEF LinkTypeOK
<1>6. chan' \in [Links -> Seq(NetworkMessage)]
  <2> DEFINE m == [kind |-> "Data", data |-> d, version |-> version[w]]
  <2>1. m \in NetworkMessage
    BY MessageTypes DEF RouterTypeOK
  <2>2. chan' = c \/ (target \in remotes[w] /\ chan' = [c EXCEPT ![<<w, target>>] = Append(@, m)])
    BY DEF HandleData
  <2>3. target \in remotes[w] => target \in Workers
    BY DEF PeerTypeOK
  <2> HIDE DEF m, target
  <2>4. CASE chan' = c
    BY <2>4
  <2>5. CASE target \in remotes[w] /\ chan' = [c EXCEPT ![<<w, target>>] = Append(@, m)]
    <3>1. target \in Workers
      BY <2>3, <2>5
    <3>2. [c EXCEPT ![<<w, target>>] = Append(@, m)] \in [Links -> Seq(NetworkMessage)]
      BY <2>1, <3>1, LinkTypes
    <3> QED
      BY <2>5, <3>2
  <2> QED
    BY <2>2, <2>4, <2>5
<1>7. turn' \in Turns /\ panicked' \in SUBSET Workers
  <2>1. turn' \in {Idle, next} /\ panicked' \in {panicked, panicked \cup {w}}
    BY DEF HandleData
  <2> QED
    BY <2>1 DEF Turns, LocalTypeOK
<1> QED
  BY <1>4, <1>5, <1>6, <1>7 DEF LinkTypeOK

LEMMA ReceiveRemoteType ==
  ASSUME TypeOK, PolledLinksFilled, NEW w \in Workers, NEW r \in Workers, ReceiveRemote(w, r)
  PROVE  TypeOK'
<1> USE DEF TypeOK
<1> DEFINE m == Head(chan[<<r, w>>])
<1>1. turn.worker = w /\ turn.stage = "recv" /\ r \in turn.poll /\ chan[<<r, w>>] # <<>>
  BY DEF ReceiveRemote, InRun, PolledLinksFilled
<1>2. m \in NetworkMessage /\ Popped(r, w) \in [Links -> Seq(NetworkMessage)]
  BY <1>1, LinkTypes, MessageTypes DEF LinkTypeOK, Popped
<1>3. [turn EXCEPT !.poll = @ \ {r}] \in Turns
  BY <1>1, SMTT(30) DEF LocalTypeOK, Turns, Idle
<1> HIDE DEF m
<1>4. CASE RemoteData(w, r, m)
  <2>1. HandleData(w, m.data, r, m.version, Popped(r, w), [turn EXCEPT !.poll = @ \ {r}])
        /\ UNCHANGED <<peerVars, remoteVars, localVars, suspended, opVars, envVars, histVars>>
    BY <1>4 DEF RemoteData
  <2>2. m.data \in DataMessage
    BY <1>2, <1>4, NetworkFields DEF RemoteData
  <2>3. RouterTypeOK' /\ LinkTypeOK' /\ turn' \in Turns /\ panicked' \in SUBSET Workers
    BY <1>2, <1>3, <2>1, <2>2, HandleDataType
  <2>4. LocalTypeOK'
    BY <2>1, <2>3 DEF LocalTypeOK, localVars
  <2> QED
    BY <2>1, <2>3, <2>4, UnchangedTypes
<1>5. ASSUME RemoteEpoch(w, r, m) \/ RemoteMarker(w, r, m) \/ RemoteAcquire(w, r, m)
             \/ RemoteUpgrade(w, r, m) \/ RemoteAckUpgrade(w, r, m),
             chan' = IF m.kind = "Upgrade"
                     THEN [Popped(r, w) EXCEPT ![<<w, r>>] =
                             Append(@, [kind |-> "AckUpgrade", version |-> m.version])]
                     ELSE Popped(r, w),
             turn' = [turn EXCEPT !.poll = @ \ {r}],
             UNCHANGED <<routerVars, localVars, suspended, opVars, panicked, envVars, histVars>>
      PROVE  TypeOK'
  <2>1. LocalTypeOK'
    BY <1>3, <1>5 DEF LocalTypeOK, localVars
  <2>2. chan' \in [Links -> Seq(NetworkMessage)]
    BY <1>2, <1>5, LinkTypes, NetworkFields, MessageTypes
  <2>3. out' \in [Workers -> Seq(OperatorMessage)] /\ PeerTypeOK'
    <3>1. CASE RemoteEpoch(w, r, m)
      <4>1. frontier' \in [Workers -> [Workers -> Nat]]
        BY <1>2, <3>1, NetworkFields DEF RemoteEpoch, PeerTypeOK
      <4>2. HandleEpoch(w, frontier'[w], localFrontier[w]) \in Seq(OperatorMessage)
        BY <4>1, HandleEpochType DEF PeerTypeOK, LocalTypeOK
      <4>3. out' = [out EXCEPT ![w] = @ \o HandleEpoch(w, frontier'[w], localFrontier[w])]
            /\ UNCHANGED <<peerVars, barred, sentSuspend>>
        BY <3>1 DEF RemoteEpoch
      <4>4. out[w] \o HandleEpoch(w, frontier'[w], localFrontier[w]) \in Seq(OperatorMessage)
        BY <4>2, SeqFacts DEF LinkTypeOK
      <4> QED
        BY <4>1, <4>3, <4>4 DEF PeerTypeOK, peerVars, LinkTypeOK
    <3>2. CASE RemoteMarker(w, r, m)
      <4>1. barred' = barred \/ barred' = [barred EXCEPT ![w][r] = TRUE]
        BY <3>2 DEF RemoteMarker
      <4>2. sentSuspend' = sentSuspend \/ sentSuspend' = [sentSuspend EXCEPT ![w][r] = TRUE]
        BY <3>2 DEF RemoteMarker
      <4>3. UNCHANGED <<peerVars, frontier, out>>
        BY <3>2 DEF RemoteMarker
      <4>4. /\ barred \in [Workers -> [Workers -> BOOLEAN]]
            /\ sentSuspend \in [Workers -> [Workers -> BOOLEAN]]
        BY DEF PeerTypeOK
      <4>5. /\ [barred EXCEPT ![w][r] = TRUE] \in [Workers -> [Workers -> BOOLEAN]]
            /\ [sentSuspend EXCEPT ![w][r] = TRUE] \in [Workers -> [Workers -> BOOLEAN]]
        BY <4>4, FlagTypes
      <4>6. /\ barred' \in [Workers -> [Workers -> BOOLEAN]]
            /\ sentSuspend' \in [Workers -> [Workers -> BOOLEAN]]
        BY <4>1, <4>2, <4>4, <4>5
      <4> QED
        BY <4>3, <4>6 DEF PeerTypeOK, peerVars, LinkTypeOK
    <3>3. CASE RemoteAcquire(w, r, m)
      <4>1. Append(out[w], m) \in Seq(OperatorMessage)
        BY <1>2, <3>3, NetworkFields, SeqFacts DEF RemoteAcquire, LinkTypeOK
      <4>2. PeerTypeOK'
        BY <3>3, UnchangedTypes DEF RemoteAcquire
      <4> QED
        BY <3>3, <4>1, <4>2 DEF RemoteAcquire, LinkTypeOK
    <3>4. CASE RemoteUpgrade(w, r, m)
      BY <1>2, <3>4, NetworkFields DEF RemoteUpgrade, PeerTypeOK, remoteVars, LinkTypeOK
    <3>5. CASE RemoteAckUpgrade(w, r, m)
      BY <1>2, <3>5, NetworkFields DEF RemoteAckUpgrade, PeerTypeOK, remoteVars, LinkTypeOK
    <3> QED
      BY <1>5, <3>1, <3>2, <3>3, <3>4, <3>5
  <2> QED
    BY <1>5, <2>1, <2>2, <2>3, UnchangedTypes DEF LinkTypeOK
<1> QED
  BY <1>4, <1>5 DEF ReceiveRemote, m

LEMMA ToTailType ==
  ASSUME TypeOK, NEW w \in Workers, AtLocal(w) PROVE ToTail \in Turns
  BY DEF TypeOK, LocalTypeOK, AtLocal, InRun, ToTail, Turns, Idle

LEMMA NoLocalType ==
  ASSUME TypeOK, NEW w \in Workers, NoLocal(w) PROVE TypeOK'
<1> USE DEF TypeOK
<1>1. UNCHANGED <<routerVars, peerVars, remoteVars, localVars, chan, out, suspended, opVars,
                  panicked, envVars, histVars>> /\ turn' = ToTail /\ AtLocal(w)
  BY DEF NoLocal
<1>2. LocalTypeOK'
  BY <1>1, ToTailType DEF LocalTypeOK, localVars
<1> QED
  BY <1>1, <1>2, UnchangedTypes

LEMMA LocalDataType ==
  ASSUME TypeOK, NEW w \in Workers, LocalData(w) PROVE TypeOK'
<1> USE DEF TypeOK
<1>1. AtLocal(w) /\ nextId <= MaxData /\ nextId' = nextId + 1
      /\ cut' = [cut EXCEPT ![nextId] = taken[w]]
      /\ UNCHANGED <<peerVars, remoteVars, localVars, suspended, opVars, envVars, consumed>>
  BY DEF LocalData, MayReceiveLocal
<1>2. PICK k \in Keys, ts \in (localFrontier[w] + 1)..(MaxEpoch + 1) :
        HandleData(w, [key |-> k, id |-> nextId, ts |-> ts], w, NoVersion, chan, ToTail)
  BY DEF LocalData
<1>3. nextId \in Ids /\ localFrontier[w] \in Nat
  BY <1>1, DistributorAssumption DEF Ids, EnvTypeOK, LocalTypeOK
<1>4. ts \in Nat \ {NoTime}
  BY <1>3, DistributorAssumption DEF NoTime
<1>5. [key |-> k, id |-> nextId, ts |-> ts] \in DataMessage
  BY <1>3, <1>4 DEF DataMessage
<1>6. ToTail \in Turns /\ chan \in [Links -> Seq(NetworkMessage)]
  BY <1>1, ToTailType DEF LinkTypeOK
<1>7. RouterTypeOK' /\ LinkTypeOK' /\ turn' \in Turns /\ panicked' \in SUBSET Workers
  BY <1>2, <1>5, <1>6, HandleDataType
<1>8. EnvTypeOK'
  <2>1. nextId' \in 1..(MaxData + 1)
    BY <1>1, DistributorAssumption DEF EnvTypeOK
  <2>2. cut' \in [Ids -> Nat]
    BY <1>1 DEF EnvTypeOK
  <2> QED
    BY <1>1, <2>1, <2>2 DEF EnvTypeOK, envVars
<1>9. LocalTypeOK'
  BY <1>1, <1>7 DEF LocalTypeOK, localVars
<1> QED
  BY <1>1, <1>7, <1>8, <1>9, UnchangedTypes

LEMMA LocalEpochType ==
  ASSUME TypeOK, NEW w \in Workers, LocalEpoch(w) PROVE TypeOK'
<1> USE DEF TypeOK
<1>1. AtLocal(w) /\ turn' = ToTail
      /\ UNCHANGED <<routerVars, peerVars, remoteVars, localBarrier, localShutdown, suspended,
                     opVars, panicked, envVars, histVars>>
  BY DEF LocalEpoch, MayReceiveLocal
<1>2. PICK e \in (localFrontier[w] + 1)..MaxEpoch :
        /\ chan' = Broadcast(chan, w, [kind |-> "Epoch", ts |-> e])
        /\ localFrontier' = [localFrontier EXCEPT ![w] = e]
        /\ out' = [out EXCEPT ![w] = @ \o HandleEpoch(w, frontier[w], e)]
  BY DEF LocalEpoch
<1>3. localFrontier[w] \in Nat
  BY DEF LocalTypeOK
<1>4. e \in Nat \ {NoTime} /\ e \in Nat
  BY <1>3, DistributorAssumption DEF NoTime
<1>5. LocalTypeOK'
  BY <1>1, <1>2, <1>4, ToTailType DEF LocalTypeOK
<1>6. HandleEpoch(w, frontier[w], e) \in Seq(OperatorMessage)
  BY <1>4, HandleEpochType DEF PeerTypeOK
<1>7. out[w] \o HandleEpoch(w, frontier[w], e) \in Seq(OperatorMessage)
  BY <1>6, SeqFacts DEF LinkTypeOK
<1>8. chan' \in [Links -> Seq(NetworkMessage)]
  <2>1. [kind |-> "Epoch", ts |-> e] \in NetworkMessage
    BY <1>4, MessageTypes
  <2> QED
    BY <1>2, <2>1, LinkTypes DEF LinkTypeOK
<1>9. LinkTypeOK'
  BY <1>2, <1>7, <1>8 DEF LinkTypeOK
<1> QED
  BY <1>1, <1>5, <1>9, UnchangedTypes

LEMMA LocalBarrierType ==
  ASSUME TypeOK, NEW w \in Workers, LocalBarrier(w) PROVE TypeOK'
<1> USE DEF TypeOK
<1>1. AtLocal(w) /\ turn' = ToTail /\ localBarrier' = [localBarrier EXCEPT ![w] = TRUE]
      /\ chan' = Broadcast(chan, w, [kind |-> "BarrierMarker"])
      /\ taken' = [taken EXCEPT ![w] = @ + 1]
      /\ UNCHANGED <<routerVars, peerVars, remoteVars, localShutdown, localFrontier, out,
                     suspended, opVars, panicked, alive, round, delivered, barrierRound,
                     suspending, suspendTaken, histVars>>
  BY DEF LocalBarrier, MayReceiveLocal
<1>2. LocalTypeOK'
  <2>1. localBarrier' \in [Workers -> BOOLEAN]
    BY <1>1, Zenon DEF LocalTypeOK
  <2> QED
    BY <1>1, <2>1, ToTailType DEF LocalTypeOK
<1>3. LinkTypeOK'
  <2>1. chan' \in [Links -> Seq(NetworkMessage)]
    BY <1>1, LinkTypes, MessageTypes DEF LinkTypeOK
  <2> QED
    BY <1>1, <2>1 DEF LinkTypeOK
<1>4. EnvTypeOK'
  BY <1>1 DEF EnvTypeOK, histVars
<1> QED
  BY <1>1, <1>2, <1>3, <1>4, UnchangedTypes

LEMMA LocalSuspendType ==
  ASSUME TypeOK, NEW w \in Workers, LocalSuspend(w) PROVE TypeOK'
<1> USE DEF TypeOK
<1>1. AtLocal(w) /\ turn' = ToTail /\ localShutdown' = [localShutdown EXCEPT ![w] = TRUE]
      /\ chan' = Broadcast(chan, w, [kind |-> "SuspendMarker"])
      /\ suspendTaken' = suspendTaken \cup {w}
      /\ UNCHANGED <<routerVars, peerVars, remoteVars, localBarrier, localFrontier, out,
                     suspended, opVars, panicked, alive, round, delivered, barrierRound,
                     taken, suspending, histVars>>
  BY DEF LocalSuspend, MayReceiveLocal
<1>2. LocalTypeOK'
  <2>1. localShutdown' \in [Workers -> BOOLEAN]
    BY <1>1, Zenon DEF LocalTypeOK
  <2> QED
    BY <1>1, <2>1, ToTailType DEF LocalTypeOK
<1>3. LinkTypeOK'
  <2>1. chan' \in [Links -> Seq(NetworkMessage)]
    BY <1>1, LinkTypes, MessageTypes DEF LinkTypeOK
  <2> QED
    BY <1>1, <2>1 DEF LinkTypeOK
<1>4. EnvTypeOK'
  BY <1>1 DEF EnvTypeOK, histVars
<1> QED
  BY <1>1, <1>2, <1>3, <1>4, UnchangedTypes

LEMMA FreshType ==
  ASSUME NEW S, NEW f \in [Workers -> [Workers -> S]], NEW w \in Workers, NEW d \in S
  PROVE  Fresh(w, f, d) \in [Workers -> [Workers -> S]]
<1> DEFINE row == [r \in Workers |-> IF r \in Scales[round] \ remotes[w] THEN d ELSE f[w][r]]
<1>1. row \in [Workers -> S]
  OBVIOUS
<1>2. Fresh(w, f, d) = [f EXCEPT ![w] = row]
  BY DEF Fresh
<1> HIDE DEF row
<1> QED
  BY <1>1, <1>2

LEMMA LocalRescaleType ==
  ASSUME TypeOK, NEW w \in Workers, LocalRescale(w) PROVE TypeOK'
<1> USE DEF TypeOK
<1>1. /\ AtLocal(w) /\ turn' = ToTail /\ delivered[w] < round
      /\ remotes' = [remotes EXCEPT ![w] = @ \cup (Scales[round] \ {w})]
      /\ lastVersion' = Fresh(w, lastVersion, NoVersion) /\ lastAck' = Fresh(w, lastAck, NoVersion)
      /\ barred' = Fresh(w, barred, FALSE) /\ sentSuspend' = Fresh(w, sentSuspend, FALSE)
      /\ frontier' = Fresh(w, frontier, NoTime)
      /\ delivered' = [delivered EXCEPT ![w] = round]
      /\ UNCHANGED <<version, collecting, collected, buffered, localVars, chan, suspended, opVars,
                     panicked, alive, round, barrierRound, taken, suspending, suspendTaken, histVars>>
  BY DEF LocalRescale, MayReceiveLocal
<1>2. round \in 1..Len(Scales)
  BY <1>1, ScalesType DEF EnvTypeOK
<1>3. Scales[round] \subseteq Workers /\ Scales[round] \in WorkerSets
  BY <1>2, ScalesType DEF WorkerSets
<1>4. PeerTypeOK'
  <2>1. remotes' \in [Workers -> SUBSET Workers]
    BY <1>1, <1>3 DEF PeerTypeOK
  <2>2. lastVersion' \in [Workers -> [Workers -> Nat \cup {NoVersion}]]
        /\ lastAck' \in [Workers -> [Workers -> Nat \cup {NoVersion}]]
    <3>1. NoVersion \in Nat \cup {NoVersion}
      OBVIOUS
    <3> QED
      BY <1>1, <3>1, FreshType DEF PeerTypeOK
  <2>3. barred' \in [Workers -> [Workers -> BOOLEAN]] /\ sentSuspend' \in [Workers -> [Workers -> BOOLEAN]]
    <3>1. FALSE \in BOOLEAN
      OBVIOUS
    <3> QED
      BY <1>1, <3>1, FreshType DEF PeerTypeOK
  <2>4. frontier' \in [Workers -> [Workers -> Nat]]
    <3>1. NoTime \in Nat
      BY DEF NoTime
    <3> QED
      BY <1>1, <3>1, FreshType DEF PeerTypeOK
  <2> QED
    BY <2>1, <2>2, <2>3, <2>4 DEF PeerTypeOK
<1>5. RouterTypeOK' /\ LinkTypeOK'
  <2>1. CASE mode[w] = "Normal"
    <3>1. /\ mode' = [mode EXCEPT ![w] = "Interrogate"]
          /\ trigger' = [trigger EXCEPT ![w] = FirstVersion + round - 1]
          /\ oldSet' = [oldSet EXCEPT ![w] = newSet[w]]
          /\ newSet' = [newSet EXCEPT ![w] = Scales[round]]
          /\ whitelist' = [whitelist EXCEPT ![w] = {}]
          /\ out' = [out EXCEPT ![w] = Append(@, [kind |-> "Interrogate"])]
      BY <2>1 DEF LocalRescale
    <3>2. FirstVersion + round - 1 \in Nat
      BY <1>2, ScalesType, DistributorAssumption
    <3>3. RouterTypeOK'
      BY <1>1, <1>3, <3>1, <3>2 DEF RouterTypeOK, Modes
    <3>4. Append(out[w], [kind |-> "Interrogate"]) \in Seq(OperatorMessage)
      BY SeqFacts, MessageTypes DEF LinkTypeOK
    <3> QED
      BY <1>1, <3>1, <3>3, <3>4 DEF LinkTypeOK
  <2>2. CASE mode[w] # "Normal"
    <3>1. UNCHANGED <<mode, trigger, oldSet, newSet, whitelist, out>>
      BY <2>2 DEF LocalRescale
    <3> QED
      BY <1>1, <3>1 DEF RouterTypeOK, LinkTypeOK
  <2> QED
    BY <2>1, <2>2
<1>6. LocalTypeOK'
  BY <1>1, ToTailType DEF LocalTypeOK, localVars
<1>7. EnvTypeOK'
  BY <1>1 DEF EnvTypeOK, histVars
<1> QED
  BY <1>1, <1>4, <1>5, <1>6, <1>7, UnchangedTypes

LEMMA MarkerOutType ==
  ASSUME NEW w \in Workers PROVE MarkerOut(w) \in Seq(OperatorMessage)
  BY MessageTypes DEF MarkerOut

LEMMA EmitMarkersType ==
  ASSUME TypeOK, NEW w \in Workers, EmitMarkers(w)
  PROVE  /\ localBarrier' \in [Workers -> BOOLEAN] /\ localShutdown' \in [Workers -> BOOLEAN]
         /\ suspended' \in [Workers -> BOOLEAN]
         /\ barred' \in [Workers -> [Workers -> BOOLEAN]]
<1> USE DEF TypeOK
<1>1. localBarrier' \in [Workers -> BOOLEAN]
  BY Zenon DEF EmitMarkers, LocalTypeOK
<1>2. localShutdown' \in [Workers -> BOOLEAN]
  BY Zenon DEF EmitMarkers, LocalTypeOK
<1>3. suspended' \in [Workers -> BOOLEAN]
  BY Zenon DEF EmitMarkers, LocalTypeOK
<1>4. barred' \in [Workers -> [Workers -> BOOLEAN]]
  <2>1. [r \in Workers |-> FALSE] \in [Workers -> BOOLEAN]
    OBVIOUS
  <2> QED
    BY <2>1, Zenon DEF EmitMarkers, PeerTypeOK
<1> QED
  BY <1>1, <1>2, <1>3, <1>4

\* The collected state and the buffered messages are network messages.
LEMMA FlushCollectedType ==
  ASSUME TypeOK, NEW w \in Workers, AcquireTargetKnown(w)
  PROVE  FlushCollected(w) \in [Links -> Seq(NetworkMessage)]
<1> USE DEF TypeOK
<1>1. CASE collecting[w] = NoKey
  BY <1>1 DEF FlushCollected, LinkTypeOK
<1>2. CASE collecting[w] # NoKey
  <2> DEFINE t == NewTarget(w, collecting[w])
             acquire == [kind |-> "Acquire", key |-> collecting[w], state |-> collected[w]]
             data == [i \in DOMAIN buffered[w] |->
                        [kind |-> "Data", data |-> buffered[w][i], version |-> version[w]]]
  <2>1. t \in Workers
    BY <1>2 DEF AcquireTargetKnown, PeerTypeOK
  <2>2. acquire \in NetworkMessage
    BY <1>2, MessageTypes DEF RouterTypeOK
  <2>3. data \in Seq(NetworkMessage)
    <3>1. buffered[w] \in Seq(DataMessage) /\ version[w] \in Nat
      BY DEF RouterTypeOK
    <3>2. DOMAIN buffered[w] = 1..Len(buffered[w]) /\ Len(buffered[w]) \in Nat
      BY <3>1, LenProperties
    <3>3. \A i \in 1..Len(buffered[w]) : buffered[w][i] \in DataMessage
      BY <3>1, ElementOfSeq
    <3>4. \A i \in 1..Len(buffered[w]) :
            [kind |-> "Data", data |-> buffered[w][i], version |-> version[w]] \in NetworkMessage
      BY <3>1, <3>3, MessageTypes
    <3>5. data \in [1..Len(buffered[w]) -> NetworkMessage]
      BY <3>2, <3>4
    <3> HIDE DEF data
    <3> QED
      BY <3>2, <3>5, SeqDef
  <2>4. <<w, t>> \in Links
    BY <2>1 DEF Links
  <2> HIDE DEF t, acquire, data
  <2>5. chan[<<w, t>>] \o <<acquire>> \o data \in Seq(NetworkMessage)
    <3>1. chan[<<w, t>>] \in Seq(NetworkMessage) /\ <<acquire>> \in Seq(NetworkMessage)
      BY <2>2, <2>4 DEF LinkTypeOK
    <3>2. chan[<<w, t>>] \o <<acquire>> \in Seq(NetworkMessage)
      BY <3>1, SeqFacts
    <3> QED
      BY <2>3, <3>2, SeqFacts
  <2>6. FlushCollected(w) = [chan EXCEPT ![<<w, t>>] = @ \o <<acquire>> \o data]
    BY <1>2 DEF FlushCollected, t, acquire, data
  <2> QED
    BY <2>4, <2>5, <2>6 DEF LinkTypeOK
<1> QED
  BY <1>1, <1>2

LEMMA RunTailType ==
  ASSUME TypeOK, NEW w \in Workers, RunTail(w) PROVE TypeOK'
<1> USE DEF TypeOK
<1>1. EmitMarkers(w) /\ turn' = Idle /\ UNCHANGED <<localFrontier, opVars, envVars, histVars>>
  BY DEF RunTail
<1>2. /\ localBarrier' \in [Workers -> BOOLEAN] /\ localShutdown' \in [Workers -> BOOLEAN]
      /\ suspended' \in [Workers -> BOOLEAN]
      /\ barred' \in [Workers -> [Workers -> BOOLEAN]]
  BY <1>1, EmitMarkersType
<1>3. \A t \in Seq(OperatorMessage) : out[w] \o MarkerOut(w) \o t \in Seq(OperatorMessage)
  <2>1. out[w] \o MarkerOut(w) \in Seq(OperatorMessage)
    BY MarkerOutType, SeqFacts DEF LinkTypeOK
  <2> QED
    BY <2>1, SeqFacts
<1>4. out[w] \o MarkerOut(w) \in Seq(OperatorMessage)
  BY MarkerOutType, SeqFacts DEF LinkTypeOK
<1> DEFINE Quiescent == out' = [out EXCEPT ![w] = @ \o MarkerOut(w)]
<1>5. Quiescent => out' \in [Workers -> Seq(OperatorMessage)]
  BY <1>4 DEF LinkTypeOK
<1> DEFINE Goal == /\ RouterTypeOK' /\ LinkTypeOK' /\ panicked' \in SUBSET Workers
                   /\ remotes' \in [Workers -> SUBSET Workers]
                   /\ UNCHANGED <<lastVersion, lastAck, sentSuspend, frontier>>
<1>6. ASSUME LifecycleStays(w) PROVE Goal
  <2>1. Quiescent /\ UNCHANGED <<routerVars, peerVars, sentSuspend, frontier, chan, panicked>>
    BY <1>6 DEF LifecycleStays
  <2>2. RouterTypeOK'
    BY <2>1, UnchangedTypes
  <2> QED
    BY <1>5, <2>1, <2>2 DEF LinkTypeOK, LocalTypeOK, PeerTypeOK, peerVars
<1>7. ASSUME InterrogateLifecycle(w) PROVE Goal
  <2>1. Quiescent /\ UNCHANGED <<peerVars, sentSuspend, frontier, chan, panicked>>
    BY <1>7 DEF InterrogateLifecycle
  <2>2. RouterTypeOK'
    BY <1>7 DEF InterrogateLifecycle, RouterTypeOK, Modes
  <2> QED
    BY <1>5, <2>1, <2>2 DEF LinkTypeOK, LocalTypeOK, PeerTypeOK, peerVars
<1>8. ASSUME CollectNextKey(w) PROVE Goal
  <2>1. PICK k \in whitelist[w] :
          /\ whitelist' = [whitelist EXCEPT ![w] = @ \ {k}]
          /\ collecting' = [collecting EXCEPT ![w] = k]
          /\ out' = [out EXCEPT ![w] = @ \o MarkerOut(w) \o <<[kind |-> "Collect", key |-> k]>>]
    BY <1>8 DEF CollectNextKey
  <2>2. /\ AcquireTargetKnown(w) /\ chan' = FlushCollected(w)
        /\ collected' = [collected EXCEPT ![w] = {}] /\ buffered' = [buffered EXCEPT ![w] = <<>>]
        /\ UNCHANGED <<mode, version, trigger, oldSet, newSet, peerVars, sentSuspend, frontier,
                       panicked>>
    BY <1>8 DEF CollectNextKey
  <2>3. k \in Keys
    BY DEF RouterTypeOK
  <2>4. RouterTypeOK'
    BY <2>1, <2>2, <2>3 DEF RouterTypeOK
  <2>5. <<[kind |-> "Collect", key |-> k]>> \in Seq(OperatorMessage)
    BY <2>3, MessageTypes
  <2>6. out' \in [Workers -> Seq(OperatorMessage)]
    BY <1>3, <2>1, <2>5 DEF LinkTypeOK
  <2> QED
    BY <2>2, <2>4, <2>6, FlushCollectedType DEF LinkTypeOK, LocalTypeOK, PeerTypeOK, peerVars
<1>9. ASSUME CollectLifecycleDone(w) PROVE Goal
  <2>1. /\ AcquireTargetKnown(w) /\ Quiescent
        /\ chan' = Broadcast(FlushCollected(w), w, [kind |-> "Upgrade", version |-> version[w]])
        /\ UNCHANGED <<peerVars, sentSuspend, frontier, panicked>>
    BY <1>9 DEF CollectLifecycleDone
  <2>2. RouterTypeOK'
    BY <1>9 DEF CollectLifecycleDone, RouterTypeOK, Modes
  <2>3. [kind |-> "Upgrade", version |-> version[w]] \in NetworkMessage
    BY MessageTypes DEF RouterTypeOK
  <2>4. chan' \in [Links -> Seq(NetworkMessage)]
    BY <2>1, <2>3, FlushCollectedType, LinkTypes
  <2> QED
    BY <1>5, <2>1, <2>2, <2>4 DEF LinkTypeOK, LocalTypeOK, PeerTypeOK, peerVars
<1>10. ASSUME CollectLifecyclePanics(w) PROVE Goal
  <2>1. Quiescent /\ panicked' = panicked \cup {w}
        /\ UNCHANGED <<routerVars, peerVars, sentSuspend, frontier, chan>>
    BY <1>10 DEF CollectLifecyclePanics
  <2>2. RouterTypeOK'
    BY <2>1, UnchangedTypes
  <2> QED
    BY <1>5, <2>1, <2>2 DEF LinkTypeOK, LocalTypeOK, PeerTypeOK, peerVars
<1>11. ASSUME FinishedLifecycle(w) PROVE Goal
  <2>1. /\ remotes' = [remotes EXCEPT ![w] = @ \ (oldSet[w] \ newSet[w])]
        /\ mode' = [mode EXCEPT ![w] = "Normal"]
        /\ oldSet' = [oldSet EXCEPT ![w] = newSet[w]]
        /\ out' = [out EXCEPT ![w] = @ \o MarkerOut(w) \o <<[kind |-> "Rescale"]>>]
        /\ UNCHANGED <<version, trigger, newSet, whitelist, collecting, collected, buffered,
                       lastVersion, lastAck, sentSuspend, frontier, chan, panicked>>
    BY <1>11 DEF FinishedLifecycle
  <2>2. RouterTypeOK'
    BY <2>1 DEF RouterTypeOK, Modes
  <2>3. <<[kind |-> "Rescale"]>> \in Seq(OperatorMessage)
    BY MessageTypes
  <2>4. out' \in [Workers -> Seq(OperatorMessage)]
    BY <1>3, <2>1, <2>3 DEF LinkTypeOK
  <2>5. remotes' \in [Workers -> SUBSET Workers]
    BY <2>1 DEF PeerTypeOK
  <2> QED
    BY <2>1, <2>2, <2>4, <2>5 DEF LinkTypeOK, LocalTypeOK
<1>12. Goal
  BY <1>6, <1>7, <1>8, <1>9, <1>10, <1>11 DEF RunTail
<1>13. PeerTypeOK'
  BY <1>2, <1>12 DEF PeerTypeOK
<1>14. LocalTypeOK'
  BY <1>1, <1>2, <1>12 DEF LocalTypeOK, Turns
<1> QED
  BY <1>1, <1>12, <1>13, <1>14, UnchangedTypes

LEMMA StatefulOpType ==
  ASSUME TypeOK, NEW w \in Workers, StatefulOp(w) PROVE TypeOK'
<1> USE DEF TypeOK
<1> DEFINE m == Head(out[w])
<1>1. /\ out' = [out EXCEPT ![w] = Tail(@)] /\ out[w] # <<>>
      /\ UNCHANGED <<mode, version, trigger, oldSet, newSet, collecting, buffered, peerVars,
                     remoteVars, localVars, chan, suspended, turn, panicked, envVars, nextId, cut>>
  BY DEF StatefulOp
<1>2. m \in OperatorMessage /\ Tail(out[w]) \in Seq(OperatorMessage)
  BY <1>1, SeqFacts DEF LinkTypeOK
<1>3. LinkTypeOK'
  BY <1>1, <1>2 DEF LinkTypeOK
<1> HIDE DEF m
<1> DEFINE Goal == /\ whitelist' \in [Workers -> SUBSET Keys] /\ collected' \in [Workers -> SUBSET Ids]
                   /\ OperatorTypeOK' /\ consumed' \in [Ids -> Nat]
<1>4. ASSUME StatefulData(w, m) PROVE Goal
  <2>1. m.data.key \in Keys /\ m.data.id \in Ids
    BY <1>2, <1>4, OperatorFields DEF StatefulData, DataMessage
  <2>2. opState' \in [Workers -> [Keys -> SUBSET Ids]]
    BY <1>4, <2>1 DEF StatefulData, OperatorTypeOK
  <2>3. consumed' \in [Ids -> Nat]
    BY <1>4, <2>1 DEF StatefulData, EnvTypeOK
  <2> QED
    BY <1>4, <2>2, <2>3 DEF StatefulData, OperatorTypeOK, RouterTypeOK
<1>5. ASSUME StatefulInterrogate(w, m) PROVE Goal
  BY <1>5 DEF StatefulInterrogate, OperatorTypeOK, RouterTypeOK, EnvTypeOK
<1>6. ASSUME StatefulCollect(w, m) PROVE Goal
  <2>1. m.key \in Keys
    BY <1>2, <1>6, OperatorFields DEF StatefulCollect
  <2> QED
    BY <1>6, <2>1 DEF StatefulCollect, OperatorTypeOK, RouterTypeOK, EnvTypeOK
<1>7. ASSUME StatefulAcquire(w, m) PROVE Goal
  <2>1. m.key \in Keys /\ m.state \in SUBSET Ids
    BY <1>2, <1>7, OperatorFields DEF StatefulAcquire
  <2>2. opState' \in [Workers -> [Keys -> SUBSET Ids]]
    BY <1>7, <2>1 DEF StatefulAcquire, OperatorTypeOK
  <2> QED
    BY <1>7, <2>2 DEF StatefulAcquire, OperatorTypeOK, RouterTypeOK, EnvTypeOK
<1>8. ASSUME StatefulBarrier(w, m) PROVE Goal
  <2>1. UNION {opState[w][k] : k \in Keys} \in SUBSET Ids
    BY DEF OperatorTypeOK
  <2>2. snapshot' \in [1..MaxBarriers -> [Workers -> SUBSET Ids]]
    BY <1>8, <2>1 DEF StatefulBarrier, OperatorTypeOK
  <2> QED
    BY <1>8, <2>2 DEF StatefulBarrier, OperatorTypeOK, RouterTypeOK, EnvTypeOK
<1>9. ASSUME StatefulEpoch(w, m) PROVE Goal
  <2>1. m.ts \in Nat
    BY <1>2, <1>9, OperatorFields DEF StatefulEpoch
  <2> QED
    BY <1>9, <2>1 DEF StatefulEpoch, OperatorTypeOK, RouterTypeOK, EnvTypeOK
<1>10. ASSUME StatefulForward(w, m) PROVE Goal
  BY <1>10, UnchangedTypes DEF StatefulForward, RouterTypeOK, EnvTypeOK, opVars
<1>11. Goal
  BY <1>4, <1>5, <1>6, <1>7, <1>8, <1>9, <1>10 DEF StatefulOp, m
<1>12. RouterTypeOK'
  BY <1>1, <1>11 DEF RouterTypeOK
<1>13. EnvTypeOK'
  BY <1>1, <1>11 DEF EnvTypeOK, envVars
<1> QED
  BY <1>1, <1>3, <1>11, <1>12, <1>13, UnchangedTypes

LEMMA StartRescaleType ==
  ASSUME TypeOK, StartRescale PROVE TypeOK'
<1> USE DEF TypeOK
<1> DEFINE joining == Scales[round + 1] \ alive
           all     == alive \cup joining
<1>1. /\ round < Len(Scales) /\ round' = round + 1 /\ alive' = all
      /\ newSet' = [w \in Workers |-> IF w \in joining THEN all ELSE newSet[w]]
      /\ oldSet' = [w \in Workers |-> IF w \in joining THEN all ELSE oldSet[w]]
      /\ remotes' = [w \in Workers |-> IF w \in joining THEN all \ {w} ELSE remotes[w]]
      /\ delivered' = [w \in Workers |-> IF w \in joining THEN round ELSE delivered[w]]
      /\ taken' = [w \in Workers |-> IF w \in joining THEN barrierRound ELSE taken[w]]
      /\ persisted' = [w \in Workers |-> IF w \in joining THEN barrierRound ELSE persisted[w]]
      /\ UNCHANGED <<mode, version, trigger, whitelist, collecting, collected, buffered,
                     lastVersion, lastAck, remoteVars, localVars, chan, out, suspended, opState,
                     opFrontier, snapshot, turn, panicked, barrierRound, suspending,
                     suspendTaken, histVars>>
  BY DEF StartRescale
<1>2. round \in Nat /\ round + 1 \in 1..Len(Scales) /\ barrierRound \in Nat
  BY <1>1, ScalesType, DistributorAssumption DEF EnvTypeOK
<1>3. all \subseteq Workers /\ (joining # {} => all \in WorkerSets)
  <2>1. Scales[round + 1] \subseteq Workers
    BY <1>2, ScalesType
  <2> QED
    BY <2>1 DEF EnvTypeOK, WorkerSets
<1> HIDE DEF joining, all
<1>4. RouterTypeOK'
  <2>1. newSet' \in [Workers -> WorkerSets] /\ oldSet' \in [Workers -> WorkerSets]
    BY <1>1, <1>3 DEF RouterTypeOK
  <2> QED
    BY <1>1, <2>1 DEF RouterTypeOK
<1>5. PeerTypeOK'
  <2>1. remotes' \in [Workers -> SUBSET Workers]
    BY <1>1, <1>3 DEF PeerTypeOK
  <2> QED
    BY <1>1, <2>1 DEF PeerTypeOK, remoteVars
<1>6. OperatorTypeOK'
  BY <1>1, <1>2 DEF OperatorTypeOK
<1>7. EnvTypeOK'
  <2>1. delivered' \in [Workers -> 0..Len(Scales)] /\ round' \in 0..Len(Scales)
    BY <1>1, <1>2, ScalesType DEF EnvTypeOK
  <2>2. taken' \in [Workers -> Nat] /\ alive' \in SUBSET Workers
    BY <1>1, <1>2, <1>3 DEF EnvTypeOK
  <2> QED
    BY <1>1, <2>1, <2>2 DEF EnvTypeOK, histVars
<1> QED
  BY <1>1, <1>4, <1>5, <1>6, <1>7, UnchangedTypes

LEMMA CoordinatorType ==
  ASSUME TypeOK, (\E w \in Workers : WorkerLeaves(w)) \/ StartSnapshot \/ StartSuspend
  PROVE  TypeOK'
<1> USE DEF TypeOK
<1>1. UNCHANGED <<routerVars, peerVars, remoteVars, localVars, chan, out, suspended, opVars,
                  turn, panicked, round, delivered, taken, suspendTaken, histVars>>
  BY DEF WorkerLeaves, StartSnapshot, StartSuspend
<1>2. alive' \in SUBSET Workers /\ barrierRound' \in 0..MaxBarriers
  <2>1. alive' \subseteq alive
    BY DEF WorkerLeaves, StartSnapshot, StartSuspend
  <2>2. \/ barrierRound' = barrierRound
        \/ barrierRound < MaxBarriers /\ barrierRound' = barrierRound + 1
    BY DEF WorkerLeaves, StartSnapshot, StartSuspend
  <2> QED
    BY <2>1, <2>2, DistributorAssumption DEF EnvTypeOK
<1>3. suspending' \in BOOLEAN
  BY DEF WorkerLeaves, StartSnapshot, StartSuspend, EnvTypeOK
<1>4. EnvTypeOK'
  BY <1>1, <1>2, <1>3 DEF EnvTypeOK, histVars
<1> QED
  BY <1>1, <1>4, UnchangedTypes

LEMMA NextType ==
  ASSUME TypeOK, PolledLinksFilled, [Next]_vars PROVE TypeOK'
<1>1. CASE UNCHANGED vars
  BY <1>1, UnchangedTypes DEF TypeOK, vars
<1>2. ASSUME NEW w \in Workers, WorkerStep(w) PROVE TypeOK'
  BY <1>2, BeginRunType, ReceiveRemoteType, NoLocalType, LocalDataType, LocalEpochType,
     LocalBarrierType, LocalSuspendType, LocalRescaleType, RunTailType, StatefulOpType,
     CoordinatorType DEF WorkerStep, RunStep, LocalControl
<1> QED
  BY <1>1, <1>2, StartRescaleType, CoordinatorType DEF Next

----------------------------------------------------------------------------
\* A run only receives what its links held when it polled them, and no step of
\* another worker comes in between.

LEMMA ReceivePreservesPolled ==
  ASSUME TypeOK, PolledLinksFilled, NEW w \in Workers, NEW r \in Workers, ReceiveRemote(w, r)
  PROVE  /\ PolledLinksFilled'
         /\ turn' = Idle \/ turn'.worker = turn.worker
<1> USE DEF TypeOK
<1> DEFINE m == Head(chan[<<r, w>>])
           rest == [turn EXCEPT !.poll = @ \ {r}]
<1>1. turn.worker = w /\ r \in turn.poll /\ turn.poll \subseteq Workers
  BY DEF ReceiveRemote, InRun, LocalTypeOK, Turns, Idle
<1>2. rest.worker = w /\ rest.poll = turn.poll \ {r}
  BY <1>1 DEF LocalTypeOK, Turns, Idle
<1>3. \A q \in rest.poll : <<q, w>> \in Links /\ <<q, w>> # <<r, w>> /\ chan[<<q, w>>] # <<>>
  BY <1>1, <1>2 DEF Links, PolledLinksFilled
<1>4. \A q \in rest.poll : Popped(r, w)[<<q, w>>] = chan[<<q, w>>]
  BY <1>3 DEF Popped, LinkTypeOK
<1>5. Popped(r, w) \in [Links -> Seq(NetworkMessage)]
  BY <1>1, LinkTypes, MessageTypes DEF LinkTypeOK, Popped, PolledLinksFilled
<1>6. \/ turn' = Idle
      \/ turn' = rest /\ \/ chan' = Popped(r, w)
                         \/ \E l \in Links : \E n : chan' = [Popped(r, w) EXCEPT ![l] = Append(@, n)]
  <2>1. CASE RemoteData(w, r, m)
    <3>1. HandleData(w, m.data, r, m.version, Popped(r, w), rest)
      BY <2>1 DEF RemoteData
    <3>2. turn' = Idle \/ turn' = rest
      BY <3>1 DEF HandleData
    <3>3. \/ chan' = Popped(r, w)
          \/ \E l \in Links : \E n : chan' = [Popped(r, w) EXCEPT ![l] = Append(@, n)]
      <4>1. CASE chan' = Popped(r, w)
        BY <4>1
      <4>2. CASE chan' # Popped(r, w)
        <5>1. RouteMessage(w, m.data.key, r, m.version) \in remotes[w]
          BY <3>1, <4>2 DEF HandleData
        <5>2. <<w, RouteMessage(w, m.data.key, r, m.version)>> \in Links
          BY <5>1 DEF PeerTypeOK, Links
        <5> QED
          BY <3>1, <5>1, <5>2 DEF HandleData
      <4> QED
        BY <4>1, <4>2
    <3> QED
      BY <3>2, <3>3
  <2>2. CASE ~RemoteData(w, r, m)
    <3>1. <<w, r>> \in Links
      BY DEF Links
    <3>2. turn' = rest
      BY <2>2 DEF ReceiveRemote
    <3>3. \/ chan' = Popped(r, w)
          \/ chan' = [Popped(r, w) EXCEPT ![<<w, r>>] =
                        Append(@, [kind |-> "AckUpgrade", version |-> m.version])]
      BY <2>2 DEF ReceiveRemote
    <3> QED
      BY <3>1, <3>2, <3>3
  <2> QED
    BY <2>1, <2>2
<1> HIDE DEF m, rest
<1>7. CASE turn' = Idle
  BY <1>7 DEF PolledLinksFilled, Idle
<1>8. CASE turn' = rest /\ chan' = Popped(r, w)
  BY <1>1, <1>2, <1>3, <1>4, <1>8 DEF PolledLinksFilled
<1>9. ASSUME turn' = rest, NEW l \in Links, NEW n, chan' = [Popped(r, w) EXCEPT ![l] = Append(@, n)]
      PROVE  PolledLinksFilled'
  <2>1. ASSUME NEW q \in rest.poll PROVE chan'[<<q, w>>] # <<>>
    <3>1. Popped(r, w)[<<q, w>>] \in Seq(NetworkMessage) /\ Popped(r, w)[<<q, w>>] # <<>>
      BY <1>3, <1>4, <1>5
    <3>2. Popped(r, w)[<<q, w>>] \in Seq(NetworkMessage \cup {n})
      BY <3>1, SeqDef
    <3>3. Append(Popped(r, w)[<<q, w>>], n) # <<>>
      BY <3>2, AppendProperties
    <3> QED
      BY <1>3, <1>5, <1>9, <3>1, <3>3
  <2> QED
    BY <1>1, <1>2, <1>9, <2>1 DEF PolledLinksFilled
<1> QED
  BY <1>1, <1>2, <1>6, <1>7, <1>8, <1>9

LEMMA NextRun ==
  ASSUME TypeOK, PolledLinksFilled, RunIsAlive, [Next]_vars
  PROVE  PolledLinksFilled' /\ RunIsAlive'
<1> USE DEF TypeOK
<1>1. CASE UNCHANGED vars
  BY <1>1 DEF vars, envVars, PolledLinksFilled, RunIsAlive
<1>2. ASSUME turn = Idle, turn' = Idle PROVE PolledLinksFilled' /\ RunIsAlive'
  BY <1>2 DEF PolledLinksFilled, RunIsAlive, Idle
<1>3. ASSUME NEW w \in Workers, BeginRun(w) PROVE PolledLinksFilled' /\ RunIsAlive'
  <2>1. /\ turn' \in [worker : {w}, stage : {"recv"}, poll : SUBSET Pollable(w)]
        /\ w \in alive /\ UNCHANGED <<chan, alive>>
    BY <1>3 DEF BeginRun, envVars
  <2> QED
    BY <2>1 DEF PolledLinksFilled, RunIsAlive, Pollable
<1>4. ASSUME NEW w \in Workers, NEW r \in Workers, ReceiveRemote(w, r)
      PROVE  PolledLinksFilled' /\ RunIsAlive'
  <2>1. turn # Idle
    BY <1>4 DEF ReceiveRemote, Idle
  <2>2. UNCHANGED alive
    BY <1>4 DEF ReceiveRemote, RemoteData, envVars
  <2> QED
    BY <1>4, <2>1, <2>2, ReceivePreservesPolled DEF RunIsAlive
<1>5. ASSUME NEW w \in Workers, AtLocal(w), turn' = ToTail \/ turn' = Idle, UNCHANGED alive
      PROVE  PolledLinksFilled' /\ RunIsAlive'
  <2>1. turn.worker = w /\ turn.poll = {} /\ turn # Idle
    BY <1>5, DistributorAssumption DEF AtLocal, InRun, Idle
  <2>2. turn' = Idle \/ (turn'.poll = {} /\ turn'.worker = turn.worker)
    BY <1>5, <2>1 DEF ToTail, LocalTypeOK, Turns
  <2> QED
    BY <1>5, <2>1, <2>2 DEF PolledLinksFilled, RunIsAlive, Idle
<1>6. ASSUME NEW w \in Workers, NoLocal(w) \/ LocalData(w) \/ LocalEpoch(w) \/ LocalControl(w)
      PROVE  PolledLinksFilled' /\ RunIsAlive'
  <2>1. AtLocal(w) /\ UNCHANGED alive
    BY <1>6 DEF NoLocal, LocalData, LocalEpoch, LocalControl, LocalBarrier, LocalSuspend,
       LocalRescale, MayReceiveLocal, envVars
  <2>2. turn' = ToTail \/ turn' = Idle
    BY <1>6 DEF NoLocal, LocalData, HandleData, LocalEpoch, LocalControl, LocalBarrier,
       LocalSuspend, LocalRescale
  <2> QED
    BY <1>5, <2>1, <2>2
<1>7. ASSUME NEW w \in Workers, RunTail(w) PROVE PolledLinksFilled' /\ RunIsAlive'
  BY <1>7 DEF RunTail, PolledLinksFilled, RunIsAlive, Idle
<1>8. ASSUME NEW w \in Workers, StatefulOp(w) \/ WorkerLeaves(w)
      PROVE  PolledLinksFilled' /\ RunIsAlive'
  BY <1>2, <1>8 DEF StatefulOp, WorkerLeaves
<1>9. CASE StartRescale \/ StartSnapshot \/ StartSuspend
  BY <1>2, <1>9 DEF StartRescale, StartSnapshot, StartSuspend
<1> QED
  BY <1>1, <1>3, <1>4, <1>6, <1>7, <1>8, <1>9 DEF Next, WorkerStep, RunStep

----------------------------------------------------------------------------
\* The versions that the Upgrade messages of a link announce.

LEMMA UpgradesAppend ==
  ASSUME NEW s \in Seq(NetworkMessage), NEW m \in NetworkMessage
  PROVE  /\ Upgrades(Append(s, m)) \subseteq
              Upgrades(s) \cup (IF m.kind = "Upgrade" THEN {m.version} ELSE {})
  BY AppendProperties DEF Upgrades

LEMMA UpgradesTail ==
  ASSUME NEW s \in Seq(NetworkMessage), s # <<>>
  PROVE  /\ Upgrades(Tail(s)) \subseteq Upgrades(s)
         /\ Head(s).kind = "Upgrade" => Head(s).version \in Upgrades(s)
  BY HeadTailProperties DEF Upgrades

LEMMA UpgradesConcat ==
  ASSUME NEW s \in Seq(NetworkMessage), NEW t \in Seq(NetworkMessage),
         \A n \in DOMAIN t : t[n].kind # "Upgrade"
  PROVE  Upgrades(s \o t) \subseteq Upgrades(s)
  BY ConcatProperties DEF Upgrades

LEMMA UpgradesType ==
  ASSUME LinkTypeOK, NEW l \in Links PROVE Upgrades(chan[l]) \subseteq Nat
<1>1. \A n \in DOMAIN chan[l] : chan[l][n] \in NetworkMessage
  BY DEF LinkTypeOK
<1> QED
  BY <1>1, NetworkFields DEF Upgrades

\* Sending and receiving other messages announces nothing new.
LEMMA UpgradesLinks ==
  ASSUME NEW c \in [Links -> Seq(NetworkMessage)], NEW w \in Workers, NEW r \in Workers,
         NEW m \in NetworkMessage, m.kind # "Upgrade"
  PROVE  /\ \A l \in Links : Upgrades([c EXCEPT ![<<w, r>>] = Append(@, m)][l]) \subseteq Upgrades(c[l])
         /\ \A l \in Links : Upgrades(Broadcast(c, w, m)[l]) \subseteq Upgrades(c[l])
         /\ c[<<r, w>>] # <<>> =>
              \A l \in Links : Upgrades([c EXCEPT ![<<r, w>>] = Tail(@)][l]) \subseteq Upgrades(c[l])
<1>1. \A l \in Links : c[l] \in Seq(NetworkMessage) /\ Upgrades(Append(c[l], m)) \subseteq Upgrades(c[l])
  BY UpgradesAppend
<1>2. \A l \in Links : c[l] # <<>> => Upgrades(Tail(c[l])) \subseteq Upgrades(c[l])
  BY <1>1, UpgradesTail
<1> QED
  BY <1>1, <1>2 DEF Broadcast

\* What a collection sends is state and data.
LEMMA UpgradesFlush ==
  ASSUME TypeOK, NEW w \in Workers, AcquireTargetKnown(w), NEW l \in Links
  PROVE  Upgrades(FlushCollected(w)[l]) \subseteq Upgrades(chan[l])
<1> USE DEF TypeOK
<1>1. CASE collecting[w] = NoKey
  BY <1>1 DEF FlushCollected
<1>2. CASE collecting[w] # NoKey
  <2> DEFINE t == NewTarget(w, collecting[w])
             acquire == [kind |-> "Acquire", key |-> collecting[w], state |-> collected[w]]
             data == [i \in DOMAIN buffered[w] |->
                        [kind |-> "Data", data |-> buffered[w][i], version |-> version[w]]]
  <2>1. chan[l] \in Seq(NetworkMessage) /\ <<acquire>> \in Seq(NetworkMessage)
    <3>1. acquire \in NetworkMessage
      BY <1>2, MessageTypes DEF RouterTypeOK
    <3> QED
      BY <3>1 DEF LinkTypeOK
  <2>2. data \in Seq(NetworkMessage) /\ \A n \in DOMAIN data : data[n].kind # "Upgrade"
    <3>1. buffered[w] \in Seq(DataMessage) /\ version[w] \in Nat
      BY DEF RouterTypeOK
    <3>2. DOMAIN buffered[w] = 1..Len(buffered[w]) /\ Len(buffered[w]) \in Nat
      BY <3>1, LenProperties
    <3>3. \A i \in 1..Len(buffered[w]) : buffered[w][i] \in DataMessage
      BY <3>1, ElementOfSeq
    <3>4. \A i \in 1..Len(buffered[w]) :
            [kind |-> "Data", data |-> buffered[w][i], version |-> version[w]] \in NetworkMessage
      BY <3>1, <3>3, MessageTypes
    <3>5. data \in [1..Len(buffered[w]) -> NetworkMessage] /\ \A n \in DOMAIN data : data[n].kind = "Data"
      BY <3>2, <3>4
    <3> HIDE DEF data
    <3> QED
      BY <3>2, <3>5, SeqDef
  <2>3. \A n \in DOMAIN <<acquire>> : <<acquire>>[n].kind # "Upgrade"
    OBVIOUS
  <2> HIDE DEF acquire, data
  <2>4. chan[l] \o <<acquire>> \in Seq(NetworkMessage)
        /\ Upgrades(chan[l] \o <<acquire>>) \subseteq Upgrades(chan[l])
    BY <2>1, <2>3, UpgradesConcat, SeqFacts
  <2>5. Upgrades(chan[l] \o <<acquire>> \o data) \subseteq Upgrades(chan[l])
    BY <2>2, <2>4, UpgradesConcat
  <2>6. FlushCollected(w)[l] = chan[l] \/ FlushCollected(w)[l] = chan[l] \o <<acquire>> \o data
    <3>1. FlushCollected(w) = [chan EXCEPT ![<<w, t>>] = @ \o <<acquire>> \o data]
      BY <1>2 DEF FlushCollected, acquire, data
    <3> QED
      BY <3>1 DEF LinkTypeOK
  <2> QED
    BY <2>5, <2>6
<1> QED
  BY <1>1, <1>2

\* A reconfiguration that is behind a worker stays behind it.
LEMMA CollectedForStable ==
  ASSUME NEW r, NEW i \in Int, CollectedFor(r, i),
         delivered[r] \in Int, delivered'[r] \in Int, delivered'[r] >= delivered[r],
         /\ delivered'[r] = delivered[r] /\ mode[r] \in {"Finished", "Normal"}
            => mode'[r] \in {"Finished", "Normal"}
  PROVE  CollectedFor(r, i)'
  BY DEF CollectedFor

\* Every step keeps what is behind a worker behind it, as long as delivered
\* does not go back and no finished router goes back to collecting.
LEMMA AnnouncementsStayTrue ==
  ASSUME TypeOK, TypeOK', UpgradesAreTrue, LastVersionsAreTrue, NormalIsSettled,
         \A r \in Workers : delivered'[r] >= delivered[r],
         \A r \in Workers : delivered'[r] = delivered[r] /\ mode[r] \in {"Finished", "Normal"}
                              => mode'[r] \in {"Finished", "Normal"}
  PROVE  /\ \A r, w \in Workers : \A v \in Upgrades(chan[<<r, w>>]) : CollectedFor(r, RoundOf(v))'
         /\ \A w, r \in Workers : \A v \in Nat : lastVersion[w][r] = v => CollectedFor(r, RoundOf(v))'
         /\ \A w \in Workers : \A r \in remotes[w] : \A i \in Nat :
              mode[w] = "Normal" /\ delivered[w] = i /\ i > 0 => CollectedFor(r, i)'
<1> USE DEF TypeOK
<1>1. \A r \in Workers : delivered[r] \in Int /\ delivered'[r] \in Int /\ delivered[r] \in Nat
  BY ScalesType DEF EnvTypeOK
<1>2. \A r \in Workers : \A i \in Int : CollectedFor(r, i) => CollectedFor(r, i)'
  BY <1>1, CollectedForStable
<1>3. \A v \in Nat : RoundOf(v) \in Int
  BY DistributorAssumption DEF RoundOf
<1>4. \A v \in Nat : RoundOf(v)' = RoundOf(v)
  BY DEF RoundOf
<1>5. ASSUME NEW r \in Workers, NEW w \in Workers, NEW v \in Upgrades(chan[<<r, w>>])
      PROVE  CollectedFor(r, RoundOf(v))'
  <2>1. v \in Nat
    BY <1>5, UpgradesType DEF Links
  <2>2. CollectedFor(r, RoundOf(v))
    BY <1>5 DEF UpgradesAreTrue
  <2>3. PICK i \in Int : i = RoundOf(v)
    BY <1>3, <2>1
  <2> QED
    BY <1>2, <2>2, <2>3 DEF CollectedFor, RoundOf
<1>6. ASSUME NEW w \in Workers, NEW r \in Workers, NEW v \in Nat, lastVersion[w][r] = v
      PROVE  CollectedFor(r, RoundOf(v))'
  <2>1. CollectedFor(r, RoundOf(v))
    BY <1>6 DEF LastVersionsAreTrue, NoVersion
  <2>2. PICK i \in Int : i = RoundOf(v)
    BY <1>3
  <2> QED
    BY <1>2, <2>1, <2>2 DEF CollectedFor, RoundOf
<1>7. ASSUME NEW w \in Workers, NEW r \in remotes[w], NEW i \in Nat,
             mode[w] = "Normal", delivered[w] = i, i > 0
      PROVE  CollectedFor(r, i)'
  <2>1. CollectedFor(r, i)
    BY <1>7 DEF NormalIsSettled
  <2>2. r \in Workers
    BY DEF PeerTypeOK
  <2> QED
    BY <1>2, <2>1, <2>2
<1> QED
  BY <1>5, <1>6, <1>7

\* A step that neither reconfigures anything nor announces anything new.
Calm ==
  /\ UNCHANGED <<mode, version, trigger, delivered, round, alive, remotes, lastVersion>>
  /\ \A l \in Links : Upgrades(chan'[l]) \subseteq Upgrades(chan[l])

LEMMA CalmCore ==
  ASSUME RescaleCore, Calm PROVE RescaleCore'
<1> USE DEF RescaleCore, Calm
<1>1. DeliveredBehind' /\ GoneIsNormal' /\ MovesForLastRound'
  BY DEF DeliveredBehind, GoneIsNormal, MovesForLastRound
<1>2. VersionIsRound'
  BY DEF VersionIsRound, RoundOf
<1>3. UpgradesAreTrue'
  BY DEF UpgradesAreTrue, CollectedFor, RoundOf, Links
<1>4. LastVersionsAreTrue' /\ NormalIsSettled'
  BY DEF LastVersionsAreTrue, NormalIsSettled, CollectedFor, RoundOf
<1> QED
  BY <1>1, <1>2, <1>3, <1>4

LEMMA HandleDataCalm ==
  ASSUME TypeOK, NEW w \in Workers, NEW d \in DataMessage, NEW sender, NEW v,
         NEW c \in [Links -> Seq(NetworkMessage)], NEW next, HandleData(w, d, sender, v, c, next)
  PROVE  /\ \A l \in Links : Upgrades(chan'[l]) \subseteq Upgrades(c[l])
         /\ UNCHANGED <<mode, version, trigger>>
<1> USE DEF TypeOK
<1> DEFINE target == RouteMessage(w, d.key, sender, v)
           m == [kind |-> "Data", data |-> d, version |-> version[w]]
<1>1. m \in NetworkMessage /\ m.kind # "Upgrade"
  BY MessageTypes DEF RouterTypeOK
<1>2. chan' = c \/ (target \in remotes[w] /\ chan' = [c EXCEPT ![<<w, target>>] = Append(@, m)])
  BY DEF HandleData
<1>3. target \in remotes[w] => target \in Workers
  BY DEF PeerTypeOK
<1>4. UNCHANGED <<mode, version, trigger>>
  BY DEF HandleData
<1> HIDE DEF m, target
<1> QED
  BY <1>1, <1>2, <1>3, <1>4, UpgradesLinks

LEMMA ReceiveCore ==
  ASSUME TypeOK, TypeOK', PolledLinksFilled, RescaleCore, NEW w \in Workers, NEW r \in Workers,
         ReceiveRemote(w, r)
  PROVE  RescaleCore'
<1> USE DEF TypeOK
<1> DEFINE m == Head(chan[<<r, w>>])
<1>1. chan[<<r, w>>] # <<>> /\ <<r, w>> \in Links /\ <<w, r>> \in Links
  BY DEF ReceiveRemote, InRun, PolledLinksFilled, Links
<1>2. m \in NetworkMessage /\ Popped(r, w) \in [Links -> Seq(NetworkMessage)]
  BY <1>1, LinkTypes, MessageTypes DEF LinkTypeOK, Popped
<1>3. /\ \A l \in Links : Upgrades(Popped(r, w)[l]) \subseteq Upgrades(chan[l])
      /\ m.kind = "Upgrade" => m.version \in Upgrades(chan[<<r, w>>])
  <2>1. \A l \in Links : chan[l] \in Seq(NetworkMessage)
    BY DEF LinkTypeOK
  <2> QED
    BY <1>1, <2>1, UpgradesTail DEF Popped, LinkTypeOK
<1> HIDE DEF m
<1>4. CASE RemoteData(w, r, m)
  <2>1. m.data \in DataMessage
    BY <1>2, <1>4, NetworkFields DEF RemoteData
  <2>2. /\ \A l \in Links : Upgrades(chan'[l]) \subseteq Upgrades(Popped(r, w)[l])
        /\ UNCHANGED <<mode, version, trigger>>
    BY <1>2, <1>4, <2>1, HandleDataCalm DEF RemoteData
  <2>3. Calm
    BY <1>3, <1>4, <2>2 DEF RemoteData, Calm, peerVars, envVars
  <2> QED
    BY <2>3, CalmCore
<1>5. CASE ~RemoteData(w, r, m)
  <2>1. /\ chan' = IF m.kind = "Upgrade"
                   THEN [Popped(r, w) EXCEPT ![<<w, r>>] =
                           Append(@, [kind |-> "AckUpgrade", version |-> m.version])]
                   ELSE Popped(r, w)
        /\ UNCHANGED <<mode, version, trigger, delivered, round, alive>>
    BY <1>5 DEF ReceiveRemote, m, routerVars, envVars
  <2>2. /\ UNCHANGED remotes
        /\ \/ UNCHANGED lastVersion
           \/ m.kind = "Upgrade" /\ lastVersion' = [lastVersion EXCEPT ![w][r] = m.version]
    BY <1>5 DEF ReceiveRemote, m, RemoteEpoch, RemoteMarker, RemoteAcquire, RemoteUpgrade,
       RemoteAckUpgrade, peerVars
  <2>3. \A l \in Links : Upgrades(chan'[l]) \subseteq Upgrades(chan[l])
    <3>1. CASE m.kind = "Upgrade"
      <4>1. [kind |-> "AckUpgrade", version |-> m.version] \in NetworkMessage
        BY <1>2, <3>1, NetworkFields, MessageTypes
      <4>2. \A l \in Links : Upgrades(chan'[l]) \subseteq Upgrades(Popped(r, w)[l])
        BY <1>2, <2>1, <3>1, <4>1, UpgradesLinks
      <4> QED
        BY <1>3, <4>2
    <3>2. CASE m.kind # "Upgrade"
      BY <1>3, <2>1, <3>2
    <3> QED
      BY <3>1, <3>2
  <2>4. CASE UNCHANGED lastVersion
    BY <2>1, <2>2, <2>3, <2>4, CalmCore DEF Calm
  <2>5. CASE m.kind = "Upgrade" /\ lastVersion' = [lastVersion EXCEPT ![w][r] = m.version]
    <3> USE DEF RescaleCore
    <3>1. DeliveredBehind' /\ GoneIsNormal' /\ MovesForLastRound' /\ VersionIsRound'
      BY <2>1 DEF DeliveredBehind, GoneIsNormal, MovesForLastRound, VersionIsRound, RoundOf
    <3>2. UpgradesAreTrue' /\ NormalIsSettled'
      BY <2>1, <2>2, <2>3 DEF UpgradesAreTrue, NormalIsSettled, CollectedFor, RoundOf, Links
    <3>3. CollectedFor(r, RoundOf(m.version))
      BY <1>3, <2>5 DEF UpgradesAreTrue
    <3>4. LastVersionsAreTrue'
      <4>1. SUFFICES ASSUME NEW u \in Workers, NEW q \in Workers, lastVersion'[u][q] # NoVersion
                     PROVE  CollectedFor(q, RoundOf(lastVersion'[u][q]))
        BY <2>1 DEF LastVersionsAreTrue, CollectedFor, RoundOf
      <4>2. CASE u = w /\ q = r
        <5>1. lastVersion'[u][q] = m.version
          BY <2>5, <4>2 DEF PeerTypeOK
        <5> QED
          BY <3>3, <4>2, <5>1
      <4>3. CASE ~(u = w /\ q = r)
        <5>1. lastVersion'[u][q] = lastVersion[u][q]
          BY <2>5, <4>3 DEF PeerTypeOK
        <5> QED
          BY <4>1, <5>1 DEF LastVersionsAreTrue
      <4> QED
        BY <4>2, <4>3
    <3> QED
      BY <3>1, <3>2, <3>4
  <2> QED
    BY <2>2, <2>4, <2>5
<1> QED
  BY <1>4, <1>5

LEMMA LocalCore ==
  ASSUME TypeOK, RescaleCore, NEW w \in Workers,
         NoLocal(w) \/ LocalData(w) \/ LocalEpoch(w) \/ LocalBarrier(w) \/ LocalSuspend(w)
  PROVE  RescaleCore'
<1> USE DEF TypeOK
<1>1. CASE NoLocal(w)
  BY <1>1, CalmCore DEF NoLocal, Calm, routerVars, peerVars, envVars
<1>2. CASE LocalData(w)
  <2>1. PICK k \in Keys, ts \in (localFrontier[w] + 1)..(MaxEpoch + 1) :
          HandleData(w, [key |-> k, id |-> nextId, ts |-> ts], w, NoVersion, chan, ToTail)
    BY <1>2 DEF LocalData
  <2>2. [key |-> k, id |-> nextId, ts |-> ts] \in DataMessage
    <3>1. nextId \in Ids
      BY <1>2, DistributorAssumption DEF LocalData, Ids, EnvTypeOK
    <3>2. ts \in Nat \ {NoTime}
      BY DistributorAssumption DEF NoTime, LocalTypeOK
    <3> QED
      BY <3>1, <3>2 DEF DataMessage
  <2>3. Calm
    BY <1>2, <2>1, <2>2, HandleDataCalm DEF LocalData, LinkTypeOK, Calm, peerVars, envVars
  <2> QED
    BY <2>3, CalmCore
<1>3. ASSUME NEW m \in NetworkMessage, m.kind # "Upgrade", chan' = Broadcast(chan, w, m),
             UNCHANGED <<mode, version, trigger, delivered, round, alive, remotes, lastVersion>>
      PROVE  RescaleCore'
  BY <1>3, UpgradesLinks, CalmCore DEF Calm, LinkTypeOK
<1>4. CASE LocalEpoch(w)
  <2>1. PICK e \in (localFrontier[w] + 1)..MaxEpoch :
          chan' = Broadcast(chan, w, [kind |-> "Epoch", ts |-> e])
    BY <1>4 DEF LocalEpoch
  <2>2. [kind |-> "Epoch", ts |-> e] \in NetworkMessage
    <3>1. e \in Nat \ {NoTime}
      BY DistributorAssumption DEF NoTime, LocalTypeOK
    <3> QED
      BY <3>1, MessageTypes
  <2>3. UNCHANGED <<mode, version, trigger, delivered, round, alive, remotes, lastVersion>>
    BY <1>4 DEF LocalEpoch, routerVars, peerVars, envVars
  <2> QED
    BY <1>3, <2>1, <2>2, <2>3
<1>5. CASE LocalBarrier(w)
  BY <1>3, <1>5, MessageTypes DEF LocalBarrier, routerVars, peerVars
<1>6. CASE LocalSuspend(w)
  BY <1>3, <1>6, MessageTypes DEF LocalSuspend, routerVars, peerVars
<1> QED
  BY <1>1, <1>2, <1>4, <1>5, <1>6

\* A worker takes the Rescale message of the last round: it was Normal.
LEMMA LocalRescaleCore ==
  ASSUME TypeOK, TypeOK', RunIsAlive, RescaleCore, NEW w \in Workers, LocalRescale(w)
  PROVE  RescaleCore'
<1> USE DEF TypeOK, RescaleCore
<1>1. /\ AtLocal(w) /\ delivered[w] < round
      /\ remotes' = [remotes EXCEPT ![w] = @ \cup (Scales[round] \ {w})]
      /\ lastVersion' = Fresh(w, lastVersion, NoVersion)
      /\ delivered' = [delivered EXCEPT ![w] = round]
      /\ UNCHANGED <<version, chan, alive, round>>
  BY DEF LocalRescale, MayReceiveLocal
<1>2. round \in Nat /\ round > 0 /\ delivered[w] \in Nat
  BY <1>1, ScalesType DEF EnvTypeOK
<1>3. mode[w] = "Normal"
  BY <1>1, <1>2 DEF MovesForLastRound
<1>4. mode' = [mode EXCEPT ![w] = "Interrogate"]
      /\ trigger' = [trigger EXCEPT ![w] = FirstVersion + round - 1]
  BY <1>3 DEF LocalRescale
<1>5. w \in alive
  BY <1>1, DistributorAssumption DEF RunIsAlive, AtLocal, InRun, Idle
<1>6. \A r \in Workers : r # w => mode'[r] = mode[r] /\ delivered'[r] = delivered[r]
                                  /\ trigger'[r] = trigger[r] /\ remotes'[r] = remotes[r]
  BY <1>1, <1>4 DEF RouterTypeOK, PeerTypeOK, EnvTypeOK
<1>7. mode'[w] = "Interrogate" /\ delivered'[w] = round /\ trigger'[w] = FirstVersion + round - 1
  BY <1>1, <1>4 DEF RouterTypeOK, EnvTypeOK
<1>8. \A r \in Workers : delivered[r] \in Nat /\ delivered'[r] \in Nat
  BY ScalesType DEF EnvTypeOK
<1>9. /\ \A r \in Workers : delivered'[r] >= delivered[r]
      /\ \A r \in Workers : delivered'[r] = delivered[r] /\ mode[r] \in {"Finished", "Normal"}
                              => mode'[r] \in {"Finished", "Normal"}
  BY <1>1, <1>2, <1>6, <1>7, <1>8
<1>10. /\ \A r, u \in Workers : \A v \in Upgrades(chan[<<r, u>>]) : CollectedFor(r, RoundOf(v))'
       /\ \A u, r \in Workers : \A v \in Nat : lastVersion[u][r] = v => CollectedFor(r, RoundOf(v))'
       /\ \A u \in Workers : \A r \in remotes[u] : \A i \in Nat :
            mode[u] = "Normal" /\ delivered[u] = i /\ i > 0 => CollectedFor(r, i)'
  BY <1>9, AnnouncementsStayTrue
<1>11. DeliveredBehind' /\ GoneIsNormal' /\ MovesForLastRound'
  BY <1>1, <1>2, <1>5, <1>6, <1>7 DEF DeliveredBehind, GoneIsNormal, MovesForLastRound
<1>12. VersionIsRound'
  <2>1. RoundOf(FirstVersion + round - 1) = round
    BY <1>2, DistributorAssumption DEF RoundOf
  <2> QED
    BY <1>1, <1>6, <1>7, <2>1 DEF VersionIsRound, RoundOf
<1>13. UpgradesAreTrue'
  BY <1>1, <1>10 DEF UpgradesAreTrue
<1>14. LastVersionsAreTrue'
  <2>1. ASSUME NEW u \in Workers, NEW r \in Workers, lastVersion'[u][r] # NoVersion
        PROVE  CollectedFor(r, RoundOf(lastVersion[u][r]))'
    <3>1. lastVersion'[u][r] = NoVersion \/ lastVersion'[u][r] = lastVersion[u][r]
      BY <1>1 DEF Fresh, PeerTypeOK
    <3>2. lastVersion[u][r] \in Nat
      BY <2>1, <3>1 DEF PeerTypeOK
    <3>3. PICK v \in Nat : v = lastVersion[u][r] /\ v = lastVersion'[u][r]
      BY <2>1, <3>1, <3>2
    <3>4. CollectedFor(r, RoundOf(v))'
      BY <1>10, <3>3
    <3> QED
      BY <3>3, <3>4 DEF CollectedFor, RoundOf
  <2> QED
    BY <2>1 DEF LastVersionsAreTrue, CollectedFor, RoundOf
<1>15. NormalIsSettled'
  <2>1. ASSUME NEW u \in Workers, NEW r \in remotes'[u], mode'[u] = "Normal", delivered'[u] > 0
        PROVE  CollectedFor(r, delivered[u])'
    <3>1. u # w
      BY <1>7, <2>1
    <3>2. mode[u] = "Normal" /\ delivered'[u] = delivered[u] /\ r \in remotes[u]
      BY <1>6, <2>1, <3>1
    <3>3. PICK i \in Nat : i = delivered[u]
      BY <1>8
    <3>4. CollectedFor(r, i)'
      BY <1>10, <2>1, <3>2, <3>3
    <3> QED
      BY <3>2, <3>3, <3>4 DEF CollectedFor
  <2> QED
    BY <2>1 DEF NormalIsSettled
<1> QED
  BY <1>11, <1>12, <1>13, <1>14, <1>15

\* The only new announcement is that w has finished the round delivered to it.
AnnouncesRound(w) ==
  \A r, u \in Workers : \A v \in Upgrades(chan'[<<r, u>>]) :
     v \in Upgrades(chan[<<r, u>>]) \/ (r = w /\ RoundOf(v) = delivered[w])

\* A mode change of the router of one worker that keeps delivered, and goes
\* forward from Interrogate to Normal.
LEMMA RouterForward ==
  ASSUME TypeOK, TypeOK', RescaleCore, NEW w \in Workers,
         UNCHANGED <<trigger, delivered, round, alive, lastVersion>>,
         \A u \in Workers : remotes'[u] \subseteq remotes[u],
         NEW next \in Modes, mode' = [mode EXCEPT ![w] = next], w \in alive, mode[w] # "Normal",
         mode[w] = "Finished" => next = "Normal", next # "Interrogate",
         \A u \in Workers : u # w => version'[u] = version[u],
         next \in {"Collect", "Finished"} => RoundOf(version'[w]) = delivered[w],
         UNCHANGED chan \/ (next = "Finished" /\ AnnouncesRound(w)),
         next = "Normal" => \A r \in remotes'[w] : lastVersion[w][r] = version[w] /\ mode[w] = "Finished"
  PROVE  RescaleCore'
<1> USE DEF TypeOK, RescaleCore
<1>1. \A r \in Workers : r # w => mode'[r] = mode[r]
  BY DEF RouterTypeOK
<1>2. mode'[w] = next
  BY DEF RouterTypeOK
<1>3. /\ \A r \in Workers : delivered'[r] >= delivered[r]
      /\ \A r \in Workers : delivered'[r] = delivered[r] /\ mode[r] \in {"Finished", "Normal"}
                              => mode'[r] \in {"Finished", "Normal"}
  BY <1>1, <1>2, ScalesType DEF EnvTypeOK
<1>4. /\ \A r, u \in Workers : \A v \in Upgrades(chan[<<r, u>>]) : CollectedFor(r, RoundOf(v))'
      /\ \A u, r \in Workers : \A v \in Nat : lastVersion[u][r] = v => CollectedFor(r, RoundOf(v))'
      /\ \A u \in Workers : \A r \in remotes[u] : \A i \in Nat :
           mode[u] = "Normal" /\ delivered[u] = i /\ i > 0 => CollectedFor(r, i)'
  BY <1>3, AnnouncementsStayTrue
<1>5. DeliveredBehind' /\ GoneIsNormal' /\ MovesForLastRound'
  BY <1>1, <1>2 DEF DeliveredBehind, GoneIsNormal, MovesForLastRound
<1>6. VersionIsRound'
  BY <1>1, <1>2 DEF VersionIsRound, RoundOf
<1>7. UpgradesAreTrue'
  <2>1. ASSUME NEW r \in Workers, NEW u \in Workers, NEW v \in Upgrades(chan'[<<r, u>>])
        PROVE  CollectedFor(r, RoundOf(v))'
    <3>1. CASE v \in Upgrades(chan[<<r, u>>])
      BY <1>4, <3>1
    <3>2. CASE next = "Finished" /\ r = w /\ RoundOf(v) = delivered[w]
      BY <1>2, <3>2 DEF CollectedFor, RoundOf
    <3> QED
      BY <2>1, <3>1, <3>2 DEF AnnouncesRound
  <2> QED
    BY <2>1 DEF UpgradesAreTrue, Upgrades
<1>8. LastVersionsAreTrue'
  <2>1. ASSUME NEW u \in Workers, NEW r \in Workers, lastVersion'[u][r] # NoVersion
        PROVE  CollectedFor(r, RoundOf(lastVersion[u][r]))'
    <3>1. PICK v \in Nat : v = lastVersion[u][r]
      BY <2>1 DEF PeerTypeOK
    <3>2. CollectedFor(r, RoundOf(v))'
      BY <1>4, <3>1
    <3> QED
      BY <3>1, <3>2 DEF CollectedFor, RoundOf
  <2> QED
    BY <2>1 DEF LastVersionsAreTrue, CollectedFor, RoundOf
<1>9. NormalIsSettled'
  <2>1. ASSUME NEW u \in Workers, NEW r \in remotes'[u], mode'[u] = "Normal", delivered'[u] > 0
        PROVE  CollectedFor(r, delivered[u])'
    <3>1. PICK i \in Nat : i = delivered[u]
      BY ScalesType DEF EnvTypeOK
    <3>2. r \in Workers /\ r \in remotes[u]
      BY DEF PeerTypeOK
    <3>3. CASE u # w
      <4>1. CollectedFor(r, i)'
        BY <1>1, <1>4, <2>1, <3>1, <3>2, <3>3
      <4> QED
        BY <3>1, <4>1 DEF CollectedFor
    <3>4. CASE u = w
      <4>1. lastVersion[w][r] = version[w] /\ mode[w] = "Finished"
        BY <1>2, <2>1, <3>4
      <4>2. PICK v \in Nat : v = version[w]
        BY DEF RouterTypeOK
      <4>3. CollectedFor(r, RoundOf(v))'
        BY <1>4, <3>2, <4>1, <4>2
      <4>4. RoundOf(v) = i
        BY <3>1, <3>4, <4>1, <4>2 DEF VersionIsRound, RoundOf
      <4> QED
        BY <3>1, <4>3, <4>4 DEF CollectedFor, RoundOf
    <3> QED
      BY <3>3, <3>4
  <2> QED
    BY <2>1 DEF NormalIsSettled
<1> QED
  BY <1>5, <1>6, <1>7, <1>8, <1>9

LEMMA RunTailCore ==
  ASSUME TypeOK, TypeOK', RunIsAlive, RescaleCore, NEW w \in Workers, RunTail(w)
  PROVE  RescaleCore'
<1> USE DEF TypeOK
<1>1. UNCHANGED <<alive, round, delivered>>
  BY DEF RunTail, envVars
<1>2. w \in alive
  BY DistributorAssumption DEF RunTail, InRun, RunIsAlive, Idle
<1>3. CASE LifecycleStays(w) \/ CollectLifecyclePanics(w)
  BY <1>1, <1>3, CalmCore DEF LifecycleStays, CollectLifecyclePanics, Calm, routerVars, peerVars
<1>4. CASE InterrogateLifecycle(w)
  <2>1. /\ mode[w] = "Interrogate" /\ mode' = [mode EXCEPT ![w] = "Collect"]
        /\ version' = [version EXCEPT ![w] = trigger[w]]
        /\ UNCHANGED <<trigger, remotes, lastVersion, chan>>
    BY <1>4 DEF InterrogateLifecycle, peerVars
  <2>2. RoundOf(version'[w]) = delivered[w]
    BY <2>1 DEF RescaleCore, VersionIsRound, RoundOf, RouterTypeOK
  <2>3. \A u \in Workers : u # w => version'[u] = version[u]
    BY <2>1 DEF RouterTypeOK
  <2>4. "Collect" \in Modes
    BY DEF Modes
  <2> QED
    BY <1>1, <1>2, <2>1, <2>2, <2>3, <2>4, RouterForward
<1>5. CASE CollectNextKey(w)
  <2>1. AcquireTargetKnown(w) /\ chan' = FlushCollected(w)
        /\ UNCHANGED <<mode, version, trigger, remotes, lastVersion>>
    BY <1>5 DEF CollectNextKey, peerVars
  <2> QED
    BY <1>1, <2>1, UpgradesFlush, CalmCore DEF Calm
<1>6. CASE CollectLifecycleDone(w)
  <2> DEFINE m == [kind |-> "Upgrade", version |-> version[w]]
  <2>1. /\ mode[w] = "Collect" /\ mode' = [mode EXCEPT ![w] = "Finished"]
        /\ AcquireTargetKnown(w) /\ chan' = Broadcast(FlushCollected(w), w, m)
        /\ UNCHANGED <<version, trigger, remotes, lastVersion>>
    BY <1>6 DEF CollectLifecycleDone, CollectReturned, peerVars
  <2>2. RoundOf(version[w]) = delivered[w]
    BY <2>1 DEF RescaleCore, VersionIsRound
  <2>3. ASSUME NEW r \in Workers, NEW u \in Workers, NEW v \in Upgrades(chan'[<<r, u>>])
        PROVE  v \in Upgrades(chan[<<r, u>>]) \/ (r = w /\ RoundOf(v) = delivered[w])
    <3>1. <<r, u>> \in Links /\ m \in NetworkMessage /\ m.kind = "Upgrade" /\ m.version = version[w]
      BY MessageTypes DEF Links, RouterTypeOK
    <3>2. FlushCollected(w)[<<r, u>>] \in Seq(NetworkMessage)
          /\ Upgrades(FlushCollected(w)[<<r, u>>]) \subseteq Upgrades(chan[<<r, u>>])
      BY <2>1, <3>1, FlushCollectedType, UpgradesFlush
    <3> HIDE DEF m
    <3>3. \/ chan'[<<r, u>>] = FlushCollected(w)[<<r, u>>]
          \/ r = w /\ chan'[<<r, u>>] = Append(FlushCollected(w)[<<r, u>>], m)
      BY <2>1, <3>1 DEF Broadcast
    <3>4. CASE chan'[<<r, u>>] = FlushCollected(w)[<<r, u>>]
      BY <2>3, <3>2, <3>4
    <3>5. CASE r = w /\ chan'[<<r, u>>] = Append(FlushCollected(w)[<<r, u>>], m)
      <4>1. Upgrades(chan'[<<r, u>>]) \subseteq Upgrades(FlushCollected(w)[<<r, u>>]) \cup {version[w]}
        BY <3>1, <3>2, <3>5, UpgradesAppend
      <4> QED
        BY <2>2, <2>3, <3>2, <3>5, <4>1
    <3> QED
      BY <3>3, <3>4, <3>5
  <2>4. "Finished" \in Modes
    BY DEF Modes
  <2>5. RoundOf(version'[w]) = delivered[w]
    BY <2>1, <2>2 DEF RoundOf
  <2>6. AnnouncesRound(w)
    BY <2>3 DEF AnnouncesRound
  <2> HIDE DEF m
  <2> QED
    BY <1>1, <1>2, <2>1, <2>4, <2>5, <2>6, RouterForward
<1>7. CASE FinishedLifecycle(w)
  <2>1. /\ mode[w] = "Finished" /\ Upgraded(w) /\ mode' = [mode EXCEPT ![w] = "Normal"]
        /\ remotes' = [remotes EXCEPT ![w] = @ \ (oldSet[w] \ newSet[w])]
        /\ UNCHANGED <<version, trigger, lastVersion, chan>>
    BY <1>7 DEF FinishedLifecycle
  <2>2. \A u \in Workers : remotes'[u] \subseteq remotes[u]
    BY <2>1 DEF PeerTypeOK
  <2>3. \A r \in remotes'[w] : lastVersion[w][r] = version[w]
    BY <2>1, <2>2 DEF Upgraded
  <2>4. "Normal" \in Modes
    BY DEF Modes
  <2> QED
    BY <1>1, <1>2, <2>1, <2>2, <2>3, <2>4, RouterForward
<1> QED
  BY <1>3, <1>4, <1>5, <1>6, <1>7 DEF RunTail

\* A new reconfiguration starts when the last one is over everywhere: the
\* workers that join start behind it, and settled.
LEMMA StartRescaleCore ==
  ASSUME TypeOK, TypeOK', RescaleCore, StartRescale PROVE RescaleCore'
<1> USE DEF TypeOK, RescaleCore
<1> DEFINE joining == Scales[round + 1] \ alive
           all     == alive \cup joining
<1>1. /\ RescaleDone /\ round' = round + 1 /\ alive' = all
      /\ remotes' = [w \in Workers |-> IF w \in joining THEN all \ {w} ELSE remotes[w]]
      /\ delivered' = [w \in Workers |-> IF w \in joining THEN round ELSE delivered[w]]
      /\ UNCHANGED <<mode, version, trigger, lastVersion, chan>>
  BY DEF StartRescale
<1>2. round \in Nat /\ \A r \in Workers : delivered[r] \in Nat /\ delivered'[r] \in Nat
  BY ScalesType DEF EnvTypeOK
<1>3. \A r \in Workers : mode[r] = "Normal"
  BY <1>1 DEF RescaleDone, GoneIsNormal, EnvTypeOK
<1>4. \A r \in alive : r \in Workers /\ delivered[r] = round
  BY <1>1 DEF RescaleDone, EnvTypeOK
<1>5. joining \cap alive = {}
  OBVIOUS
<1> HIDE DEF joining
<1>6. \A r \in Workers : /\ r \in joining => delivered'[r] = round
                         /\ r \notin joining => delivered'[r] = delivered[r]
  BY <1>1
<1>7. /\ \A r \in Workers : delivered'[r] >= delivered[r]
      /\ \A r \in Workers : delivered'[r] = delivered[r] /\ mode[r] \in {"Finished", "Normal"}
                              => mode'[r] \in {"Finished", "Normal"}
  <2>1. \A r \in Workers : delivered[r] <= round
    BY DEF DeliveredBehind
  <2> QED
    BY <1>1, <1>2, <1>6, <2>1
<1>8. /\ \A r, u \in Workers : \A v \in Upgrades(chan[<<r, u>>]) : CollectedFor(r, RoundOf(v))'
      /\ \A u, r \in Workers : \A v \in Nat : lastVersion[u][r] = v => CollectedFor(r, RoundOf(v))'
      /\ \A u \in Workers : \A r \in remotes[u] : \A i \in Nat :
           mode[u] = "Normal" /\ delivered[u] = i /\ i > 0 => CollectedFor(r, i)'
  BY <1>7, AnnouncementsStayTrue
<1>9. DeliveredBehind' /\ GoneIsNormal' /\ MovesForLastRound' /\ VersionIsRound'
  <2>1. DeliveredBehind'
    BY <1>1, <1>2, <1>6 DEF DeliveredBehind
  <2>2. GoneIsNormal' /\ MovesForLastRound' /\ VersionIsRound'
    BY <1>1, <1>3 DEF GoneIsNormal, MovesForLastRound, VersionIsRound
  <2> QED
    BY <2>1, <2>2
<1>10. UpgradesAreTrue'
  BY <1>1, <1>8 DEF UpgradesAreTrue
<1>11. LastVersionsAreTrue'
  <2>1. ASSUME NEW u \in Workers, NEW r \in Workers, lastVersion'[u][r] # NoVersion
        PROVE  CollectedFor(r, RoundOf(lastVersion[u][r]))'
    <3>1. PICK v \in Nat : v = lastVersion[u][r]
      BY <1>1, <2>1 DEF PeerTypeOK
    <3>2. CollectedFor(r, RoundOf(v))'
      BY <1>8, <3>1
    <3> QED
      BY <1>1, <3>1, <3>2 DEF CollectedFor, RoundOf
  <2> QED
    BY <2>1 DEF LastVersionsAreTrue, CollectedFor, RoundOf
<1>12. NormalIsSettled'
  <2>1. ASSUME NEW u \in Workers, NEW r \in remotes'[u], mode'[u] = "Normal", delivered'[u] > 0
        PROVE  CollectedFor(r, delivered[u])'
    <3>1. CASE u \in joining
      <4>1. r \in all /\ delivered'[u] = round
        BY <1>1, <1>6, <2>1, <3>1
      <4>2. r \in Workers
        BY <2>1 DEF PeerTypeOK
      <4>3. delivered'[r] = round /\ mode'[r] = "Normal"
        BY <1>1, <1>3, <1>4, <1>5, <1>6, <4>1, <4>2
      <4> QED
        BY <4>1, <4>3 DEF CollectedFor
    <3>2. CASE u \notin joining
      <4>1. r \in remotes[u] /\ delivered'[u] = delivered[u] /\ mode[u] = "Normal"
        BY <1>1, <1>3, <1>6, <2>1, <3>2
      <4>2. PICK i \in Nat : i = delivered[u]
        BY <1>2
      <4>3. CollectedFor(r, i)'
        BY <1>8, <2>1, <4>1, <4>2
      <4> QED
        BY <4>1, <4>2, <4>3 DEF CollectedFor
    <3> QED
      BY <3>1, <3>2
  <2> QED
    BY <2>1 DEF NormalIsSettled
<1> QED
  BY <1>9, <1>10, <1>11, <1>12

LEMMA WorkerLeavesCore ==
  ASSUME RescaleCore, NEW w \in Workers, WorkerLeaves(w) PROVE RescaleCore'
<1> USE DEF RescaleCore
<1>1. mode[w] = "Normal" /\ alive' = alive \ {w}
      /\ UNCHANGED <<mode, version, trigger, remotes, lastVersion, chan, round, delivered>>
  BY DEF WorkerLeaves, routerVars, peerVars
<1>2. DeliveredBehind' /\ GoneIsNormal' /\ MovesForLastRound' /\ VersionIsRound'
  BY <1>1 DEF DeliveredBehind, GoneIsNormal, MovesForLastRound, VersionIsRound, RoundOf
<1>3. UpgradesAreTrue' /\ LastVersionsAreTrue' /\ NormalIsSettled'
  BY <1>1 DEF UpgradesAreTrue, LastVersionsAreTrue, NormalIsSettled, CollectedFor, RoundOf
<1> QED
  BY <1>2, <1>3

LEMMA NextCore ==
  ASSUME TypeOK, TypeOK', RescaleInv, [Next]_vars PROVE RescaleCore'
<1> USE DEF RescaleInv
<1>1. CASE UNCHANGED vars
  BY <1>1, CalmCore DEF vars, routerVars, peerVars, envVars, Calm
<1>2. ASSUME NEW w \in Workers, BeginRun(w) PROVE RescaleCore'
  BY <1>2, CalmCore DEF BeginRun, routerVars, peerVars, envVars, Calm
<1>3. ASSUME NEW w \in Workers, StatefulOp(w) PROVE RescaleCore'
  BY <1>3, CalmCore DEF StatefulOp, peerVars, envVars, Calm
<1>4. ASSUME NEW w \in Workers, RunStep(w) PROVE RescaleCore'
  BY <1>4, ReceiveCore, LocalCore, LocalRescaleCore, RunTailCore DEF RunStep, LocalControl
<1>5. CASE StartSnapshot \/ StartSuspend
  BY <1>5, CalmCore DEF StartSnapshot, StartSuspend, routerVars, peerVars, Calm
<1> QED
  BY <1>1, <1>2, <1>3, <1>4, <1>5, StartRescaleCore, WorkerLeavesCore DEF Next, WorkerStep

LEMMA InitCore == Init => RescaleInv
<1> SUFFICES ASSUME Init PROVE RescaleInv
  OBVIOUS
<1>1. PolledLinksFilled /\ RunIsAlive
  BY DEF Init, PolledLinksFilled, RunIsAlive, Idle
<1>2. DeliveredBehind /\ GoneIsNormal /\ MovesForLastRound /\ VersionIsRound
  BY DEF Init, DeliveredBehind, GoneIsNormal, MovesForLastRound, VersionIsRound
<1>3. UpgradesAreTrue
  <2>1. \A r, w \in Workers : chan[<<r, w>>] = <<>>
    BY DEF Init, Links
  <2>2. Upgrades(<<>>) = {}
    BY DEF Upgrades
  <2> QED
    BY <2>1, <2>2 DEF UpgradesAreTrue
<1>4. LastVersionsAreTrue /\ NormalIsSettled
  <2>1. LastVersionsAreTrue
    BY DEF Init, LastVersionsAreTrue
  <2>2. NormalIsSettled
    BY DEF Init, NormalIsSettled
  <2> QED
    BY <2>1, <2>2
<1> QED
  BY <1>1, <1>2, <1>3, <1>4 DEF RescaleInv, RescaleCore

----------------------------------------------------------------------------
\* The inductive invariant: the types, a run that only receives what its links
\* held, and the bookkeeping of the Upgrade messages.
IInv == TypeOK /\ RescaleInv

LEMMA Inductive == Spec => []IInv
<1>1. Init => IInv
  BY InitTypeOK, InitCore DEF IInv
<1>2. IInv /\ [Next]_vars => IInv'
  <2> SUFFICES ASSUME IInv, [Next]_vars PROVE IInv'
    OBVIOUS
  <2>1. TypeOK'
    BY NextType DEF IInv, RescaleInv
  <2>2. PolledLinksFilled' /\ RunIsAlive'
    BY NextRun DEF IInv, RescaleInv
  <2>3. RescaleCore'
    BY <2>1, NextCore DEF IInv
  <2> QED
    BY <2>1, <2>2, <2>3 DEF IInv, RescaleInv
<1> QED
  BY <1>1, <1>2, PTL DEF Spec

\* For every cluster, partitioner and sequence of reconfigurations the fields
\* of the distributors, the links and the operators keep their types; in
\* particular Distributor::run only ever takes a message off a link that holds
\* one, and every epoch passed on is a real timestamp.
THEOREM TypeCorrect == Spec => []TypeOK
<1>1. IInv => TypeOK
  BY DEF IInv
<1> QED
  BY <1>1, Inductive, PTL

\* For every cluster, partitioner and sequence of reconfigurations: the
\* FinishedRouter goes back to Normal only when all the workers it is connected
\* to have finished collecting for the same reconfiguration, and it stays so.
THEOREM NormalIsSafe == Spec => []NormalAfterAllCollected
<1>1. IInv => NormalAfterAllCollected
  <2>1. TypeOK => alive \subseteq Workers
    BY DEF TypeOK, EnvTypeOK
  <2> QED
    BY <2>1 DEF IInv, RescaleInv, RescaleCore, NormalIsSettled, NormalAfterAllCollected
<1> QED
  BY <1>1, Inductive, PTL

----------------------------------------------------------------------------
(* Delivery while workers join.                                            *)

\* Reconfigurations only add workers (the wanted scale only grows).
Growing == \A i \in DOMAIN Scales : WorkersBefore(i) \subseteq Scales[i]

\* rendezvous_select (keyed/partitioners.rs:13): a worker that was there before
\* owns a key only if it has owned it before; a key moves to workers that join.
MinimalMoves ==
  \A S, T \in WorkerSets : S \subseteq T =>
     \A k \in Keys : Target[T][k] \in S => Target[T][k] = Target[S][k]

Members == IF round = 0 THEN InitWorkers ELSE Scales[round]

\* The workers that run are the ones the coordinator wants; nobody leaves.
NobodyLeaves ==
  /\ alive = Members
  /\ panicked = {}
  /\ ~suspending
  /\ \A w \in Workers : ~localShutdown[w] /\ ~suspended[w]

\* Every worker is connected to all workers it may route to.
Connected ==
  \A w \in alive :
     /\ remotes[w] \subseteq alive \ {w}
     /\ newSet[w] \subseteq remotes[w] \cup {w}
     /\ oldSet[w] \subseteq newSet[w]
     /\ w \in oldSet[w]
     /\ delivered[w] = round => remotes[w] = alive \ {w}

\* A router collects only keys that go to another worker, and buffers only
\* while it collects one.
CollectsForOthers ==
  \A w \in Workers :
     /\ w \notin alive => whitelist[w] = {}
     /\ \A k \in whitelist[w] : NewTarget(w, k) # w
     /\ collecting[w] # NoKey => mode[w] = "Collect" /\ NewTarget(w, collecting[w]) # w
     /\ collecting[w] = NoKey => buffered[w] = <<>>

\* Message i in a sequence of messages, and in a buffer.
Carries(m, i) == m.kind = "Data" /\ m.data.id = i
Has(s, i)     == \E n \in DOMAIN s : Carries(s[n], i)
Once(s, i)    == \A m, n \in DOMAIN s : Carries(s[m], i) /\ Carries(s[n], i) => m = n
Keeps(s, i)     == \E n \in DOMAIN s : s[n].id = i
KeepsOnce(s, i) == \A m, n \in DOMAIN s : s[m].id = i /\ s[n].id = i => m = n

\* The links, buffers and queues that hold message i.
LinksWith   == [i \in Ids |-> {l \in Links : Has(chan[l], i)}]
BuffersWith == [i \in Ids |-> {w \in Workers : Keeps(buffered[w], i)}]
QueuesWith  == [i \in Ids |-> {w \in Workers : Has(out[w], i)}]

Absent(i) == LinksWith[i] = {} /\ BuffersWith[i] = {} /\ QueuesWith[i] = {}
Single(i) ==
  \/ (\E l \in Links : LinksWith[i] = {l}) /\ BuffersWith[i] = {} /\ QueuesWith[i] = {}
  \/ LinksWith[i] = {} /\ (\E w \in Workers : BuffersWith[i] = {w}) /\ QueuesWith[i] = {}
  \/ LinksWith[i] = {} /\ BuffersWith[i] = {} /\ (\E w \in Workers : QueuesWith[i] = {w})

\* A message is in one place until it is consumed, and nowhere after that.
OnePlace ==
  \A i \in Ids :
     \/ i < nextId /\ consumed[i] = 0 /\ Single(i)
     \/ i < nextId /\ consumed[i] = 1 /\ Absent(i)
     \/ i >= nextId /\ consumed[i] = 0 /\ Absent(i)

\* ... and there only once.
NoRepeat ==
  \A i \in Ids :
     /\ \A l \in Links : Once(chan[l], i)
     /\ \A w \in Workers : Once(out[w], i) /\ KeepsOnce(buffered[w], i)

\* Data is between running workers and inside them.
AmongMembers ==
  \A i \in Ids :
     /\ \A r, w \in Workers : <<r, w>> \in LinksWith[i] => r \in alive /\ w \in alive /\ r # w
     /\ BuffersWith[i] \subseteq alive /\ QueuesWith[i] \subseteq alive

Delivery == NobodyLeaves /\ Connected /\ CollectsForOthers /\ OnePlace /\ NoRepeat /\ AmongMembers

\* What the theorems are about: workers only join, keys only move to workers
\* that join, and the coordinator does not suspend the job (nothing in the
\* source sends the request yet).
OnlyJoins == Growing /\ MinimalMoves /\ ~Suspends

----------------------------------------------------------------------------
\* Sequences of messages.

LEMMA TailAt ==
  ASSUME NEW S, NEW q \in Seq(S), q # <<>>
  PROVE  /\ Tail(q) \in Seq(S) /\ 1 \in DOMAIN q /\ Head(q) = q[1] /\ q[1] \in S
         /\ \A n \in DOMAIN Tail(q) : n \in Nat /\ n >= 1 /\ n + 1 \in DOMAIN q /\ Tail(q)[n] = q[n + 1]
         /\ \A n \in DOMAIN q : n \in Nat /\ n >= 1 /\ (n # 1 => n - 1 \in DOMAIN Tail(q) /\ Tail(q)[n - 1] = q[n])
  OBVIOUS

LEMMA AppendAt ==
  ASSUME NEW S, NEW q \in Seq(S), NEW m \in S
  PROVE  /\ Append(q, m) \in Seq(S) /\ Len(q) + 1 \in DOMAIN Append(q, m) /\ Append(q, m)[Len(q) + 1] = m
         /\ Len(q) + 1 \in Nat
         /\ \A n \in DOMAIN q : n \in Nat /\ n < Len(q) + 1 /\ n \in DOMAIN Append(q, m) /\ Append(q, m)[n] = q[n]
         /\ \A n \in DOMAIN Append(q, m) : n \in DOMAIN q \/ n = Len(q) + 1
  OBVIOUS

LEMMA Appending ==
  ASSUME NEW S, NEW s \in Seq(S), NEW m \in S, NEW i
  PROVE  /\ Has(Append(s, m), i) <=> Has(s, i) \/ Carries(m, i)
         /\ Once(s, i) /\ ~(Has(s, i) /\ Carries(m, i)) => Once(Append(s, m), i)
<1> DEFINE t == Append(s, m)
<1>1. /\ Len(s) \in Nat /\ DOMAIN s = 1..Len(s) /\ DOMAIN t = 1..(Len(s) + 1)
      /\ \A n \in 1..Len(s) : t[n] = s[n]
      /\ t[Len(s) + 1] = m
  BY AppendProperties, LenProperties
<1> HIDE DEF t
<1>2. Has(t, i) <=> Has(s, i) \/ Carries(m, i)
  BY <1>1 DEF Has
<1>3. ASSUME Once(s, i), ~(Has(s, i) /\ Carries(m, i)) PROVE Once(t, i)
  BY <1>1, <1>3 DEF Has, Once
<1> QED
  BY <1>2, <1>3 DEF t

LEMMA TakingOff ==
  ASSUME NEW S, NEW s \in Seq(S), s # <<>>, NEW i
  PROVE  /\ Carries(Head(s), i) => Has(s, i)
         /\ Once(s, i) => (Has(Tail(s), i) <=> Has(s, i) /\ ~Carries(Head(s), i))
         /\ Once(s, i) => Once(Tail(s), i)
<1> DEFINE t == Tail(s)
           h == Head(s)
<1>1. /\ Len(s) \in Nat /\ Len(s) > 0 /\ DOMAIN s = 1..Len(s) /\ DOMAIN t = 1..(Len(s) - 1)
      /\ \A n \in 1..(Len(s) - 1) : t[n] = s[n + 1]
      /\ h = s[1]
  BY HeadTailProperties, LenProperties, EmptySeq
<1> HIDE DEF t, h
<1>2. Carries(h, i) => Has(s, i)
  BY <1>1 DEF Has
<1>3. ASSUME Once(s, i) PROVE Has(t, i) <=> Has(s, i) /\ ~Carries(h, i)
  <2>1. ASSUME Has(t, i) PROVE Has(s, i) /\ ~Carries(h, i)
    BY <1>1, <1>3, <2>1 DEF Has, Once
  <2>2. ASSUME Has(s, i), ~Carries(h, i) PROVE Has(t, i)
    <3>1. PICK n \in 1..Len(s) : Carries(s[n], i)
      BY <1>1, <2>2 DEF Has
    <3>2. n - 1 \in 1..(Len(s) - 1) /\ t[n - 1] = s[n]
      <4>1. n # 1
        BY <1>1, <2>2, <3>1
      <4>2. n - 1 \in 1..(Len(s) - 1) /\ (n - 1) + 1 = n
        BY <1>1, <4>1
      <4> QED
        BY <1>1, <4>2
    <3> QED
      BY <1>1, <3>1, <3>2 DEF Has
  <2> QED
    BY <2>1, <2>2
<1>4. ASSUME Once(s, i) PROVE Once(t, i)
  <2>1. ASSUME NEW m \in DOMAIN t, NEW n \in DOMAIN t, Carries(t[m], i), Carries(t[n], i)
        PROVE  m = n
    <3>1. m \in Nat /\ n \in Nat /\ m + 1 \in DOMAIN s /\ n + 1 \in DOMAIN s
          /\ t[m] = s[m + 1] /\ t[n] = s[n + 1]
      BY <1>1, <2>1
    <3>2. m + 1 = n + 1
      BY <1>4, <2>1, <3>1 DEF Once
    <3> QED
      BY <3>1, <3>2
  <2> QED
    BY <2>1 DEF Once
<1> QED
  BY <1>2, <1>3, <1>4 DEF t, h

LEMMA Joining ==
  ASSUME NEW S, NEW s \in Seq(S), NEW t \in Seq(S), NEW i
  PROVE  /\ Has(s \o t, i) <=> Has(s, i) \/ Has(t, i)
         /\ Once(s, i) /\ Once(t, i) /\ ~(Has(s, i) /\ Has(t, i)) => Once(s \o t, i)
<1> DEFINE u == s \o t
<1>1. /\ Len(s) \in Nat /\ DOMAIN s = 1..Len(s) /\ Len(t) \in Nat /\ DOMAIN t = 1..Len(t)
      /\ DOMAIN u = 1..(Len(s) + Len(t))
      /\ \A n \in 1..(Len(s) + Len(t)) : u[n] = IF n <= Len(s) THEN s[n] ELSE t[n - Len(s)]
  BY ConcatProperties, LenProperties
<1> HIDE DEF u
<1>2. \A n \in DOMAIN s : n \in DOMAIN u /\ u[n] = s[n]
  BY <1>1
<1>3. \A n \in DOMAIN t : n + Len(s) \in DOMAIN u /\ u[n + Len(s)] = t[n]
  <2> SUFFICES ASSUME NEW n \in DOMAIN t PROVE n + Len(s) \in DOMAIN u /\ u[n + Len(s)] = t[n]
    OBVIOUS
  <2>1. n + Len(s) \in 1..(Len(s) + Len(t)) /\ ~(n + Len(s) <= Len(s)) /\ (n + Len(s)) - Len(s) = n
    BY <1>1
  <2> QED
    BY <1>1, <2>1
<1>4. \A n \in DOMAIN u : \/ n \in DOMAIN s /\ u[n] = s[n]
                          \/ n - Len(s) \in DOMAIN t /\ u[n] = t[n - Len(s)]
  BY <1>1
<1>5. Has(u, i) <=> Has(s, i) \/ Has(t, i)
  <2>1. Has(u, i) => Has(s, i) \/ Has(t, i)
    BY <1>4 DEF Has
  <2>2. Has(s, i) => Has(u, i)
    BY <1>2 DEF Has
  <2>3. Has(t, i) => Has(u, i)
    BY <1>3 DEF Has
  <2> QED
    BY <2>1, <2>2, <2>3
<1>6. ASSUME Once(s, i), Once(t, i), ~(Has(s, i) /\ Has(t, i)) PROVE Once(u, i)
  <2>1. ASSUME NEW m \in DOMAIN u, NEW n \in DOMAIN u, Carries(u[m], i), Carries(u[n], i)
        PROVE  m = n
    <3>1. CASE m \in DOMAIN s /\ u[m] = s[m] /\ n \in DOMAIN s /\ u[n] = s[n]
      BY <1>6, <2>1, <3>1 DEF Once
    <3>2. CASE m - Len(s) \in DOMAIN t /\ u[m] = t[m - Len(s)] /\ n - Len(s) \in DOMAIN t /\ u[n] = t[n - Len(s)]
      <4>1. m - Len(s) = n - Len(s)
        BY <1>6, <2>1, <3>2 DEF Once
      <4> QED
        BY <1>1, <4>1
    <3>3. CASE (m \in DOMAIN s /\ u[m] = s[m]) /\ (n - Len(s) \in DOMAIN t /\ u[n] = t[n - Len(s)])
      BY <1>6, <2>1, <3>3 DEF Has
    <3>4. CASE (n \in DOMAIN s /\ u[n] = s[n]) /\ (m - Len(s) \in DOMAIN t /\ u[m] = t[m - Len(s)])
      BY <1>6, <2>1, <3>4 DEF Has
    <3> QED
      BY <1>4, <3>1, <3>2, <3>3, <3>4
  <2> QED
    BY <2>1 DEF Once
<1> QED
  BY <1>5, <1>6 DEF u

\* Messages that are not data, as many as there are of them.
LEMMA NoDataInside ==
  ASSUME NEW t, \A n \in DOMAIN t : t[n].kind # "Data", NEW i
  PROVE  ~Has(t, i) /\ Once(t, i)
  BY DEF Has, Once, Carries

\* Buffers, and what a buffer becomes when it is flushed.
LEMMA Buffering ==
  ASSUME NEW s \in Seq(DataMessage), NEW d \in DataMessage, NEW i
  PROVE  /\ Keeps(Append(s, d), i) <=> Keeps(s, i) \/ d.id = i
         /\ KeepsOnce(s, i) /\ ~(Keeps(s, i) /\ d.id = i) => KeepsOnce(Append(s, d), i)
<1> DEFINE t == Append(s, d)
<1>1. /\ Len(s) \in Nat /\ DOMAIN s = 1..Len(s) /\ DOMAIN t = 1..(Len(s) + 1)
      /\ \A n \in 1..Len(s) : t[n] = s[n]
      /\ t[Len(s) + 1] = d
  BY AppendProperties, LenProperties
<1> HIDE DEF t
<1>2. Keeps(t, i) <=> Keeps(s, i) \/ d.id = i
  BY <1>1 DEF Keeps
<1>3. ASSUME KeepsOnce(s, i), ~(Keeps(s, i) /\ d.id = i) PROVE KeepsOnce(t, i)
  BY <1>1, <1>3 DEF Keeps, KeepsOnce
<1> QED
  BY <1>2, <1>3 DEF t

LEMMA EmptySequence ==
  ASSUME NEW i
  PROVE  ~Has(<<>>, i) /\ Once(<<>>, i) /\ ~Keeps(<<>>, i) /\ KeepsOnce(<<>>, i)
<1>1. DOMAIN <<>> = {}
  OBVIOUS
<1> QED
  BY <1>1 DEF Has, Once, Keeps, KeepsOnce

----------------------------------------------------------------------------
\* The cluster: who runs, who is connected to whom, who collects what.

Cluster == NobodyLeaves /\ Connected /\ CollectsForOthers

\* The state the cluster part speaks of, without what a data message changes.
clusterVars == <<alive, round, suspending, localShutdown, suspended, remotes, newSet, oldSet,
                 delivered, mode, collecting>>

LEMMA ClusterFacts ==
  ASSUME TypeOK, Cluster, NEW w \in alive
  PROVE  /\ w \in Workers /\ panicked = {} /\ ~localShutdown[w] /\ ~suspended[w]
         /\ remotes[w] \subseteq Workers /\ remotes[w] \subseteq alive /\ w \notin remotes[w]
         /\ newSet[w] \in WorkerSets /\ oldSet[w] \in WorkerSets
         /\ newSet[w] \subseteq remotes[w] \cup {w}
         /\ oldSet[w] \subseteq newSet[w] /\ w \in oldSet[w]
  BY DEF TypeOK, EnvTypeOK, RouterTypeOK, Cluster, NobodyLeaves, Connected

\* A router never picks a worker it is not connected to, whatever its state,
\* and buffers only messages of the key it collects.
LEMMA RoutesInReach ==
  ASSUME TypeOK, Cluster, NEW w \in alive, NEW k \in Keys, NEW sender, NEW v \in Int
  PROVE  /\ RouteMessage(w, k, sender, v) \in remotes[w] \cup {w, Buffer}
         /\ RouteMessage(w, k, sender, v) = Buffer => collecting[w] = k
<1> USE DEF TypeOK
<1>1. /\ w \in Workers /\ newSet[w] \in WorkerSets /\ oldSet[w] \in WorkerSets
      /\ newSet[w] \subseteq remotes[w] \cup {w} /\ oldSet[w] \subseteq newSet[w]
      /\ remotes[w] \subseteq Workers
  BY ClusterFacts
<1>2. version[w] \in Nat /\ mode[w] \in {"Normal", "Interrogate", "Collect", "Finished"}
  BY <1>1 DEF RouterTypeOK, Modes
<1>3. NewTarget(w, k) \in newSet[w] /\ OldTarget(w, k) \in oldSet[w]
  BY <1>1, TargetAssumption DEF NewTarget, OldTarget
<1> DEFINE reach == remotes[w] \cup {w}
<1>4. NewTarget(w, k) \in reach /\ OldTarget(w, k) \in reach /\ w \in reach /\ Buffer \notin reach
  BY <1>1, <1>3, NoKeyAssumption DEF Buffer
<1> HIDE DEF reach
<1>5. RouteCollect(w, k, sender) \in reach
      \/ (RouteCollect(w, k, sender) = Buffer /\ collecting[w] = k)
  BY <1>4 DEF RouteCollect
<1>6. RouteFinished(w, k, sender) \in reach
  BY <1>4 DEF RouteFinished
<1>7. RouteInterrogate(w, k) \in reach
  BY <1>4 DEF RouteInterrogate
<1>8. v > version[w] \/ v <= version[w]
  BY <1>2
<1>9. RouteMessage(w, k, sender, v) \in
        {w, NewTarget(w, k), RouteInterrogate(w, k), RouteCollect(w, k, sender), RouteFinished(w, k, sender)}
  <2>1. CASE v > version[w]
    BY <1>2, <2>1 DEF RouteMessage
  <2>2. CASE v <= version[w] /\ ~(v > version[w])
    BY <1>2, <2>2 DEF RouteMessage
  <2> QED
    BY <1>2, <1>8, <2>1, <2>2
<1> QED
  BY <1>4, <1>5, <1>6, <1>7, <1>9 DEF reach

\* A step that leaves the cluster and the routers' collections alone.
LEMMA ClusterStays ==
  ASSUME Cluster, UNCHANGED <<clusterVars, panicked, whitelist, buffered>> PROVE Cluster'
<1>1. UNCHANGED <<alive, round, suspending, localShutdown, suspended, remotes, newSet, oldSet,
                  delivered, mode, collecting, panicked, whitelist, buffered>>
  BY DEF clusterVars
<1>2. NobodyLeaves'
  BY <1>1 DEF Cluster, NobodyLeaves, Members
<1>3. Connected'
  BY <1>1 DEF Cluster, Connected
<1>4. CollectsForOthers'
  BY <1>1 DEF Cluster, CollectsForOthers, NewTarget
<1> QED
  BY <1>2, <1>3, <1>4 DEF Cluster

\* A data message goes to exactly one place: the operator, a link or the buffer.
Destination(w, d, c) ==
  \/ /\ out' = [out EXCEPT ![w] = Append(@, [kind |-> "Data", data |-> d])]
     /\ chan' = c /\ buffered' = buffered
  \/ /\ chan' = c /\ out' = out
     /\ buffered' = [buffered EXCEPT ![w] = Append(@, d)]
  \/ \E t \in alive \ {w} :
        /\ chan' = [c EXCEPT ![<<w, t>>] =
                      Append(@, [kind |-> "Data", data |-> d, version |-> version[w]])]
        /\ out' = out /\ buffered' = buffered

LEMMA HandleDataCluster ==
  ASSUME TypeOK, Cluster, NEW w \in alive, NEW d \in DataMessage, NEW sender, NEW v \in Int,
         NEW c, NEW next, HandleData(w, d, sender, v, c, next), UNCHANGED clusterVars
  PROVE  Cluster' /\ Destination(w, d, c)
<1> USE DEF TypeOK
<1> DEFINE target == RouteMessage(w, d.key, sender, v)
<1>1. d.key \in Keys
  BY DEF DataMessage
<1>2. target \in remotes[w] \cup {w, Buffer} /\ (target = Buffer => collecting[w] = d.key)
  BY <1>1, RoutesInReach
<1>3. /\ w \in Workers /\ w \notin remotes[w] /\ remotes[w] \subseteq alive /\ w # Buffer
      /\ Buffer \notin remotes[w]
  BY ClusterFacts, NoKeyAssumption DEF Buffer
<1>4. /\ whitelist' = [whitelist EXCEPT ![w] = Whitelisted(w, d.key, v)]
      /\ buffered' = IF target = Buffer
                     THEN [buffered EXCEPT ![w] = Append(@, d)] ELSE buffered
      /\ out' = IF target = w
                THEN [out EXCEPT ![w] = Append(@, [kind |-> "Data", data |-> d])] ELSE out
      /\ chan' = IF target \in remotes[w]
                 THEN [c EXCEPT ![<<w, target>>] =
                         Append(@, [kind |-> "Data", data |-> d, version |-> version[w]])]
                 ELSE c
      /\ panicked' = panicked
  BY <1>2 DEF HandleData
<1> HIDE DEF target
<1>5. Destination(w, d, c)
  <2>1. CASE target = w
    BY <1>3, <1>4, <2>1 DEF Destination
  <2>2. CASE target = Buffer
    BY <1>3, <1>4, <2>2 DEF Destination
  <2>3. CASE target \in remotes[w]
    <3>1. target \in alive \ {w} /\ target # Buffer /\ target # w
      BY <1>3, <2>3
    <3> QED
      BY <1>4, <2>3, <3>1 DEF Destination
  <2> QED
    BY <1>2, <2>1, <2>2, <2>3
<1>6. UNCHANGED <<alive, round, suspending, localShutdown, suspended, remotes, newSet, oldSet,
                  delivered, mode, collecting>>
  BY DEF clusterVars
<1>7. NobodyLeaves'
  BY <1>4, <1>6 DEF Cluster, NobodyLeaves, Members
<1>8. Connected'
  BY <1>6 DEF Cluster, Connected
<1>9. CollectsForOthers'
  <2>1. \A k \in Whitelisted(w, d.key, v) : NewTarget(w, k) # w
    BY <1>3 DEF Whitelisted, Cluster, CollectsForOthers
  <2>2. buffered' = buffered \/ (collecting[w] # NoKey /\ buffered' = [buffered EXCEPT ![w] = Append(@, d)])
    BY <1>1, <1>2, <1>4, NoKeyAssumption
  <2>3. \A u \in Workers : u # w => whitelist'[u] = whitelist[u] /\ buffered'[u] = buffered[u]
    BY <1>4, <2>2 DEF RouterTypeOK
  <2>4. whitelist'[w] = Whitelisted(w, d.key, v) /\ (collecting[w] = NoKey => buffered' = buffered)
    BY <1>3, <1>4, <2>2 DEF RouterTypeOK
  <2>5. \A u \in Workers : \A k : NewTarget(u, k)' = NewTarget(u, k)
    BY <1>6 DEF NewTarget
  <2> QED
    BY <1>3, <1>6, <2>1, <2>3, <2>4, <2>5 DEF Cluster, CollectsForOthers, NewTarget
<1> QED
  BY <1>5, <1>7, <1>8, <1>9 DEF Cluster
LEMMA ReceiveCluster ==
  ASSUME TypeOK, PolledLinksFilled, Cluster, NEW w \in alive, NEW r \in Workers, ReceiveRemote(w, r)
  PROVE  /\ Cluster'
         /\ Head(chan[<<r, w>>]).kind = "Data" =>
              Destination(w, Head(chan[<<r, w>>]).data, Popped(r, w))
<1> DEFINE m == Head(chan[<<r, w>>])
<1>1. w \in Workers /\ chan[<<r, w>>] # <<>>
  BY ClusterFacts DEF ReceiveRemote, InRun, PolledLinksFilled
<1>2. m \in NetworkMessage
  BY <1>1, LinkTypes, MessageTypes DEF TypeOK, LinkTypeOK
<1> HIDE DEF m
<1>3. CASE RemoteData(w, r, m)
  <2>1. m.data \in DataMessage /\ m.version \in Int
    BY <1>2, <1>3, NetworkFields DEF RemoteData
  <2>2. HandleData(w, m.data, r, m.version, Popped(r, w), [turn EXCEPT !.poll = @ \ {r}])
    BY <1>3 DEF RemoteData
  <2>3. UNCHANGED clusterVars
    BY <1>3 DEF RemoteData, HandleData, clusterVars, peerVars, localVars, envVars
  <2>4. Cluster' /\ Destination(w, m.data, Popped(r, w))
    BY <2>1, <2>2, <2>3, HandleDataCluster
  <2> QED
    BY <2>4 DEF m
<1>4. ASSUME RemoteEpoch(w, r, m) \/ RemoteMarker(w, r, m) \/ RemoteAcquire(w, r, m)
             \/ RemoteUpgrade(w, r, m) \/ RemoteAckUpgrade(w, r, m),
             UNCHANGED <<routerVars, localVars, suspended, panicked, envVars>>
      PROVE  Cluster' /\ m.kind # "Data"
  <2>1. m.kind # "Data" /\ UNCHANGED remotes
    BY <1>4 DEF RemoteEpoch, RemoteMarker, RemoteAcquire, RemoteUpgrade, RemoteAckUpgrade, peerVars
  <2>2. UNCHANGED <<clusterVars, panicked, whitelist, buffered>>
    BY <1>4, <2>1 DEF clusterVars, routerVars, localVars, envVars
  <2> QED
    BY <2>1, <2>2, ClusterStays
<1> QED
  BY <1>3, <1>4 DEF ReceiveRemote, m

LEMMA LocalDataCluster ==
  ASSUME TypeOK, Cluster, NEW w \in alive, LocalData(w)
  PROVE  /\ Cluster' /\ nextId \in Ids
         /\ \E d \in DataMessage : d.id = nextId /\ Destination(w, d, chan)
<1>1. w \in Workers
  BY ClusterFacts
<1>2. PICK k \in Keys, ts \in (localFrontier[w] + 1)..(MaxEpoch + 1) :
        HandleData(w, [key |-> k, id |-> nextId, ts |-> ts], w, NoVersion, chan, ToTail)
  BY DEF LocalData
<1> DEFINE d == [key |-> k, id |-> nextId, ts |-> ts]
<1>3. nextId \in Ids /\ ts \in Nat \ {NoTime}
  BY <1>1, DistributorAssumption DEF LocalData, TypeOK, EnvTypeOK, LocalTypeOK, Ids, NoTime
<1>4. d \in DataMessage /\ d.id = nextId
  BY <1>3 DEF DataMessage
<1>5. HandleData(w, d, w, NoVersion, chan, ToTail) /\ NoVersion \in Int
  BY <1>2 DEF NoVersion
<1> HIDE DEF d
<1>6. UNCHANGED clusterVars
  BY <1>5 DEF LocalData, HandleData, clusterVars, peerVars, localVars, envVars
<1>7. Cluster' /\ Destination(w, d, chan)
  BY <1>4, <1>5, <1>6, HandleDataCluster
<1> QED
  BY <1>3, <1>4, <1>7

\* The Rescale message: connect to everybody, compare the old set with the new.
LEMMA LocalRescaleCluster ==
  ASSUME OnlyJoins, TypeOK, TypeOK', RescaleCore, Cluster, NEW w \in alive, LocalRescale(w)
  PROVE  Cluster'
<1> USE DEF TypeOK
<1>1. /\ w \in Workers /\ w \notin remotes[w] /\ remotes[w] \subseteq alive
      /\ newSet[w] \subseteq remotes[w] \cup {w} /\ oldSet[w] \subseteq newSet[w] /\ w \in oldSet[w]
  BY ClusterFacts
<1>2. delivered[w] < round /\ mode[w] = "Normal"
  <2>1. delivered[w] < round
    BY DEF LocalRescale
  <2>2. mode[w] # "Normal" => delivered[w] = round
    BY <1>1 DEF RescaleCore, MovesForLastRound
  <2>3. delivered[w] \in Int /\ round \in Int
    BY <1>1, ScalesType DEF EnvTypeOK
  <2> QED
    BY <2>1, <2>2, <2>3
<1>3. alive = Scales[round]
  <2>1. round # 0
    BY <1>1, <1>2, ScalesType DEF EnvTypeOK
  <2> QED
    BY <2>1 DEF Cluster, NobodyLeaves, Members
<1>4. /\ remotes' = [remotes EXCEPT ![w] = @ \cup (Scales[round] \ {w})]
      /\ delivered' = [delivered EXCEPT ![w] = round]
      /\ mode' = [mode EXCEPT ![w] = "Interrogate"]
      /\ oldSet' = [oldSet EXCEPT ![w] = newSet[w]]
      /\ newSet' = [newSet EXCEPT ![w] = Scales[round]]
      /\ whitelist' = [whitelist EXCEPT ![w] = {}]
      /\ UNCHANGED <<collecting, buffered, suspended, panicked, alive, round, suspending>>
      /\ UNCHANGED localShutdown
  BY <1>2 DEF LocalRescale, localVars
<1>5. /\ remotes'[w] = alive \ {w} /\ delivered'[w] = round /\ oldSet'[w] = newSet[w]
      /\ newSet'[w] = alive /\ whitelist'[w] = {}
  BY <1>1, <1>3, <1>4, SMTT(30) DEF PeerTypeOK, RouterTypeOK, EnvTypeOK
<1>6. \A u \in Workers : u # w =>
        /\ remotes'[u] = remotes[u] /\ delivered'[u] = delivered[u] /\ mode'[u] = mode[u]
        /\ oldSet'[u] = oldSet[u] /\ newSet'[u] = newSet[u] /\ whitelist'[u] = whitelist[u]
  BY <1>4 DEF PeerTypeOK, RouterTypeOK, EnvTypeOK
<1>7. NobodyLeaves'
  BY <1>4 DEF Cluster, NobodyLeaves, Members
<1>8. Connected'
  <2>1. \A u \in alive : u \in Workers
    BY DEF EnvTypeOK
  <2>2. newSet[w] \subseteq alive
    BY <1>1
  <2> QED
    BY <1>1, <1>4, <1>5, <1>6, <2>1, <2>2 DEF Cluster, Connected
<1>9. CollectsForOthers'
  <2>1. collecting[w] = NoKey /\ buffered[w] = <<>>
    BY <1>1, <1>2 DEF Cluster, CollectsForOthers
  <2> QED
    BY <1>4, <1>5, <1>6, <2>1 DEF Cluster, CollectsForOthers, NewTarget
<1> QED
  BY <1>7, <1>8, <1>9 DEF Cluster

LEMMA LocalCluster ==
  ASSUME TypeOK, Cluster, NEW w \in Workers,
         NoLocal(w) \/ LocalEpoch(w) \/ LocalBarrier(w) \/ LocalSuspend(w)
  PROVE  Cluster' /\ ~LocalSuspend(w)
<1>1. ~LocalSuspend(w)
  BY DEF LocalSuspend, Cluster, NobodyLeaves
<1>2. UNCHANGED <<clusterVars, panicked, whitelist, buffered>>
  <2>1. CASE NoLocal(w)
    BY <2>1 DEF NoLocal, clusterVars, routerVars, peerVars, localVars, envVars
  <2>2. CASE LocalEpoch(w)
    BY <2>2 DEF LocalEpoch, clusterVars, routerVars, peerVars, envVars
  <2>3. CASE LocalBarrier(w)
    BY <2>3 DEF LocalBarrier, clusterVars, routerVars, peerVars
  <2> QED
    BY <1>1, <2>1, <2>2, <2>3
<1> QED
  BY <1>1, <1>2, ClusterStays
\* Nobody is suspended by the markers of a tail.
LEMMA MarkersSuspendNobody ==
  ASSUME TypeOK, Cluster, NEW w \in Workers, EmitMarkers(w)
  PROVE  \A u \in Workers : ~localShutdown'[u] /\ ~suspended'[u]
<1>1. \A u \in Workers : ~localShutdown[u] /\ ~suspended[u]
  BY DEF Cluster, NobodyLeaves
<1>2. ~SuspendResolved(w)
  BY <1>1 DEF SuspendResolved
<1>3. localShutdown \in [Workers -> BOOLEAN] /\ suspended \in [Workers -> BOOLEAN]
  BY DEF TypeOK, LocalTypeOK
<1>4. /\ localShutdown' = [localShutdown EXCEPT ![w] = localShutdown[w] /\ ~SuspendResolved(w)]
      /\ suspended' = [suspended EXCEPT ![w] = suspended[w] \/ SuspendResolved(w)]
  BY DEF EmitMarkers
<1> QED
  BY <1>1, <1>2, <1>3, <1>4, Zenon

\* The tail: what each router state does to the collection.
LEMMA RunTailCluster ==
  ASSUME OnlyJoins, TypeOK, TypeOK', Cluster, NEW w \in alive, RunTail(w)
  PROVE  Cluster' /\ ~CollectLifecyclePanics(w)
<1> USE DEF TypeOK
<1>1. /\ w \in Workers /\ w \notin remotes[w] /\ remotes[w] \subseteq alive
      /\ newSet[w] \subseteq remotes[w] \cup {w} /\ oldSet[w] \subseteq newSet[w] /\ w \in oldSet[w]
      /\ newSet[w] \in WorkerSets
  BY ClusterFacts
<1>2. /\ \A u \in Workers : ~localShutdown'[u] /\ ~suspended'[u]
      /\ UNCHANGED <<alive, round, suspending, delivered>>
  BY <1>1, MarkersSuspendNobody DEF RunTail, envVars
<1>3. AcquireTargetKnown(w)
  <2>1. ASSUME collecting[w] # NoKey PROVE NewTarget(w, collecting[w]) \in remotes[w]
    <3>1. collecting[w] \in Keys
      BY <1>1, <2>1 DEF RouterTypeOK
    <3>2. NewTarget(w, collecting[w]) # w
      BY <1>1, <2>1 DEF Cluster, CollectsForOthers
    <3>3. NewTarget(w, collecting[w]) \in newSet[w]
      BY <1>1, <3>1, TargetAssumption DEF NewTarget
    <3> QED
      BY <1>1, <3>2, <3>3
  <2> QED
    BY <2>1 DEF AcquireTargetKnown
<1>4. ~CollectLifecyclePanics(w)
  BY <1>3 DEF CollectLifecyclePanics
<1>5. UNCHANGED panicked /\ (~FinishedLifecycle(w) => UNCHANGED <<remotes, newSet, oldSet>>)
  BY <1>4 DEF RunTail, LifecycleStays, InterrogateLifecycle, CollectNextKey, CollectLifecycleDone,
     FinishedLifecycle, routerVars, peerVars
<1>6. NobodyLeaves'
  BY <1>2, <1>5 DEF Cluster, NobodyLeaves, Members
<1>7. Connected' /\ UNCHANGED newSet
  <2>1. CASE ~FinishedLifecycle(w)
    BY <1>2, <1>5, <2>1 DEF Cluster, Connected
  <2>2. CASE FinishedLifecycle(w)
    <3>1. /\ remotes' = [remotes EXCEPT ![w] = remotes[w] \ (oldSet[w] \ newSet[w])]
          /\ oldSet' = [oldSet EXCEPT ![w] = newSet[w]] /\ UNCHANGED newSet
      BY <2>2 DEF FinishedLifecycle
    <3>2. remotes' = remotes
      <4>1. remotes[w] \ (oldSet[w] \ newSet[w]) = remotes[w]
        BY <1>1
      <4> QED
        BY <1>1, <3>1, <4>1 DEF PeerTypeOK
    <3>3. oldSet'[w] = newSet[w] /\ \A u \in Workers : u # w => oldSet'[u] = oldSet[u]
      BY <1>1, <3>1 DEF RouterTypeOK
    <3>4. \A u \in alive : u \in Workers
      BY DEF EnvTypeOK
    <3> QED
      BY <1>1, <1>2, <3>1, <3>2, <3>3, <3>4 DEF Cluster, Connected
  <2> QED
    BY <1>5, <2>1, <2>2
<1>8. CollectsForOthers'
  <2>1. CASE LifecycleStays(w)
    BY <1>2, <2>1 DEF LifecycleStays, routerVars, Cluster, CollectsForOthers, NewTarget
  <2>2. CASE InterrogateLifecycle(w) \/ CollectLifecycleDone(w) \/ FinishedLifecycle(w)
    <3>1. UNCHANGED <<whitelist, newSet>>
      BY <2>2 DEF InterrogateLifecycle, CollectLifecycleDone, FinishedLifecycle
    <3>2. collecting'[w] = NoKey /\ buffered'[w] = <<>>
      <4>1. CASE InterrogateLifecycle(w) \/ CollectLifecycleDone(w)
        BY <1>1, <4>1 DEF InterrogateLifecycle, CollectLifecycleDone, RouterTypeOK
      <4>2. CASE FinishedLifecycle(w)
        <5>1. mode[w] = "Finished" /\ UNCHANGED <<collecting, buffered>>
          BY <4>2 DEF FinishedLifecycle
        <5> QED
          BY <1>1, <5>1 DEF Cluster, CollectsForOthers
      <4> QED
        BY <2>2, <4>1, <4>2
    <3>3. \A u \in Workers : u # w => /\ mode'[u] = mode[u] /\ collecting'[u] = collecting[u]
                                      /\ buffered'[u] = buffered[u]
      BY <2>2 DEF InterrogateLifecycle, CollectLifecycleDone, FinishedLifecycle, RouterTypeOK
    <3> QED
      BY <1>2, <3>1, <3>2, <3>3 DEF Cluster, CollectsForOthers, NewTarget
  <2>3. CASE CollectNextKey(w)
    <3>1. PICK k \in whitelist[w] : whitelist' = [whitelist EXCEPT ![w] = whitelist[w] \ {k}]
                                    /\ collecting' = [collecting EXCEPT ![w] = k]
      BY <2>3 DEF CollectNextKey
    <3>2. mode[w] = "Collect" /\ buffered' = [buffered EXCEPT ![w] = <<>>] /\ UNCHANGED <<mode, newSet>>
      BY <2>3 DEF CollectNextKey, CollectReturned
    <3>3. collecting'[w] = k /\ whitelist'[w] = whitelist[w] \ {k} /\ buffered'[w] = <<>>
      BY <1>1, <3>1, <3>2 DEF RouterTypeOK
    <3>4. \A u \in Workers : u # w => /\ whitelist'[u] = whitelist[u] /\ collecting'[u] = collecting[u]
                                      /\ buffered'[u] = buffered[u]
      BY <3>1, <3>2 DEF RouterTypeOK
    <3>5. NewTarget(w, k) # w
      BY <1>1 DEF Cluster, CollectsForOthers
    <3> QED
      BY <1>2, <3>2, <3>3, <3>4, <3>5 DEF Cluster, CollectsForOthers, NewTarget
  <2> QED
    BY <1>4, <2>1, <2>2, <2>3 DEF RunTail
<1> QED
  BY <1>4, <1>6, <1>7, <1>8 DEF Cluster

\* The operator: an interrogation finds only keys that go to a worker that
\* joins, although state that was sent early may already be here.
LEMMA StatefulOpCluster ==
  ASSUME OnlyJoins, TypeOK, TypeOK', Cluster, NEW w \in Workers, StatefulOp(w) PROVE Cluster'
<1> USE DEF TypeOK
<1>1. w \in alive /\ UNCHANGED <<clusterVars, panicked, buffered>>
  BY DEF StatefulOp, clusterVars, peerVars, localVars, envVars
<1>2. CASE UNCHANGED whitelist
  BY <1>1, <1>2, ClusterStays
<1>3. CASE whitelist' = [whitelist EXCEPT ![w] =
                           whitelist[w] \cup {k \in Keys : opState[w][k] # {} /\ Moves(w, k)}]
  <2>1. UNCHANGED <<alive, round, suspending, localShutdown, suspended, remotes, newSet, oldSet,
                    delivered, mode, collecting, panicked, buffered>>
    BY <1>1 DEF clusterVars
  <2>2. \A k \in Keys : Moves(w, k) => NewTarget(w, k) # w
    <3>1. /\ newSet[w] \in WorkerSets /\ oldSet[w] \in WorkerSets
          /\ oldSet[w] \subseteq newSet[w] /\ w \in oldSet[w]
      BY <1>1, ClusterFacts
    <3>2. \A k \in Keys : Target[newSet[w]][k] \in oldSet[w] => Target[newSet[w]][k] = Target[oldSet[w]][k]
      BY <3>1 DEF OnlyJoins, MinimalMoves
    <3> QED
      BY <3>1, <3>2 DEF Moves, NewTarget, OldTarget
  <2>3. \A k \in whitelist'[w] : NewTarget(w, k) # w
    BY <1>3, <2>2 DEF RouterTypeOK, Cluster, CollectsForOthers
  <2>4. \A u \in Workers : u # w => whitelist'[u] = whitelist[u]
    BY <1>3 DEF RouterTypeOK
  <2>5. NobodyLeaves' /\ Connected'
    BY <2>1 DEF Cluster, NobodyLeaves, Members, Connected
  <2>6. CollectsForOthers'
    BY <1>1, <2>1, <2>3, <2>4 DEF Cluster, CollectsForOthers, NewTarget
  <2> QED
    BY <2>5, <2>6 DEF Cluster
<1> QED
  BY <1>2, <1>3 DEF StatefulOp, StatefulData, StatefulInterrogate, StatefulCollect, StatefulAcquire,
     StatefulBarrier, StatefulEpoch, StatefulForward

\* Workers that join are connected to everybody; nobody is outside the new set.
LEMMA StartRescaleCluster ==
  ASSUME OnlyJoins, TypeOK, TypeOK', RescaleCore, Cluster, StartRescale PROVE Cluster'
<1> USE DEF TypeOK
<1> DEFINE joining == Scales[round + 1] \ alive
           all     == alive \cup joining
<1>1. /\ RescaleDone /\ round' = round + 1 /\ alive' = all /\ round < Len(Scales)
      /\ newSet' = [w \in Workers |-> IF w \in joining THEN all ELSE newSet[w]]
      /\ oldSet' = [w \in Workers |-> IF w \in joining THEN all ELSE oldSet[w]]
      /\ remotes' = [w \in Workers |-> IF w \in joining THEN all \ {w} ELSE remotes[w]]
      /\ delivered' = [w \in Workers |-> IF w \in joining THEN round ELSE delivered[w]]
      /\ UNCHANGED <<mode, whitelist, collecting, buffered, suspended, panicked, suspending>>
      /\ UNCHANGED localShutdown
  BY DEF StartRescale, localVars
<1>2. round \in Nat /\ round + 1 \in 1..Len(Scales) /\ Scales[round + 1] \subseteq Workers
      /\ DOMAIN Scales = 1..Len(Scales)
  BY <1>1, ScalesType, DistributorAssumption DEF EnvTypeOK
<1>3. all = Scales[round + 1]
  <2>1. alive = WorkersBefore(round + 1)
    <3>1. round = 0 \/ round # 0
      OBVIOUS
    <3>2. (round + 1 = 1 <=> round = 0) /\ (round + 1) - 1 = round
      BY <1>2
    <3> QED
      BY <3>1, <3>2 DEF Cluster, NobodyLeaves, Members, WorkersBefore
  <2>2. WorkersBefore(round + 1) \subseteq Scales[round + 1]
    BY <1>2 DEF OnlyJoins, Growing
  <2> QED
    BY <2>1, <2>2
<1>4. \A u \in Workers : u \in all => u \in joining \/ u \in alive
  OBVIOUS
<1>5. \A u \in alive : u \in Workers /\ u \notin joining /\ delivered[u] <= round
  BY <1>1 DEF EnvTypeOK, RescaleDone, RescaleCore, DeliveredBehind
<1>6. all \subseteq Workers
  BY <1>2, <1>3
<1> HIDE DEF joining
<1>7. NobodyLeaves'
  <2>1. alive' = Members'
    BY <1>1, <1>2, <1>3 DEF Members
  <2> QED
    BY <1>1, <2>1 DEF Cluster, NobodyLeaves
<1>8. Connected'
  <2>0. alive' = all /\ alive \subseteq all /\ round' = round + 1 /\ round \in Nat
    BY <1>1, <1>2
  <2>1. ASSUME NEW u \in alive'
        PROVE  /\ remotes'[u] \subseteq alive' \ {u} /\ newSet'[u] \subseteq remotes'[u] \cup {u}
               /\ oldSet'[u] \subseteq newSet'[u] /\ u \in oldSet'[u] /\ delivered'[u] # round'
    <3>1. u \in Workers /\ (u \in joining \/ u \in alive)
      BY <2>0, <1>4, <1>6
    <3> HIDE DEF all
    <3>2. CASE u \in joining
      <4>1. /\ remotes'[u] = all \ {u} /\ newSet'[u] = all /\ oldSet'[u] = all
            /\ delivered'[u] = round /\ u \in all
        BY <1>1, <2>0, <3>1, <3>2
      <4> QED
        BY <2>0, <4>1
    <3>3. CASE u \in alive
      <4>1. /\ remotes'[u] = remotes[u] /\ newSet'[u] = newSet[u] /\ oldSet'[u] = oldSet[u]
            /\ delivered'[u] = delivered[u] /\ delivered[u] <= round /\ delivered[u] \in Nat
        BY <1>1, <1>5, <3>1, <3>3, ScalesType DEF EnvTypeOK
      <4>2. /\ remotes[u] \subseteq alive \ {u} /\ newSet[u] \subseteq remotes[u] \cup {u}
            /\ oldSet[u] \subseteq newSet[u] /\ u \in oldSet[u]
        BY <3>3 DEF Cluster, Connected
      <4> QED
        BY <2>0, <4>1, <4>2
    <3> QED
      BY <3>1, <3>2, <3>3
  <2> QED
    BY <2>1 DEF Connected
<1>9. CollectsForOthers'
  <2>1. \A u \in Workers : mode[u] = "Normal"
    BY <1>1 DEF RescaleDone, RescaleCore, GoneIsNormal, EnvTypeOK
  <2>2. \A u \in Workers : collecting[u] = NoKey /\ buffered[u] = <<>>
    BY <2>1 DEF Cluster, CollectsForOthers
  <2>3. ASSUME NEW u \in Workers PROVE \A k \in whitelist[u] : Target[newSet'[u]][k] # u
    <3>1. CASE u \in joining
      <4>1. whitelist[u] = {}
        BY <3>1 DEF joining, Cluster, CollectsForOthers
      <4> QED
        BY <4>1
    <3>2. CASE u \notin joining
      BY <1>1, <3>2 DEF Cluster, CollectsForOthers, NewTarget
    <3> QED
      BY <3>1, <3>2
  <2>4. \A u \in Workers : u \notin alive' => whitelist[u] = {}
    BY <1>1 DEF Cluster, CollectsForOthers
  <2> HIDE DEF all
  <2> QED
    BY <1>1, <2>2, <2>3, <2>4 DEF CollectsForOthers, NewTarget
<1> QED
  BY <1>7, <1>8, <1>9 DEF Cluster

\* Nobody is outside the set of workers the coordinator wants.
LEMMA NoWorkerLeaves ==
  ASSUME TypeOK, Cluster, NEW w \in Workers, WorkerLeaves(w) PROVE FALSE
<1>1. round \in Nat
  BY ScalesType DEF TypeOK, EnvTypeOK
<1> QED
  BY <1>1 DEF WorkerLeaves, Cluster, NobodyLeaves, Members

\* Only workers of the cluster take steps.
LEMMA RunningIsAlive ==
  ASSUME RunIsAlive, NEW w \in Workers, RunStep(w) PROVE w \in alive
<1>1. turn.worker = w
  <2>1. ASSUME NEW r \in Workers, ReceiveRemote(w, r) PROVE turn.worker = w
    BY <2>1 DEF ReceiveRemote, InRun
  <2>2. ASSUME NoLocal(w) \/ LocalData(w) \/ LocalEpoch(w) \/ LocalBarrier(w) \/ LocalSuspend(w)
               \/ LocalRescale(w)
        PROVE  turn.worker = w
    BY <2>2 DEF NoLocal, LocalData, LocalEpoch, LocalBarrier, LocalSuspend, LocalRescale,
       MayReceiveLocal, AtLocal, InRun
  <2>3. ASSUME RunTail(w) PROVE turn.worker = w
    BY <2>3 DEF RunTail, InRun
  <2> QED
    BY <2>1, <2>2, <2>3 DEF RunStep, LocalControl
<1>2. turn # Idle
  BY <1>1, DistributorAssumption DEF Idle
<1> QED
  BY <1>1, <1>2 DEF RunIsAlive

LEMMA NextCluster ==
  ASSUME OnlyJoins, TypeOK, TypeOK', RescaleInv, Cluster, [Next]_vars PROVE Cluster'
<1> USE DEF RescaleInv
<1>1. CASE UNCHANGED vars
  BY <1>1, ClusterStays DEF vars, clusterVars, routerVars, peerVars, localVars, envVars
<1>2. ASSUME NEW w \in Workers, BeginRun(w) PROVE Cluster'
  BY <1>2, ClusterStays DEF BeginRun, clusterVars, routerVars, peerVars, localVars, envVars
<1>3. ASSUME NEW w \in Workers, RunStep(w) PROVE Cluster'
  <2>1. w \in alive
    BY <1>3, RunningIsAlive
  <2> QED
    BY <1>3, <2>1, ReceiveCluster, LocalDataCluster, LocalRescaleCluster, LocalCluster, RunTailCluster
       DEF RunStep, LocalControl
<1>4. CASE StartSnapshot
  BY <1>4, ClusterStays DEF StartSnapshot, clusterVars, routerVars, peerVars, localVars
<1>5. ~StartSuspend
  BY DEF StartSuspend, OnlyJoins
<1> QED
  BY <1>1, <1>2, <1>3, <1>4, <1>5, StatefulOpCluster, StartRescaleCluster, NoWorkerLeaves
     DEF Next, WorkerStep

LEMMA InitCluster == Init => Cluster
<1> SUFFICES ASSUME Init PROVE Cluster
  OBVIOUS
<1>1. InitWorkers \subseteq Workers
  BY DistributorAssumption DEF WorkerSets
<1>2. NobodyLeaves
  BY DEF Init, NobodyLeaves, Members
<1>3. Connected
  BY <1>1 DEF Init, Connected
<1>4. CollectsForOthers
  BY DEF Init, CollectsForOthers
<1> QED
  BY <1>2, <1>3, <1>4 DEF Cluster

\* While workers only join, no expect() of a distributor fails, at any load:
\* a router never picks a worker it is not connected to, and the keys that it
\* collects all go to other workers ("partitioner returns valid target",
\* keyed/distributed/message_router/collect.rs).
THEOREM NobodyPanics ==
  ASSUME OnlyJoins PROVE Spec => []NeverPanics
<1>1. IInv /\ IInv' /\ Cluster /\ [Next]_vars => Cluster'
  BY NextCluster DEF IInv
<1>2. Cluster => NeverPanics
  BY DEF Cluster, NobodyLeaves, NeverPanics
<1> QED
  BY <1>1, <1>2, InitCluster, Inductive, PTL DEF Spec
----------------------------------------------------------------------------
\* Where a message is.

Placement == OnePlace /\ NoRepeat /\ AmongMembers

\* Two states of the links (of the queues) hold the same data messages.
SameLinks(c, e) ==
  \A i \in Ids : \A l \in Links : (Has(e[l], i) <=> Has(c[l], i)) /\ (Once(c[l], i) => Once(e[l], i))
SameQueues(o, p) ==
  \A i \in Ids : \A w \in Workers : (Has(p[w], i) <=> Has(o[w], i)) /\ (Once(o[w], i) => Once(p[w], i))

\* Data stays where it is when everything else is sent, ...
LEMMA SendingOthers ==
  ASSUME NEW c \in [Links -> Seq(NetworkMessage)], NEW w \in Workers, NEW r \in Workers,
         NEW m \in NetworkMessage, m.kind # "Data"
  PROVE  /\ SameLinks(c, [c EXCEPT ![<<w, r>>] = Append(@, m)])
         /\ SameLinks(c, Broadcast(c, w, m))
<1>1. ASSUME NEW i \in Ids, NEW l \in Links
      PROVE  /\ Has(Append(c[l], m), i) <=> Has(c[l], i)
             /\ Once(c[l], i) => Once(Append(c[l], m), i)
  <2>1. c[l] \in Seq(NetworkMessage) /\ ~Carries(m, i)
    BY DEF Carries
  <2> QED
    BY <2>1, Appending
<1>2. \A l \in Links : \/ [c EXCEPT ![<<w, r>>] = Append(@, m)][l] = c[l]
                       \/ [c EXCEPT ![<<w, r>>] = Append(@, m)][l] = Append(c[l], m)
  OBVIOUS
<1>3. \A l \in Links : Broadcast(c, w, m)[l] = c[l] \/ Broadcast(c, w, m)[l] = Append(c[l], m)
  BY DEF Broadcast
<1> DEFINE e == [c EXCEPT ![<<w, r>>] = Append(@, m)]
           b == Broadcast(c, w, m)
<1>4. (\A l \in Links : e[l] = c[l] \/ e[l] = Append(c[l], m))
      /\ (\A l \in Links : b[l] = c[l] \/ b[l] = Append(c[l], m))
  BY <1>2, <1>3
<1> HIDE DEF e, b
<1>5. SameLinks(c, e) /\ SameLinks(c, b)
  BY <1>1, <1>4 DEF SameLinks
<1> QED
  BY <1>5 DEF e, b

\* ... taken off a link ...
LEMMA ReceivingOthers ==
  ASSUME NEW c \in [Links -> Seq(NetworkMessage)], NEW l0 \in Links, c[l0] # <<>>,
         \A i \in Ids : \A l \in Links : Once(c[l], i)
  PROVE  \A i \in Ids : \A l \in Links :
            /\ Has([c EXCEPT ![l0] = Tail(@)][l], i)
                 <=> Has(c[l], i) /\ ~(l = l0 /\ Carries(Head(c[l0]), i))
            /\ Once([c EXCEPT ![l0] = Tail(@)][l], i)
<1> SUFFICES ASSUME NEW i \in Ids, NEW l \in Links
             PROVE  /\ Has([c EXCEPT ![l0] = Tail(@)][l], i)
                         <=> Has(c[l], i) /\ ~(l = l0 /\ Carries(Head(c[l0]), i))
                    /\ Once([c EXCEPT ![l0] = Tail(@)][l], i)
  OBVIOUS
<1> DEFINE e == [c EXCEPT ![l0] = Tail(@)]
<1>1. e[l] = IF l = l0 THEN Tail(c[l]) ELSE c[l]
  OBVIOUS
<1> HIDE DEF e
<1>2. CASE l = l0
  <2>1. c[l] \in Seq(NetworkMessage) /\ c[l] # <<>> /\ Once(c[l], i)
    BY <1>2
  <2>2. (Has(Tail(c[l]), i) <=> Has(c[l], i) /\ ~Carries(Head(c[l]), i)) /\ Once(Tail(c[l]), i)
    BY <2>1, TakingOff
  <2>3. (Has(e[l], i) <=> Has(c[l], i) /\ ~(l = l0 /\ Carries(Head(c[l0]), i))) /\ Once(e[l], i)
    BY <1>1, <1>2, <2>2
  <2> QED
    BY <2>3 DEF e
<1>3. CASE l # l0
  <2>1. (Has(e[l], i) <=> Has(c[l], i) /\ ~(l = l0 /\ Carries(Head(c[l0]), i))) /\ Once(e[l], i)
    BY <1>1, <1>3
  <2> QED
    BY <2>1 DEF e
<1> QED
  BY <1>2, <1>3

\* ... or put into the queue of an operator.
LEMMA QueueingOthers ==
  ASSUME NEW o \in [Workers -> Seq(OperatorMessage)], NEW w \in Workers,
         NEW t \in Seq(OperatorMessage), \A n \in DOMAIN t : t[n].kind # "Data"
  PROVE  SameQueues(o, [o EXCEPT ![w] = @ \o t])
<1> DEFINE p == [o EXCEPT ![w] = @ \o t]
<1>1. \A u \in Workers : p[u] = IF u = w THEN o[u] \o t ELSE o[u]
  OBVIOUS
<1> HIDE DEF p
<1>2. ASSUME NEW i \in Ids, NEW u \in Workers
      PROVE  (Has(p[u], i) <=> Has(o[u], i)) /\ (Once(o[u], i) => Once(p[u], i))
  <2>1. o[u] \in Seq(OperatorMessage) /\ ~Has(t, i) /\ Once(t, i)
    BY NoDataInside
  <2>2. /\ Has(o[u] \o t, i) <=> Has(o[u], i)
        /\ Once(o[u], i) => Once(o[u] \o t, i)
    BY <2>1, Joining
  <2> QED
    BY <1>1, <2>2
<1>3. SameQueues(o, p)
  BY <1>2 DEF SameQueues
<1> QED
  BY <1>3 DEF p

LEMMA QueueingOne ==
  ASSUME NEW o \in [Workers -> Seq(OperatorMessage)], NEW w \in Workers,
         NEW m \in OperatorMessage, m.kind # "Data"
  PROVE  SameQueues(o, [o EXCEPT ![w] = Append(@, m)])
<1> DEFINE p == [o EXCEPT ![w] = Append(@, m)]
<1>1. \A u \in Workers : p[u] = IF u = w THEN Append(o[u], m) ELSE o[u]
  OBVIOUS
<1> HIDE DEF p
<1>2. ASSUME NEW i \in Ids, NEW u \in Workers
      PROVE  (Has(p[u], i) <=> Has(o[u], i)) /\ (Once(o[u], i) => Once(p[u], i))
  <2>1. o[u] \in Seq(OperatorMessage) /\ ~Carries(m, i)
    BY DEF Carries
  <2>2. /\ Has(Append(o[u], m), i) <=> Has(o[u], i)
        /\ Once(o[u], i) => Once(Append(o[u], m), i)
    BY <2>1, Appending
  <2> QED
    BY <1>1, <2>2
<1>3. SameQueues(o, p)
  BY <1>2 DEF SameQueues
<1> QED
  BY <1>3 DEF p

\* How the places of message i change with the links, buffers and queues.
LEMMA Whereabouts ==
  ASSUME NEW i \in Ids
  PROVE  /\ (\A l \in Links : Has(chan'[l], i) <=> Has(chan[l], i)) => LinksWith'[i] = LinksWith[i]
         /\ (\A u \in Workers : Keeps(buffered'[u], i) <=> Keeps(buffered[u], i)) =>
              BuffersWith'[i] = BuffersWith[i]
         /\ (\A u \in Workers : Has(out'[u], i) <=> Has(out[u], i)) => QueuesWith'[i] = QueuesWith[i]
         /\ \A k \in Links : (\A l \in Links : Has(chan'[l], i) <=> l = k) => LinksWith'[i] = {k}
         /\ \A w \in Workers :
              /\ (\A u \in Workers : Keeps(buffered'[u], i) <=> u = w) => BuffersWith'[i] = {w}
              /\ (\A u \in Workers : Has(out'[u], i) <=> u = w) => QueuesWith'[i] = {w}
         /\ (\A l \in Links : ~Has(chan'[l], i)) => LinksWith'[i] = {}
         /\ (\A u \in Workers : ~Keeps(buffered'[u], i)) => BuffersWith'[i] = {}
         /\ (\A u \in Workers : ~Has(out'[u], i)) => QueuesWith'[i] = {}
<1>1. /\ LinksWith[i] = {l \in Links : Has(chan[l], i)}
      /\ BuffersWith[i] = {u \in Workers : Keeps(buffered[u], i)}
      /\ QueuesWith[i] = {u \in Workers : Has(out[u], i)}
  BY DEF LinksWith, BuffersWith, QueuesWith
<1>2. /\ LinksWith'[i] = {l \in Links : Has(chan'[l], i)}
      /\ BuffersWith'[i] = {u \in Workers : Keeps(buffered'[u], i)}
      /\ QueuesWith'[i] = {u \in Workers : Has(out'[u], i)}
  BY DEF LinksWith, BuffersWith, QueuesWith
<1>3. (\A l \in Links : Has(chan'[l], i) <=> Has(chan[l], i)) => LinksWith'[i] = LinksWith[i]
  BY <1>1, <1>2
<1>4. (\A u \in Workers : Keeps(buffered'[u], i) <=> Keeps(buffered[u], i)) =>
        BuffersWith'[i] = BuffersWith[i]
  BY <1>1, <1>2
<1>5. (\A u \in Workers : Has(out'[u], i) <=> Has(out[u], i)) => QueuesWith'[i] = QueuesWith[i]
  BY <1>1, <1>2
<1>6. ASSUME NEW k \in Links, \A l \in Links : Has(chan'[l], i) <=> l = k PROVE LinksWith'[i] = {k}
  BY <1>2, <1>6
<1>7. ASSUME NEW w \in Workers, \A u \in Workers : Keeps(buffered'[u], i) <=> u = w
      PROVE  BuffersWith'[i] = {w}
  BY <1>2, <1>7
<1>8. ASSUME NEW w \in Workers, \A u \in Workers : Has(out'[u], i) <=> u = w
      PROVE  QueuesWith'[i] = {w}
  BY <1>2, <1>8
<1>9. /\ (\A l \in Links : ~Has(chan'[l], i)) => LinksWith'[i] = {}
      /\ (\A u \in Workers : ~Keeps(buffered'[u], i)) => BuffersWith'[i] = {}
      /\ (\A u \in Workers : ~Has(out'[u], i)) => QueuesWith'[i] = {}
  BY <1>2
<1> QED
  BY <1>3, <1>4, <1>5, <1>6, <1>7, <1>8, <1>9

\* A step that leaves all data where it is.
LEMMA PlacementStays ==
  ASSUME Placement, SameLinks(chan, chan'), SameQueues(out, out'),
         UNCHANGED <<buffered, nextId, consumed>>, alive \subseteq alive'
  PROVE  Placement'
<1>1. LinksWith' = LinksWith
  <2>1. ASSUME NEW i \in Ids PROVE {l \in Links : Has(chan'[l], i)} = {l \in Links : Has(chan[l], i)}
    BY DEF SameLinks
  <2> QED
    BY <2>1 DEF LinksWith
<1>2. QueuesWith' = QueuesWith
  <2>1. ASSUME NEW i \in Ids PROVE {w \in Workers : Has(out'[w], i)} = {w \in Workers : Has(out[w], i)}
    BY DEF SameQueues
  <2> QED
    BY <2>1 DEF QueuesWith
<1>3. BuffersWith' = BuffersWith
  BY DEF BuffersWith
<1>4. OnePlace'
  BY <1>1, <1>2, <1>3 DEF Placement, OnePlace, Single, Absent
<1>5. NoRepeat'
  BY DEF Placement, NoRepeat, SameLinks, SameQueues
<1>6. AmongMembers'
  BY <1>1, <1>2, <1>3 DEF Placement, AmongMembers
<1> QED
  BY <1>4, <1>5, <1>6 DEF Placement
\* A step in which message j comes to one place, and all others stay.
LEMMA Lands ==
  ASSUME TypeOK, TypeOK', OnePlace, NEW j \in Ids,
         consumed[j] = 0, j < nextId',
         \A i \in Ids : i # j => (i < nextId' <=> i < nextId),
         UNCHANGED consumed,
         \A i \in Ids : i # j => /\ LinksWith'[i] = LinksWith[i] /\ BuffersWith'[i] = BuffersWith[i]
                                 /\ QueuesWith'[i] = QueuesWith[i],
         Single(j)'
  PROVE  OnePlace'
<1>1. nextId \in Int /\ nextId' \in Int /\ \A i \in Ids : i \in Int
  BY DistributorAssumption DEF TypeOK, EnvTypeOK, Ids
<1>2. ASSUME NEW i \in Ids, i # j
      PROVE  \/ i < nextId' /\ consumed'[i] = 0 /\ Single(i)'
             \/ i < nextId' /\ consumed'[i] = 1 /\ Absent(i)'
             \/ i >= nextId' /\ consumed'[i] = 0 /\ Absent(i)'
  <2>1. /\ LinksWith'[i] = LinksWith[i] /\ BuffersWith'[i] = BuffersWith[i]
        /\ QueuesWith'[i] = QueuesWith[i]
    BY <1>2
  <2>2. (Single(i) => Single(i)') /\ (Absent(i) => Absent(i)')
    BY <2>1 DEF Single, Absent
  <2> QED
    BY <1>1, <1>2, <2>2 DEF OnePlace
<1>3. j < nextId' /\ consumed'[j] = 0
  OBVIOUS
<1>4. Single(j)'
  OBVIOUS
<1> QED
  BY <1>2, <1>3, <1>4 DEF OnePlace

\* A data message that is routed leaves the place it came from, if any, and
\* comes to exactly one other; c is the state of the links without it.
LEMMA Routed ==
  ASSUME TypeOK, TypeOK', Placement, NEW w \in alive, NEW d \in DataMessage,
         NEW c \in [Links -> Seq(NetworkMessage)],
         \A i \in Ids : \A l \in Links : (Has(c[l], i) <=> Has(chan[l], i) /\ i # d.id) /\ Once(c[l], i),
         BuffersWith[d.id] = {}, QueuesWith[d.id] = {}, consumed[d.id] = 0, d.id < nextId',
         \A i \in Ids : i # d.id => (i < nextId' <=> i < nextId),
         UNCHANGED <<consumed, alive>>, Destination(w, d, c)
  PROVE  Placement'
<1> DEFINE j == d.id
<1>1. w \in Workers /\ j \in Ids /\ version[w] \in Nat /\ alive \subseteq Workers
  BY DEF TypeOK, EnvTypeOK, RouterTypeOK, DataMessage
<1>2. \A i \in Ids : /\ LinksWith[i] = {l \in Links : Has(chan[l], i)}
                     /\ BuffersWith[i] = {u \in Workers : Keeps(buffered[u], i)}
                     /\ QueuesWith[i] = {u \in Workers : Has(out[u], i)}
  BY DEF LinksWith, BuffersWith, QueuesWith
<1>4. \A i \in Ids : \A l \in Links : (Has(c[l], i) <=> Has(chan[l], i) /\ i # j) /\ Once(c[l], i)
  OBVIOUS
<1>5. \A i \in Ids : \A u \in Workers : Once(out[u], i) /\ KeepsOnce(buffered[u], i)
  BY DEF Placement, NoRepeat
<1>6. BuffersWith[j] = {} /\ QueuesWith[j] = {} /\ \A u \in Workers : ~Has(out[u], j) /\ ~Keeps(buffered[u], j)
  BY <1>1, <1>2
<1>7. \A i \in Ids : /\ \A r, u \in Workers : <<r, u>> \in LinksWith[i] => r \in alive /\ u \in alive /\ r # u
                     /\ BuffersWith[i] \subseteq alive /\ QueuesWith[i] \subseteq alive
  BY DEF Placement, AmongMembers
<1>8. ASSUME Single(j)',
             \A i \in Ids : i # j => /\ LinksWith'[i] = LinksWith[i] /\ BuffersWith'[i] = BuffersWith[i]
                                     /\ QueuesWith'[i] = QueuesWith[i],
             \A r, u \in Workers : <<r, u>> \in LinksWith'[j] => r \in alive /\ u \in alive /\ r # u,
             BuffersWith'[j] \subseteq alive, QueuesWith'[j] \subseteq alive
      PROVE  OnePlace' /\ AmongMembers'
  <2>1. OnePlace'
    BY <1>1, <1>8, Lands DEF Placement
  <2>2. ASSUME NEW i \in Ids
        PROVE /\ \A r, u \in Workers : <<r, u>> \in LinksWith'[i] => r \in alive /\ u \in alive /\ r # u
              /\ BuffersWith'[i] \subseteq alive /\ QueuesWith'[i] \subseteq alive
    <3>1. CASE i = j
      BY <1>8, <3>1
    <3>2. CASE i # j
      <4>1. /\ LinksWith'[i] = LinksWith[i] /\ BuffersWith'[i] = BuffersWith[i]
            /\ QueuesWith'[i] = QueuesWith[i]
        BY <1>8, <3>2
      <4> QED
        BY <1>7, <4>1
    <3> QED
      BY <3>1, <3>2
  <2>3. AmongMembers'
    BY <2>2 DEF AmongMembers
  <2> QED
    BY <2>1, <2>3
<1>9. ASSUME chan' = c
      PROVE  /\ \A i \in Ids : i # j => LinksWith'[i] = LinksWith[i]
             /\ LinksWith'[j] = {}
             /\ \A i \in Ids : \A l \in Links : Once(chan'[l], i)
  <2>1. \A i \in Ids : \A l \in Links : (Has(chan'[l], i) <=> Has(chan[l], i) /\ i # j) /\ Once(chan'[l], i)
    BY <1>4, <1>9
  <2>2. ASSUME NEW i \in Ids, i # j PROVE LinksWith'[i] = LinksWith[i]
    BY <2>1, <2>2, Whereabouts
  <2>3. LinksWith'[j] = {}
    BY <1>1, <2>1, Whereabouts
  <2> QED
    BY <2>1, <2>2, <2>3
<1>10. ASSUME out' = out
       PROVE  /\ \A i \in Ids : QueuesWith'[i] = QueuesWith[i]
              /\ \A i \in Ids : \A u \in Workers : Once(out'[u], i)
  <2>1. ASSUME NEW i \in Ids PROVE QueuesWith'[i] = QueuesWith[i]
    BY <1>10, Whereabouts
  <2> QED
    BY <1>5, <1>10, <2>1
<1>11. ASSUME buffered' = buffered
       PROVE  /\ \A i \in Ids : BuffersWith'[i] = BuffersWith[i]
              /\ \A i \in Ids : \A u \in Workers : KeepsOnce(buffered'[u], i)
  <2>1. ASSUME NEW i \in Ids PROVE BuffersWith'[i] = BuffersWith[i]
    BY <1>11, Whereabouts
  <2> QED
    BY <1>5, <1>11, <2>1
<1>12. CASE out' = [out EXCEPT ![w] = Append(@, [kind |-> "Data", data |-> d])] /\ chan' = c
            /\ buffered' = buffered
  <2> DEFINE m == [kind |-> "Data", data |-> d]
  <2>1. m \in OperatorMessage /\ \A i \in Ids : Carries(m, i) <=> i = j
    BY MessageTypes DEF Carries
  <2>2. out \in [Workers -> Seq(OperatorMessage)] /\ out' = [out EXCEPT ![w] = Append(out[w], m)]
    BY <1>12 DEF TypeOK, LinkTypeOK
  <2> HIDE DEF m
  <2>3. out'[w] = Append(out[w], m) /\ \A u \in Workers : u # w => out'[u] = out[u]
    BY <1>1, <2>2
  <2>4. out[w] \in Seq(OperatorMessage)
    BY <1>1, <2>2
  <2>5. \A i \in Ids : (Has(out'[w], i) <=> Has(out[w], i) \/ i = j) /\ Once(out'[w], i)
    BY <1>1, <1>5, <1>6, <2>1, <2>3, <2>4, Appending
  <2>6. QueuesWith'[j] = {w} /\ \A i \in Ids : i # j => QueuesWith'[i] = QueuesWith[i]
    <3>1. ASSUME NEW i \in Ids, i # j PROVE QueuesWith'[i] = QueuesWith[i]
      <4>1. \A u \in Workers : Has(out'[u], i) <=> Has(out[u], i)
        BY <2>3, <2>5, <3>1
      <4> QED
        BY <4>1, Whereabouts
    <3>2. \A u \in Workers : Has(out'[u], j) <=> u = w
      BY <1>1, <1>6, <2>3, <2>5
    <3> QED
      BY <1>1, <3>1, <3>2, Whereabouts
  <2>7. \A i \in Ids : \A u \in Workers : Once(out'[u], i)
    BY <1>5, <2>3, <2>5
  <2>8. Single(j)'
    BY <1>1, <1>6, <1>9, <1>11, <1>12, <2>6 DEF Single
  <2>9. OnePlace' /\ AmongMembers'
    <3>1. LinksWith'[j] = {} /\ BuffersWith'[j] = {} /\ QueuesWith'[j] \subseteq alive
      BY <1>1, <1>6, <1>9, <1>11, <1>12, <2>6
    <3> QED
      BY <1>8, <1>9, <1>11, <1>12, <2>6, <2>8, <3>1
  <2>10. NoRepeat'
    BY <1>9, <1>11, <1>12, <2>7 DEF NoRepeat
  <2> QED
    BY <2>9, <2>10 DEF Placement
<1>13. CASE chan' = c /\ out' = out /\ buffered' = [buffered EXCEPT ![w] = Append(@, d)]
  <2>1. buffered \in [Workers -> Seq(DataMessage)] /\ buffered' = [buffered EXCEPT ![w] = Append(buffered[w], d)]
    BY <1>13 DEF TypeOK, RouterTypeOK
  <2>2. buffered'[w] = Append(buffered[w], d) /\ \A u \in Workers : u # w => buffered'[u] = buffered[u]
    BY <1>1, <2>1
  <2>3. buffered[w] \in Seq(DataMessage)
    BY <1>1, <2>1
  <2>4. \A i \in Ids : (Keeps(buffered'[w], i) <=> Keeps(buffered[w], i) \/ i = j) /\ KeepsOnce(buffered'[w], i)
    BY <1>1, <1>5, <1>6, <2>2, <2>3, Buffering
  <2>5. BuffersWith'[j] = {w} /\ \A i \in Ids : i # j => BuffersWith'[i] = BuffersWith[i]
    <3>1. ASSUME NEW i \in Ids, i # j PROVE BuffersWith'[i] = BuffersWith[i]
      <4>1. \A u \in Workers : Keeps(buffered'[u], i) <=> Keeps(buffered[u], i)
        BY <2>2, <2>4, <3>1
      <4> QED
        BY <4>1, Whereabouts
    <3>2. \A u \in Workers : Keeps(buffered'[u], j) <=> u = w
      BY <1>1, <1>6, <2>2, <2>4
    <3> QED
      BY <1>1, <3>1, <3>2, Whereabouts
  <2>6. \A i \in Ids : \A u \in Workers : KeepsOnce(buffered'[u], i)
    BY <1>5, <2>2, <2>4
  <2>7. Single(j)'
    BY <1>1, <1>6, <1>9, <1>10, <1>13, <2>5 DEF Single
  <2>8. OnePlace' /\ AmongMembers'
    <3>1. LinksWith'[j] = {} /\ QueuesWith'[j] = {} /\ BuffersWith'[j] \subseteq alive
      BY <1>1, <1>6, <1>9, <1>10, <1>13, <2>5
    <3> QED
      BY <1>8, <1>9, <1>10, <1>13, <2>5, <2>7, <3>1
  <2>9. NoRepeat'
    BY <1>9, <1>10, <1>13, <2>6 DEF NoRepeat
  <2> QED
    BY <2>8, <2>9 DEF Placement
<1>14. ASSUME NEW t \in alive \ {w},
              chan' = [c EXCEPT ![<<w, t>>] =
                         Append(@, [kind |-> "Data", data |-> d, version |-> version[w]])],
              out' = out, buffered' = buffered
       PROVE  Placement'
  <2> DEFINE m == [kind |-> "Data", data |-> d, version |-> version[w]]
             k == <<w, t>>
  <2>1. m \in NetworkMessage /\ \A i \in Ids : Carries(m, i) <=> i = j
    BY <1>1, MessageTypes DEF Carries
  <2>2. k \in Links /\ chan' = [c EXCEPT ![k] = Append(c[k], m)]
    BY <1>1, <1>14 DEF Links
  <2>3. \A r, u \in Workers : <<r, u>> = k => r = w /\ u = t
    OBVIOUS
  <2> HIDE DEF m, k
  <2>4. chan'[k] = Append(c[k], m) /\ \A l \in Links : l # k => chan'[l] = c[l]
    BY <2>2
  <2>5. c[k] \in Seq(NetworkMessage) /\ ~Has(c[k], j)
    BY <1>1, <1>4, <2>2
  <2>6. \A i \in Ids : (Has(chan'[k], i) <=> Has(c[k], i) \/ i = j) /\ Once(chan'[k], i)
    BY <1>1, <1>4, <2>1, <2>2, <2>4, <2>5, Appending
  <2>7. \A i \in Ids : \A l \in Links : Has(chan'[l], i) <=> (Has(chan[l], i) /\ i # j) \/ (l = k /\ i = j)
    BY <1>4, <2>2, <2>4, <2>6
  <2>8. LinksWith'[j] = {k} /\ \A i \in Ids : i # j => LinksWith'[i] = LinksWith[i]
    <3>1. ASSUME NEW i \in Ids, i # j PROVE LinksWith'[i] = LinksWith[i]
      BY <2>7, <3>1, Whereabouts
    <3>2. \A l \in Links : Has(chan'[l], j) <=> l = k
      BY <1>1, <2>7
    <3> QED
      BY <1>1, <2>2, <3>1, <3>2, Whereabouts
  <2>9. \A i \in Ids : \A l \in Links : Once(chan'[l], i)
    BY <1>4, <2>4, <2>6
  <2>10. Single(j)'
    BY <1>1, <1>6, <1>10, <1>11, <1>14, <2>2, <2>8 DEF Single
  <2>11. OnePlace' /\ AmongMembers'
    <3>1. BuffersWith'[j] = {} /\ QueuesWith'[j] = {}
      BY <1>1, <1>6, <1>10, <1>11, <1>14
    <3>2. \A r, u \in Workers : <<r, u>> \in LinksWith'[j] => r \in alive /\ u \in alive /\ r # u
      BY <1>14, <2>3, <2>8
    <3> QED
      BY <1>8, <1>10, <1>11, <1>14, <2>8, <2>10, <3>1, <3>2
  <2>12. NoRepeat'
    BY <1>10, <1>11, <1>14, <2>9 DEF NoRepeat
  <2> QED
    BY <2>11, <2>12 DEF Placement
<1> QED
  BY <1>12, <1>13, <1>14 DEF Destination
\* A message that is found somewhere is nowhere else.
LEMMA FoundOnLink ==
  ASSUME OnePlace, NEW i \in Ids, NEW l \in Links, Has(chan[l], i)
  PROVE  /\ LinksWith[i] = {l} /\ BuffersWith[i] = {} /\ QueuesWith[i] = {}
         /\ consumed[i] = 0 /\ i < nextId
<1>1. l \in LinksWith[i]
  BY DEF LinksWith
<1>2. ~Absent(i)
  BY <1>1 DEF Absent
<1>3. i < nextId /\ consumed[i] = 0 /\ Single(i)
  BY <1>2 DEF OnePlace
<1> QED
  BY <1>1, <1>3 DEF Single

LEMMA FoundInBuffer ==
  ASSUME OnePlace, NEW i \in Ids, NEW w \in Workers, Keeps(buffered[w], i)
  PROVE  /\ LinksWith[i] = {} /\ BuffersWith[i] = {w} /\ QueuesWith[i] = {}
         /\ consumed[i] = 0 /\ i < nextId
<1>1. w \in BuffersWith[i]
  BY DEF BuffersWith
<1>2. ~Absent(i)
  BY <1>1 DEF Absent
<1>3. i < nextId /\ consumed[i] = 0 /\ Single(i)
  BY <1>2 DEF OnePlace
<1> QED
  BY <1>1, <1>3 DEF Single

LEMMA FoundInQueue ==
  ASSUME OnePlace, NEW i \in Ids, NEW w \in Workers, Has(out[w], i)
  PROVE  /\ LinksWith[i] = {} /\ BuffersWith[i] = {} /\ QueuesWith[i] = {w}
         /\ consumed[i] = 0 /\ i < nextId
<1>1. w \in QueuesWith[i]
  BY DEF QueuesWith
<1>2. ~Absent(i)
  BY <1>1 DEF Absent
<1>3. i < nextId /\ consumed[i] = 0 /\ Single(i)
  BY <1>2 DEF OnePlace
<1> QED
  BY <1>1, <1>3 DEF Single

LEMMA PlacementFacts ==
  ASSUME Placement
  PROVE  /\ \A i \in Ids : \A l \in Links : Once(chan[l], i)
         /\ \A i \in Ids : \A w \in Workers : Once(out[w], i) /\ KeepsOnce(buffered[w], i)
  BY DEF Placement, NoRepeat

LEMMA ReceivePlacement ==
  ASSUME TypeOK, TypeOK', PolledLinksFilled, Cluster, Placement, NEW w \in alive, NEW r \in Workers,
         ReceiveRemote(w, r)
  PROVE  Placement'
<1> DEFINE l0 == <<r, w>>
           m == Head(chan[l0])
<1>1. w \in Workers /\ l0 \in Links /\ chan[l0] # <<>>
  BY ClusterFacts DEF ReceiveRemote, InRun, PolledLinksFilled, Links
<1>2. chan \in [Links -> Seq(NetworkMessage)] /\ out \in [Workers -> Seq(OperatorMessage)]
  BY DEF TypeOK, LinkTypeOK
<1>3. m \in NetworkMessage /\ Popped(r, w) \in [Links -> Seq(NetworkMessage)]
  BY <1>1, <1>2, LinkTypes, MessageTypes DEF Popped
<1>4. m.kind = "Data" => Destination(w, m.data, Popped(r, w))
  BY ReceiveCluster
<1>5. UNCHANGED <<alive, nextId, consumed>>
  BY DEF ReceiveRemote, RemoteData, envVars, histVars
<1>6. Popped(r, w) = [chan EXCEPT ![l0] = Tail(@)]
  BY DEF Popped
<1>7. \A i \in Ids : \A l \in Links :
         /\ Has(Popped(r, w)[l], i) <=> Has(chan[l], i) /\ ~(l = l0 /\ Carries(m, i))
         /\ Once(Popped(r, w)[l], i)
  <2> HIDE DEF l0
  <2> QED
    BY <1>1, <1>2, <1>6, PlacementFacts, ReceivingOthers
<1>8. \A i \in Ids : Carries(m, i) => Has(chan[l0], i)
  <2>1. chan[l0] \in Seq(NetworkMessage)
    BY <1>1, <1>2
  <2> HIDE DEF l0
  <2> QED
    BY <1>1, <2>1, TakingOff
<1> HIDE DEF m, l0
<1>9. CASE m.kind = "Data"
  <2> DEFINE j == m.data.id
  <2>1. m.data \in DataMessage /\ j \in Ids
    BY <1>3, <1>9, NetworkFields DEF DataMessage
  <2>2. \A i \in Ids : Carries(m, i) <=> i = j
    BY <1>9 DEF Carries
  <2>3. LinksWith[j] = {l0} /\ BuffersWith[j] = {} /\ QueuesWith[j] = {} /\ consumed[j] = 0 /\ j < nextId
    BY <1>1, <1>8, <2>1, <2>2, FoundOnLink DEF Placement
  <2>4. \A l \in Links : Has(chan[l], j) => l = l0
    BY <2>1, <2>3 DEF LinksWith
  <2>5. \A i \in Ids : \A l \in Links :
           (Has(Popped(r, w)[l], i) <=> Has(chan[l], i) /\ i # j) /\ Once(Popped(r, w)[l], i)
    BY <1>7, <2>2, <2>4
  <2>6. Destination(w, m.data, Popped(r, w))
    BY <1>4, <1>9
  <2>7. j < nextId' /\ \A i \in Ids : i # j => (i < nextId' <=> i < nextId)
    BY <1>5, <2>3
  <2> QED
    BY <1>3, <1>5, <2>1, <2>3, <2>5, <2>6, <2>7, Routed
<1>10. CASE m.kind # "Data"
  <2>1. \A i \in Ids : ~Carries(m, i)
    BY <1>10 DEF Carries
  <2>2. SameLinks(chan, Popped(r, w))
    BY <1>7, <2>1 DEF SameLinks
  <2>3. /\ RemoteEpoch(w, r, m) \/ RemoteMarker(w, r, m) \/ RemoteAcquire(w, r, m)
           \/ RemoteUpgrade(w, r, m) \/ RemoteAckUpgrade(w, r, m)
        /\ chan' = IF m.kind = "Upgrade"
                   THEN [Popped(r, w) EXCEPT ![<<w, r>>] =
                           Append(@, [kind |-> "AckUpgrade", version |-> m.version])]
                   ELSE Popped(r, w)
        /\ UNCHANGED buffered
    BY <1>10 DEF ReceiveRemote, RemoteData, routerVars, m, l0
  <2>4. SameLinks(chan, chan')
    <3>1. CASE m.kind # "Upgrade"
      BY <2>2, <2>3, <3>1
    <3>2. CASE m.kind = "Upgrade"
      <4> DEFINE a == [kind |-> "AckUpgrade", version |-> m.version]
      <4>1. a \in NetworkMessage /\ a.kind # "Data"
        BY <1>3, <3>2, NetworkFields, MessageTypes
      <4>2. chan' = [Popped(r, w) EXCEPT ![<<w, r>>] = Append(@, a)]
        BY <2>3, <3>2
      <4> HIDE DEF a
      <4>3. SameLinks(Popped(r, w), chan')
        BY <1>1, <1>3, <4>1, <4>2, SendingOthers
      <4> QED
        BY <2>2, <4>3 DEF SameLinks
    <3> QED
      BY <3>1, <3>2
  <2>5. SameQueues(out, out')
    <3>1. CASE RemoteEpoch(w, r, m)
      <4> DEFINE e == HandleEpoch(w, frontier'[w], localFrontier[w])
      <4>1. e \in Seq(OperatorMessage)
        BY <1>1, HandleEpochType DEF TypeOK, PeerTypeOK, LocalTypeOK
      <4>2. \A n \in DOMAIN e : e[n].kind # "Data"
        BY DEF HandleEpoch
      <4>3. out' = [out EXCEPT ![w] = @ \o e]
        BY <3>1 DEF RemoteEpoch
      <4> HIDE DEF e
      <4> QED
        BY <1>1, <1>2, <4>1, <4>2, <4>3, QueueingOthers
    <3>2. CASE RemoteAcquire(w, r, m)
      <4>1. m \in OperatorMessage /\ m.kind # "Data" /\ out' = [out EXCEPT ![w] = Append(@, m)]
        BY <1>3, <1>10, <3>2, NetworkFields DEF RemoteAcquire
      <4> QED
        BY <1>1, <1>2, <4>1, QueueingOne
    <3>3. CASE RemoteMarker(w, r, m) \/ RemoteUpgrade(w, r, m) \/ RemoteAckUpgrade(w, r, m)
      BY <3>3 DEF RemoteMarker, RemoteUpgrade, RemoteAckUpgrade, SameQueues
    <3> QED
      BY <2>3, <3>1, <3>2, <3>3
  <2> QED
    BY <1>5, <2>3, <2>4, <2>5, PlacementStays
<1> QED
  BY <1>9, <1>10

LEMMA LocalDataPlacement ==
  ASSUME TypeOK, TypeOK', Cluster, Placement, NEW w \in alive, LocalData(w) PROVE Placement'
<1>1. PICK d \in DataMessage : d.id = nextId /\ Destination(w, d, chan)
  BY LocalDataCluster
<1>2. nextId \in Ids /\ nextId' = nextId + 1 /\ UNCHANGED <<consumed, alive>>
  BY LocalDataCluster DEF LocalData, envVars
<1>3. nextId \in Int /\ \A i \in Ids : i \in Int
  BY DistributorAssumption DEF TypeOK, EnvTypeOK, Ids
<1>4. LinksWith[d.id] = {} /\ BuffersWith[d.id] = {} /\ QueuesWith[d.id] = {} /\ consumed[d.id] = 0
  BY <1>1, <1>2, <1>3 DEF Placement, OnePlace, Absent
<1>5. \A l \in Links : ~Has(chan[l], d.id)
  BY <1>1, <1>2, <1>4 DEF LinksWith
<1>6. \A i \in Ids : \A l \in Links : (Has(chan[l], i) <=> Has(chan[l], i) /\ i # d.id) /\ Once(chan[l], i)
  BY <1>5, PlacementFacts
<1>7. d.id < nextId' /\ \A i \in Ids : i # d.id => (i < nextId' <=> i < nextId)
  BY <1>1, <1>2, <1>3
<1>8. chan \in [Links -> Seq(NetworkMessage)]
  BY DEF TypeOK, LinkTypeOK
<1> QED
  BY <1>1, <1>2, <1>4, <1>6, <1>7, <1>8, Routed

\* Epochs, barriers and Rescale messages of the local upstream.
LEMMA LocalPlacement ==
  ASSUME TypeOK, TypeOK', Cluster, Placement, NEW w \in alive,
         NoLocal(w) \/ LocalEpoch(w) \/ LocalBarrier(w) \/ LocalRescale(w)
  PROVE  Placement'
<1>1. w \in Workers /\ chan \in [Links -> Seq(NetworkMessage)] /\ out \in [Workers -> Seq(OperatorMessage)]
  BY ClusterFacts DEF TypeOK, LinkTypeOK
<1>2. SameLinks(chan, chan) /\ SameQueues(out, out)
  BY DEF SameLinks, SameQueues
<1>3. CASE NoLocal(w)
  BY <1>2, <1>3, PlacementStays DEF NoLocal, routerVars, envVars, histVars
<1>4. CASE LocalEpoch(w)
  <2>1. PICK e \in (localFrontier[w] + 1)..MaxEpoch :
          /\ chan' = Broadcast(chan, w, [kind |-> "Epoch", ts |-> e])
          /\ out' = [out EXCEPT ![w] = @ \o HandleEpoch(w, frontier[w], e)]
    BY <1>4 DEF LocalEpoch
  <2>2. e \in Nat \ {NoTime} /\ e \in Nat
    BY <1>1, DistributorAssumption DEF TypeOK, LocalTypeOK, NoTime
  <2> DEFINE m == [kind |-> "Epoch", ts |-> e]
             t == HandleEpoch(w, frontier[w], e)
  <2>3. m \in NetworkMessage /\ m.kind # "Data"
    BY <2>2, MessageTypes
  <2>4. t \in Seq(OperatorMessage) /\ \A n \in DOMAIN t : t[n].kind # "Data"
    <3>1. t \in Seq(OperatorMessage)
      BY <1>1, <2>2, HandleEpochType DEF TypeOK, PeerTypeOK
    <3>2. \A n \in DOMAIN t : t[n].kind # "Data"
      BY DEF HandleEpoch
    <3> QED
      BY <3>1, <3>2
  <2>5. chan' = Broadcast(chan, w, m) /\ out' = [out EXCEPT ![w] = @ \o t]
    BY <2>1
  <2> HIDE DEF m, t
  <2>6. SameLinks(chan, chan')
    BY <1>1, <2>3, <2>5, SendingOthers
  <2>7. SameQueues(out, out')
    BY <1>1, <2>4, <2>5, QueueingOthers
  <2> QED
    BY <1>4, <2>6, <2>7, PlacementStays DEF LocalEpoch, routerVars, envVars, histVars
<1>5. CASE LocalBarrier(w)
  <2> DEFINE m == [kind |-> "BarrierMarker"]
  <2>1. m \in NetworkMessage /\ m.kind # "Data" /\ chan' = Broadcast(chan, w, m)
    BY <1>5, MessageTypes DEF LocalBarrier
  <2> HIDE DEF m
  <2>2. SameLinks(chan, chan')
    BY <1>1, <2>1, SendingOthers
  <2> QED
    BY <1>2, <1>5, <2>2, PlacementStays DEF LocalBarrier, routerVars, histVars
<1>6. CASE LocalRescale(w)
  <2> DEFINE m == [kind |-> "Interrogate"]
  <2>1. m \in OperatorMessage /\ m.kind # "Data" /\ (out' = out \/ out' = [out EXCEPT ![w] = Append(@, m)])
    BY <1>6, MessageTypes DEF LocalRescale
  <2> HIDE DEF m
  <2>2. SameQueues(out, out')
    BY <1>1, <1>2, <2>1, QueueingOne
  <2> QED
    BY <1>2, <1>6, <2>2, PlacementStays DEF LocalRescale, histVars
<1> QED
  BY <1>3, <1>4, <1>5, <1>6
\* The end of a collection: what was buffered follows the state on its link.
LEMMA FlushMovesBuffer ==
  ASSUME TypeOK, Cluster, Placement, NEW w \in alive, AcquireTargetKnown(w)
  PROVE  \/ FlushCollected(w) = chan /\ buffered[w] = <<>>
         \/ \E t \in alive \ {w} : \A i \in Ids : \A l \in Links :
              /\ Has(FlushCollected(w)[l], i) <=> Has(chan[l], i) \/ (l = <<w, t>> /\ Keeps(buffered[w], i))
              /\ Once(FlushCollected(w)[l], i)
<1> USE DEF TypeOK
<1>1. w \in Workers /\ remotes[w] \subseteq alive /\ w \notin remotes[w] /\ alive \subseteq Workers
  BY ClusterFacts DEF EnvTypeOK
<1>2. CASE collecting[w] = NoKey
  BY <1>1, <1>2 DEF FlushCollected, Cluster, CollectsForOthers
<1>3. CASE collecting[w] # NoKey
  <2> DEFINE t == NewTarget(w, collecting[w])
             k == <<w, t>>
             acquire == [kind |-> "Acquire", key |-> collecting[w], state |-> collected[w]]
             data == [n \in DOMAIN buffered[w] |->
                        [kind |-> "Data", data |-> buffered[w][n], version |-> version[w]]]
             F == FlushCollected(w)
  <2>1. t \in alive \ {w} /\ k \in Links
    BY <1>1, <1>3 DEF AcquireTargetKnown, Links
  <2>2. acquire \in NetworkMessage /\ \A i \in Ids : ~Has(<<acquire>>, i) /\ Once(<<acquire>>, i)
    <3>1. acquire \in NetworkMessage
      BY <1>1, <1>3, MessageTypes DEF RouterTypeOK
    <3>2. \A n \in DOMAIN <<acquire>> : <<acquire>>[n].kind # "Data"
      OBVIOUS
    <3> QED
      BY <3>1, <3>2, NoDataInside
  <2>3. data \in Seq(NetworkMessage)
        /\ \A i \in Ids : (Has(data, i) <=> Keeps(buffered[w], i)) /\ (KeepsOnce(buffered[w], i) => Once(data, i))
    <3>1. buffered[w] \in Seq(DataMessage) /\ version[w] \in Nat
      BY <1>1 DEF RouterTypeOK
    <3>2. DOMAIN buffered[w] = 1..Len(buffered[w]) /\ Len(buffered[w]) \in Nat
      BY <3>1, LenProperties
    <3>3. \A n \in 1..Len(buffered[w]) : buffered[w][n] \in DataMessage
      BY <3>1, ElementOfSeq
    <3>4. \A n \in 1..Len(buffered[w]) :
            [kind |-> "Data", data |-> buffered[w][n], version |-> version[w]] \in NetworkMessage
      BY <3>1, <3>3, MessageTypes
    <3>5. data \in [1..Len(buffered[w]) -> NetworkMessage] /\ DOMAIN data = DOMAIN buffered[w]
          /\ \A n \in DOMAIN buffered[w] : data[n].kind = "Data" /\ data[n].data = buffered[w][n]
      BY <3>2, <3>4
    <3> HIDE DEF data
    <3>6. data \in Seq(NetworkMessage)
      BY <3>2, <3>5, SeqDef
    <3>7. \A n \in DOMAIN data : \A i \in Ids : Carries(data[n], i) <=> buffered[w][n].id = i
      BY <3>5 DEF Carries
    <3> QED
      BY <3>5, <3>6, <3>7 DEF Has, Keeps, Once, KeepsOnce
  <2>4. F = [chan EXCEPT ![k] = @ \o <<acquire>> \o data] /\ chan \in [Links -> Seq(NetworkMessage)]
    BY <1>3 DEF FlushCollected, LinkTypeOK
  <2>5. <<acquire>> \in Seq(NetworkMessage)
    BY <2>2
  <2> HIDE DEF acquire, data, F, k
  <2>6. F[k] = chan[k] \o <<acquire>> \o data /\ \A l \in Links : l # k => F[l] = chan[l]
    BY <2>1, <2>4
  <2>7. ASSUME NEW i \in Ids
        PROVE  (Has(F[k], i) <=> Has(chan[k], i) \/ Keeps(buffered[w], i)) /\ Once(F[k], i)
    <3> DEFINE s == chan[k] \o <<acquire>>
    <3>1. chan[k] \in Seq(NetworkMessage) /\ Once(chan[k], i) /\ KeepsOnce(buffered[w], i)
      BY <1>1, <2>1, <2>4, PlacementFacts
    <3>2. s \in Seq(NetworkMessage)
      BY <2>5, <3>1, SeqFacts
    <3>3. (Has(s, i) <=> Has(chan[k], i)) /\ Once(s, i)
      BY <2>2, <2>5, <3>1, Joining
    <3>4. ~(Has(chan[k], i) /\ Keeps(buffered[w], i))
      <4>1. Has(chan[k], i) => LinksWith[i] = {k}
        BY <2>1, FoundOnLink DEF Placement
      <4>2. Keeps(buffered[w], i) => LinksWith[i] = {}
        BY <1>1, FoundInBuffer DEF Placement
      <4> QED
        BY <4>1, <4>2
    <3> HIDE DEF s
    <3>5. (Has(s \o data, i) <=> Has(s, i) \/ Has(data, i)) /\ Once(s \o data, i)
      BY <2>3, <3>1, <3>2, <3>3, <3>4, Joining
    <3> QED
      BY <2>3, <2>6, <3>3, <3>5 DEF s
  <2>8. \A i \in Ids : \A l \in Links :
          (Has(F[l], i) <=> Has(chan[l], i) \/ (l = k /\ Keeps(buffered[w], i))) /\ Once(F[l], i)
    BY <2>6, <2>7, PlacementFacts
  <2>9. \A i \in Ids : \A l \in Links :
          /\ Has(FlushCollected(w)[l], i) <=> Has(chan[l], i) \/ (l = <<w, t>> /\ Keeps(buffered[w], i))
          /\ Once(FlushCollected(w)[l], i)
    BY <2>8 DEF F, k
  <2> HIDE DEF t
  <2> QED
    BY <2>1, <2>9
<1> QED
  BY <1>2, <1>3

LEMMA FlushPlacement ==
  ASSUME TypeOK, TypeOK', Cluster, Placement, NEW w \in alive, AcquireTargetKnown(w),
         SameLinks(FlushCollected(w), chan'), SameQueues(out, out'),
         buffered' = [buffered EXCEPT ![w] = <<>>], UNCHANGED <<nextId, consumed, alive>>
  PROVE  Placement'
<1>1. w \in Workers /\ alive \subseteq Workers /\ buffered \in [Workers -> Seq(DataMessage)]
  BY ClusterFacts DEF TypeOK, EnvTypeOK, RouterTypeOK
<1>2. buffered'[w] = <<>> /\ \A u \in Workers : u # w => buffered'[u] = buffered[u]
  BY <1>1
<1>3. CASE FlushCollected(w) = chan /\ buffered[w] = <<>>
  <2>1. buffered' = buffered
    BY <1>1, <1>3
  <2> QED
    BY <1>3, <2>1, PlacementStays
<1>4. ASSUME NEW t \in alive \ {w},
             \A i \in Ids : \A l \in Links :
              /\ Has(FlushCollected(w)[l], i) <=> Has(chan[l], i) \/ (l = <<w, t>> /\ Keeps(buffered[w], i))
              /\ Once(FlushCollected(w)[l], i)
      PROVE  Placement'
  <2> DEFINE k == <<w, t>>
  <2>1. k \in Links /\ \A r, u \in Workers : <<r, u>> = k => r = w /\ u = t
    BY <1>1 DEF Links
  <2>2. \A i \in Ids : \A l \in Links :
          (Has(chan'[l], i) <=> Has(chan[l], i) \/ (l = k /\ Keeps(buffered[w], i))) /\ Once(chan'[l], i)
    BY <1>4 DEF SameLinks
  <2>3. \A i \in Ids : \A u \in Workers : (Has(out'[u], i) <=> Has(out[u], i)) /\ Once(out'[u], i)
    BY PlacementFacts DEF SameQueues
  <2> HIDE DEF k
  <2>4. NoRepeat'
    <3>1. \A i \in Ids : \A u \in Workers : KeepsOnce(buffered'[u], i)
      BY <1>2, PlacementFacts, EmptySequence
    <3> QED
      BY <2>2, <2>3, <3>1 DEF NoRepeat
  <2>5. ASSUME NEW i \in Ids, Keeps(buffered[w], i)
        PROVE  /\ LinksWith'[i] = {k} /\ BuffersWith'[i] = {} /\ QueuesWith'[i] = {}
               /\ consumed[i] = 0 /\ i < nextId
    <3>1. /\ LinksWith[i] = {} /\ BuffersWith[i] = {w} /\ QueuesWith[i] = {}
          /\ consumed[i] = 0 /\ i < nextId
      BY <1>1, <2>5, FoundInBuffer DEF Placement
    <3>2. /\ \A l \in Links : ~Has(chan[l], i)
          /\ \A u \in Workers : Keeps(buffered[u], i) => u = w
          /\ \A u \in Workers : ~Has(out[u], i)
      BY <3>1 DEF LinksWith, BuffersWith, QueuesWith
    <3>3. /\ \A l \in Links : Has(chan'[l], i) <=> l = k
          /\ \A u \in Workers : ~Keeps(buffered'[u], i)
          /\ \A u \in Workers : ~Has(out'[u], i)
      BY <1>2, <2>2, <2>3, <2>5, <3>2, EmptySequence
    <3> QED
      BY <2>1, <3>1, <3>3, Whereabouts
  <2>6. ASSUME NEW i \in Ids, ~Keeps(buffered[w], i)
        PROVE  /\ LinksWith'[i] = LinksWith[i] /\ BuffersWith'[i] = BuffersWith[i]
               /\ QueuesWith'[i] = QueuesWith[i]
    <3>1. /\ \A l \in Links : Has(chan'[l], i) <=> Has(chan[l], i)
          /\ \A u \in Workers : Keeps(buffered'[u], i) <=> Keeps(buffered[u], i)
          /\ \A u \in Workers : Has(out'[u], i) <=> Has(out[u], i)
      BY <1>2, <2>2, <2>3, <2>6, EmptySequence
    <3> QED
      BY <3>1, Whereabouts
  <2>7. OnePlace'
    <3>1. ASSUME NEW i \in Ids
          PROVE  \/ i < nextId' /\ consumed'[i] = 0 /\ Single(i)'
                 \/ i < nextId' /\ consumed'[i] = 1 /\ Absent(i)'
                 \/ i >= nextId' /\ consumed'[i] = 0 /\ Absent(i)'
      <4>1. CASE Keeps(buffered[w], i)
        BY <2>1, <2>5, <4>1 DEF Single
      <4>2. CASE ~Keeps(buffered[w], i)
        <5>1. (Single(i) => Single(i)') /\ (Absent(i) => Absent(i)')
          BY <2>6, <4>2 DEF Single, Absent
        <5> QED
          BY <5>1 DEF Placement, OnePlace
      <4> QED
        BY <4>1, <4>2
    <3> QED
      BY <3>1 DEF OnePlace
  <2>8. AmongMembers'
    <3>1. ASSUME NEW i \in Ids
          PROVE  /\ \A r, u \in Workers : <<r, u>> \in LinksWith'[i] => r \in alive /\ u \in alive /\ r # u
                 /\ BuffersWith'[i] \subseteq alive /\ QueuesWith'[i] \subseteq alive
      <4>1. CASE Keeps(buffered[w], i)
        BY <1>4, <2>1, <2>5, <4>1
      <4>2. CASE ~Keeps(buffered[w], i)
        BY <2>6, <4>2 DEF Placement, AmongMembers
      <4> QED
        BY <4>1, <4>2
    <3> QED
      BY <3>1 DEF AmongMembers
  <2> QED
    BY <2>4, <2>7, <2>8 DEF Placement
<1> QED
  BY <1>3, <1>4, FlushMovesBuffer
\* The tail of a run.
LEMMA RunTailPlacement ==
  ASSUME OnlyJoins, TypeOK, TypeOK', Cluster, Placement, NEW w \in alive, RunTail(w) PROVE Placement'
<1>1. w \in Workers /\ chan \in [Links -> Seq(NetworkMessage)] /\ out \in [Workers -> Seq(OperatorMessage)]
      /\ version[w] \in Nat
  BY ClusterFacts DEF TypeOK, LinkTypeOK, RouterTypeOK
<1>2. UNCHANGED <<nextId, consumed, alive>> /\ ~CollectLifecyclePanics(w)
  BY RunTailCluster DEF RunTail, histVars, envVars
<1>3. SameLinks(chan, chan)
  BY DEF SameLinks
<1> DEFINE p == [out EXCEPT ![w] = @ \o MarkerOut(w)]
<1>4. p \in [Workers -> Seq(OperatorMessage)] /\ SameQueues(out, p)
  <2>1. MarkerOut(w) \in Seq(OperatorMessage)
    BY <1>1, MarkerOutType
  <2>2. \A n \in DOMAIN MarkerOut(w) : MarkerOut(w)[n].kind # "Data"
    BY DEF MarkerOut
  <2>3. out[w] \o MarkerOut(w) \in Seq(OperatorMessage)
    BY <1>1, <2>1, SeqFacts
  <2> QED
    BY <1>1, <2>1, <2>2, <2>3, QueueingOthers
<1>5. ASSUME NEW m \in OperatorMessage, m.kind # "Data",
             out' = [out EXCEPT ![w] = @ \o MarkerOut(w) \o <<m>>]
      PROVE  SameQueues(out, out')
  <2>1. p[w] = out[w] \o MarkerOut(w)
    BY <1>1
  <2>2. out' = [p EXCEPT ![w] = @ \o <<m>>]
    BY <1>1, <1>5
  <2>3. <<m>> \in Seq(OperatorMessage) /\ \A n \in DOMAIN <<m>> : <<m>>[n].kind # "Data"
    BY <1>5
  <2> HIDE DEF p
  <2>4. SameQueues(p, out')
    BY <1>1, <1>4, <2>2, <2>3, QueueingOthers
  <2> QED
    BY <1>4, <2>4 DEF SameQueues
<1> HIDE DEF p
<1>6. CASE LifecycleStays(w)
  <2>1. out' = p /\ UNCHANGED <<chan, buffered>>
    BY <1>6 DEF LifecycleStays, routerVars, p
  <2> QED
    BY <1>2, <1>3, <1>4, <2>1, PlacementStays
<1>7. CASE InterrogateLifecycle(w)
  <2>1. /\ out' = p /\ UNCHANGED chan /\ mode[w] = "Interrogate"
        /\ buffered' = [buffered EXCEPT ![w] = <<>>]
    BY <1>7 DEF InterrogateLifecycle, p
  <2>2. buffered[w] = <<>>
    BY <1>1, <2>1 DEF Cluster, CollectsForOthers
  <2>3. buffered' = buffered
    BY <1>1, <2>1, <2>2 DEF TypeOK, RouterTypeOK
  <2> QED
    BY <1>2, <1>3, <1>4, <2>1, <2>3, PlacementStays
<1>8. CASE CollectNextKey(w)
  <2>1. PICK k \in whitelist[w] :
          out' = [out EXCEPT ![w] = @ \o MarkerOut(w) \o <<[kind |-> "Collect", key |-> k]>>]
    BY <1>8 DEF CollectNextKey
  <2>2. [kind |-> "Collect", key |-> k] \in OperatorMessage
    BY <1>1, MessageTypes DEF TypeOK, RouterTypeOK
  <2>3. SameQueues(out, out')
    BY <1>5, <2>1, <2>2
  <2>4. /\ AcquireTargetKnown(w) /\ chan' = FlushCollected(w)
        /\ buffered' = [buffered EXCEPT ![w] = <<>>]
    BY <1>8 DEF CollectNextKey
  <2>5. SameLinks(FlushCollected(w), chan')
    BY <2>4 DEF SameLinks
  <2> QED
    BY <1>2, <2>3, <2>4, <2>5, FlushPlacement
<1>9. CASE CollectLifecycleDone(w)
  <2> DEFINE m == [kind |-> "Upgrade", version |-> version[w]]
  <2>1. /\ AcquireTargetKnown(w) /\ chan' = Broadcast(FlushCollected(w), w, m)
        /\ buffered' = [buffered EXCEPT ![w] = <<>>] /\ out' = p
    BY <1>9 DEF CollectLifecycleDone, p
  <2>2. m \in NetworkMessage /\ m.kind # "Data"
    BY <1>1, MessageTypes
  <2>3. FlushCollected(w) \in [Links -> Seq(NetworkMessage)]
    BY <1>1, <2>1, FlushCollectedType
  <2> HIDE DEF m
  <2>4. SameLinks(FlushCollected(w), chan')
    BY <1>1, <2>1, <2>2, <2>3, SendingOthers
  <2> QED
    BY <1>2, <1>4, <2>1, <2>4, FlushPlacement
<1>10. CASE FinishedLifecycle(w)
  <2>1. /\ out' = [out EXCEPT ![w] = @ \o MarkerOut(w) \o <<[kind |-> "Rescale"]>>]
        /\ UNCHANGED <<chan, buffered>>
    BY <1>10 DEF FinishedLifecycle
  <2>2. [kind |-> "Rescale"] \in OperatorMessage
    BY MessageTypes
  <2>3. SameQueues(out, out')
    BY <1>5, <2>1, <2>2
  <2> QED
    BY <1>2, <1>3, <2>1, <2>3, PlacementStays
<1> QED
  BY <1>2, <1>6, <1>7, <1>8, <1>9, <1>10 DEF RunTail

\* The operator consumes a message once, and it is gone from the queue.
LEMMA StatefulOpPlacement ==
  ASSUME TypeOK, TypeOK', Placement, NEW w \in Workers, StatefulOp(w) PROVE Placement'
<1> DEFINE m == Head(out[w])
<1>1. /\ out \in [Workers -> Seq(OperatorMessage)] /\ out[w] # <<>>
      /\ out' = [out EXCEPT ![w] = Tail(out[w])] /\ UNCHANGED <<chan, buffered, nextId, alive>>
  BY DEF StatefulOp, TypeOK, LinkTypeOK, envVars
<1>2. m \in OperatorMessage
  BY <1>1, SeqFacts
<1>3. out'[w] = Tail(out[w]) /\ \A u \in Workers : u # w => out'[u] = out[u]
  BY <1>1
<1>4. \A i \in Ids : (Has(out'[w], i) <=> Has(out[w], i) /\ ~Carries(m, i)) /\ Once(out'[w], i)
                     /\ (Carries(m, i) => Has(out[w], i))
  <2>1. out[w] \in Seq(OperatorMessage) /\ \A i \in Ids : Once(out[w], i)
    BY <1>1, PlacementFacts
  <2> QED
    BY <1>1, <1>3, <2>1, TakingOff
<1>5. \/ m.kind = "Data" /\ consumed' = [consumed EXCEPT ![m.data.id] = @ + 1]
      \/ m.kind # "Data" /\ UNCHANGED consumed
  BY DEF StatefulOp, StatefulData, StatefulInterrogate, StatefulCollect, StatefulAcquire,
     StatefulBarrier, StatefulEpoch, StatefulForward
<1> HIDE DEF m
<1>6. CASE m.kind # "Data" /\ UNCHANGED consumed
  <2>1. \A i \in Ids : ~Carries(m, i)
    BY <1>6 DEF Carries
  <2>2. SameQueues(out, out') /\ SameLinks(chan, chan')
    BY <1>1, <1>3, <1>4, <2>1 DEF SameQueues, SameLinks
  <2> QED
    BY <1>1, <1>6, <2>2, PlacementStays
<1>7. CASE m.kind = "Data" /\ consumed' = [consumed EXCEPT ![m.data.id] = @ + 1]
  <2> DEFINE j == m.data.id
  <2>1. j \in Ids
    BY <1>2, <1>7, OperatorFields DEF DataMessage
  <2>2. \A i \in Ids : Carries(m, i) <=> i = j
    BY <1>7 DEF Carries
  <2>3. /\ LinksWith[j] = {} /\ BuffersWith[j] = {} /\ QueuesWith[j] = {w}
        /\ consumed[j] = 0 /\ j < nextId
    BY <1>4, <2>1, <2>2, FoundInQueue DEF Placement
  <2>4. \A u \in Workers : Has(out[u], j) => u = w
    BY <2>1, <2>3 DEF QueuesWith
  <2>5. consumed'[j] = 1 /\ \A i \in Ids : i # j => consumed'[i] = consumed[i]
    BY <1>7, <2>1, <2>3 DEF TypeOK, EnvTypeOK
  <2>6. LinksWith' = LinksWith /\ BuffersWith' = BuffersWith
    BY <1>1 DEF LinksWith, BuffersWith
  <2>7. QueuesWith'[j] = {}
    <3>1. \A u \in Workers : ~Has(out'[u], j)
      BY <1>3, <1>4, <2>1, <2>2, <2>4
    <3> QED
      BY <2>1, <3>1, Whereabouts
  <2>8. ASSUME NEW i \in Ids, i # j PROVE QueuesWith'[i] = QueuesWith[i]
    <3>1. \A u \in Workers : Has(out'[u], i) <=> Has(out[u], i)
      BY <1>3, <1>4, <2>2, <2>8
    <3> QED
      BY <3>1, Whereabouts
  <2> HIDE DEF j
  <2>9. OnePlace'
    <3>1. ASSUME NEW i \in Ids
          PROVE  \/ i < nextId' /\ consumed'[i] = 0 /\ Single(i)'
                 \/ i < nextId' /\ consumed'[i] = 1 /\ Absent(i)'
                 \/ i >= nextId' /\ consumed'[i] = 0 /\ Absent(i)'
      <4>1. CASE i = j
        BY <1>1, <2>1, <2>3, <2>5, <2>6, <2>7, <4>1 DEF Absent
      <4>2. CASE i # j
        <5>1. (Single(i) => Single(i)') /\ (Absent(i) => Absent(i)')
          BY <2>6, <2>8, <4>2 DEF Single, Absent
        <5> QED
          BY <1>1, <2>5, <4>2, <5>1 DEF Placement, OnePlace
      <4> QED
        BY <4>1, <4>2
    <3> QED
      BY <3>1 DEF OnePlace
  <2>10. AmongMembers'
    <3>1. \A i \in Ids : QueuesWith'[i] \subseteq QueuesWith[i]
      BY <2>1, <2>7, <2>8
    <3> QED
      BY <1>1, <2>6, <3>1 DEF Placement, AmongMembers
  <2>11. NoRepeat'
    BY <1>1, <1>3, <1>4, PlacementFacts DEF NoRepeat
  <2> QED
    BY <2>9, <2>10, <2>11 DEF Placement
<1> QED
  BY <1>5, <1>6, <1>7

LEMMA NextPlacement ==
  ASSUME OnlyJoins, TypeOK, TypeOK', RescaleInv, Cluster, Placement, [Next]_vars PROVE Placement'
<1> USE DEF RescaleInv
<1>1. SameLinks(chan, chan) /\ SameQueues(out, out)
  BY DEF SameLinks, SameQueues
<1>2. CASE UNCHANGED vars
  BY <1>1, <1>2, PlacementStays DEF vars, routerVars, envVars, histVars
<1>3. ASSUME NEW w \in Workers, BeginRun(w) PROVE Placement'
  BY <1>1, <1>3, PlacementStays DEF BeginRun, routerVars, envVars, histVars
<1>4. ASSUME NEW w \in Workers, RunStep(w) PROVE Placement'
  <2>1. w \in alive /\ ~LocalSuspend(w)
    BY <1>4, RunningIsAlive, LocalCluster
  <2> QED
    BY <1>4, <2>1, ReceivePlacement, LocalDataPlacement, LocalPlacement, RunTailPlacement
       DEF RunStep, LocalControl
<1>5. CASE StartSnapshot \/ StartRescale
  <2>1. alive \subseteq alive' /\ UNCHANGED <<chan, out, buffered, nextId, consumed>>
    BY <1>5 DEF StartSnapshot, StartRescale, routerVars, histVars
  <2> QED
    BY <1>1, <2>1, PlacementStays
<1>6. ~StartSuspend
  BY DEF StartSuspend, OnlyJoins
<1> QED
  BY <1>2, <1>3, <1>4, <1>5, <1>6, StatefulOpPlacement, NoWorkerLeaves DEF Next, WorkerStep

LEMMA InitPlacement == Init => Placement
<1> SUFFICES ASSUME Init PROVE Placement
  OBVIOUS
<1>1. /\ \A l \in Links : chan[l] = <<>>
      /\ \A w \in Workers : out[w] = <<>> /\ buffered[w] = <<>>
      /\ nextId = 1 /\ \A i \in Ids : consumed[i] = 0 /\ i >= nextId
  BY DistributorAssumption DEF Init, Ids
<1>2. ASSUME NEW i \in Ids PROVE Absent(i)
  <2>1. /\ \A l \in Links : ~Has(chan[l], i)
        /\ \A w \in Workers : ~Has(out[w], i) /\ ~Keeps(buffered[w], i)
    BY <1>1, EmptySequence
  <2>2. /\ {l \in Links : Has(chan[l], i)} = {}
        /\ {w \in Workers : Keeps(buffered[w], i)} = {}
        /\ {w \in Workers : Has(out[w], i)} = {}
    BY <2>1
  <2> QED
    BY <2>2 DEF Absent, LinksWith, BuffersWith, QueuesWith
<1>3. OnePlace
  BY <1>1, <1>2 DEF OnePlace
<1>4. NoRepeat
  BY <1>1, EmptySequence DEF NoRepeat
<1>5. AmongMembers
  BY <1>2 DEF AmongMembers, Absent
<1> QED
  BY <1>3, <1>4, <1>5 DEF Placement
----------------------------------------------------------------------------
\* The inductive invariant, together with the one of the reconfigurations.
DeliveryInv == IInv /\ Cluster /\ Placement

LEMMA DeliveryInductive ==
  ASSUME OnlyJoins PROVE Spec => []DeliveryInv
<1>1. Init => Cluster /\ Placement
  BY InitCluster, InitPlacement
<1>2. IInv /\ IInv' /\ Cluster /\ Placement /\ [Next]_vars => Cluster' /\ Placement'
  BY NextCluster, NextPlacement DEF IInv
<1> QED
  BY <1>1, <1>2, Inductive, PTL DEF Spec, DeliveryInv

\* The places of the invariant are the ones DeliveredExactlyOnce counts.
LEMMA PlacesAreCounted ==
  ASSUME DeliveryInv, NEW i \in Ids
  PROVE  OnLink(i) = LinksWith[i] /\ InBuffer(i) = BuffersWith[i] /\ InQueue(i) = QueuesWith[i]
<1> USE DEF DeliveryInv, IInv, TypeOK
<1>1. /\ LinksWith[i] = {l \in Links : Has(chan[l], i)}
      /\ BuffersWith[i] = {u \in Workers : Keeps(buffered[u], i)}
      /\ QueuesWith[i] = {u \in Workers : Has(out[u], i)}
  BY DEF LinksWith, BuffersWith, QueuesWith
<1>2. alive \subseteq Workers /\ BuffersWith[i] \subseteq alive /\ QueuesWith[i] \subseteq alive
  BY DEF EnvTypeOK, Placement, AmongMembers
<1>3. InBuffer(i) = BuffersWith[i]
  BY <1>1, <1>2 DEF InBuffer, Keeps
<1>4. InQueue(i) = QueuesWith[i]
  <2>1. InQueue(i) = {u \in alive : Has(out[u], i)}
    BY DEF InQueue, Has, Carries
  <2> QED
    BY <1>1, <1>2, <2>1
<1>5. ASSUME NEW l \in LinksWith[i] PROVE Receivable(l[1], l[2])
  <2>1. PICK r \in Workers, w \in Workers : l = <<r, w>>
    BY <1>1 DEF Links
  <2>2. l[1] = r /\ l[2] = w
    BY <2>1
  <2>3. r \in alive /\ w \in alive /\ r # w
    BY <1>5, <2>1 DEF Placement, AmongMembers
  <2>4. ~suspended[w]
    BY <2>1 DEF Cluster, NobodyLeaves
  <2>5. delivered[w] = round => r \in remotes[w]
    BY <2>3 DEF Cluster, Connected
  <2>6. delivered[w] <= round /\ delivered[w] \in Nat /\ round \in Nat
    BY <2>1, ScalesType DEF EnvTypeOK, RescaleInv, RescaleCore, DeliveredBehind
  <2> QED
    BY <2>2, <2>3, <2>4, <2>5, <2>6 DEF Receivable
<1>6. OnLink(i) = LinksWith[i]
  <2>1. OnLink(i) = {l \in Links : Receivable(l[1], l[2]) /\ Has(chan[l], i)}
    BY DEF OnLink, Has, Carries
  <2> QED
    BY <1>1, <1>5, <2>1
<1> QED
  BY <1>3, <1>4, <1>6

\* While workers only join, every message that a distributor accepted from its
\* upstream is delivered to the operator of exactly one worker, exactly once, at
\* any load and through any number of reconfigurations (the routing rules of
\* keyed/distributed/message_router/*.rs): as long as it is not consumed, it is
\* on one link, in one buffer or in one queue, where it can still be consumed.
THEOREM EveryMessageDeliveredOnce ==
  ASSUME OnlyJoins PROVE Spec => []DeliveredExactlyOnce
<1>1. DeliveryInv => DeliveredExactlyOnce
  <2> SUFFICES ASSUME DeliveryInv, NEW i \in Accepted
               PROVE  consumed[i] + Cardinality(OnLink(i)) + Cardinality(InBuffer(i))
                        + Cardinality(InQueue(i)) = 1
    BY DEF DeliveredExactlyOnce
  <2>1. i \in Ids /\ i \in Int /\ nextId \in Int /\ i < nextId
    BY DistributorAssumption DEF DeliveryInv, IInv, TypeOK, EnvTypeOK, Accepted, Ids
  <2>2. OnLink(i) = LinksWith[i] /\ InBuffer(i) = BuffersWith[i] /\ InQueue(i) = QueuesWith[i]
    BY <2>1, PlacesAreCounted
  <2>3. (consumed[i] = 0 /\ Single(i)) \/ (consumed[i] = 1 /\ Absent(i))
    BY <2>1 DEF DeliveryInv, Placement, OnePlace
  <2>4. Cardinality({}) = 0 /\ \A x : Cardinality({x}) = 1
    BY FS_EmptySet, FS_Singleton
  <2>5. CASE consumed[i] = 1 /\ Absent(i)
    BY <2>2, <2>4, <2>5 DEF Absent
  <2>6. CASE consumed[i] = 0 /\ Single(i)
    <3>1. CASE (\E l \in Links : LinksWith[i] = {l}) /\ BuffersWith[i] = {} /\ QueuesWith[i] = {}
      <4>1. Cardinality(OnLink(i)) = 1 /\ Cardinality(InBuffer(i)) = 0 /\ Cardinality(InQueue(i)) = 0
        BY <2>2, <2>4, <3>1
      <4> QED
        BY <2>6, <4>1
    <3>2. CASE LinksWith[i] = {} /\ (\E w \in Workers : BuffersWith[i] = {w}) /\ QueuesWith[i] = {}
      <4>1. Cardinality(OnLink(i)) = 0 /\ Cardinality(InBuffer(i)) = 1 /\ Cardinality(InQueue(i)) = 0
        BY <2>2, <2>4, <3>2
      <4> QED
        BY <2>6, <4>1
    <3>3. CASE LinksWith[i] = {} /\ BuffersWith[i] = {} /\ (\E w \in Workers : QueuesWith[i] = {w})
      <4>1. Cardinality(OnLink(i)) = 0 /\ Cardinality(InBuffer(i)) = 0 /\ Cardinality(InQueue(i)) = 1
        BY <2>2, <2>4, <3>3
      <4> QED
        BY <2>6, <4>1
    <3> QED
      BY <2>6, <3>1, <3>2, <3>3 DEF Single
  <2> QED
    BY <2>3, <2>5, <2>6
<1> QED
  BY <1>1, DeliveryInductive, PTL
============================================================================
