--------------------------- MODULE DataflowProofs ---------------------------
(***************************************************************************)
(* Proofs about Dataflow, for every graph, any records and any bounds.     *)
(*                                                                         *)
(* An edge is the input of one operator and the output of another, so a    *)
(* step changes an edge in one way only: it takes the head, it appends, or *)
(* it leaves the edge alone (EdgeStep).  The invariant has three parts:    *)
(* the wave of a barrier through the graph, the end of the streams, and    *)
(* the order of data and epochs on an edge.                                *)
(***************************************************************************)
EXTENDS Dataflow, TLAPS, WellFoundedInduction, NaturalsInduction, SequenceTheorems

Streams == 0..Len(Kind)
IsOutput(e, p) == IsInput(e, Outputs[p])

MarkerKinds == {"AbsBarrier", "Rescale", "SuspendMarker"}
IsMarker(m)  == m.kind \in MarkerKinds
IsMaxEpoch(m) == m.kind = "Epoch" /\ m.ts = MAX

----------------------------------------------------------------------------
(* The inductive invariant: types and markers.                             *)

\* What an operator has written to a snapshot when a barrier has reached it.
Complete(op, v) ==
  CASE Kind[op] = "source"          -> v \in 0..Len(Feed[op])
    [] Kind[op] = "generate_epochs" -> v \in Times \cup {None}
    [] Kind[op] = "stateful_map"    -> v \in [Records -> Nat]
    [] Kind[op] = "ttl_map"         -> v \subseteq [id : Records, ts : Times]
    [] OTHER                        -> TRUE

SnapshotComplete(snap) ==
  /\ snap = [op \in Ops |-> snap[op]]
  /\ \A op \in Ops : Complete(op, snap[op])

Types ==
  /\ TypeOK
  /\ st = [op \in Ops |-> st[op]]
  /\ saving = [op \in Ops |-> saving[op]]
  /\ committed # None => SnapshotComplete(committed)

\* Only the marker of the request in work is in the graph.
OwnMarkers ==
  \A e \in Edges : \A i \in DOMAIN chan[e] :
    IsMarker(chan[e][i]) => ctl \in DOMAIN Markers /\ chan[e][i].kind = Markers[ctl]

\* The root stream carries nothing but markers.
RootCarriesMarkers ==
  \A e \in Edges : IsOutput(e, 0) =>
    upEpoch[e] = None /\ \A i \in DOMAIN chan[e] : IsMarker(chan[e][i])

NobodySuspends == ctl \notin {"suspend", "suspended"} => \A op \in Ops : ~suspended[op]

\* What generate_epochs receives has an assigned timestamp.
Stamped ==
  \A op \in Ops : Kind[op] = "generate_epochs" =>
    \A e \in Edges : IsInput(e, Inputs[op]) =>
      \A i \in DOMAIN chan[e] : chan[e][i].kind = "Data" => chan[e][i].ts \in Bound..(MAX - 1)

\* The barrier has passed the operators of D: on an edge that leads out of D it
\* is still queued, once, and on no other; who is in D has written its state.
IsBarrier(m) == m.kind = "AbsBarrier"
EdgeWave(D, p, c, q) ==
  /\ c \in D => p \in D \cup {0}
  /\ p \in D \cup {0} /\ c \notin D => \E i \in DOMAIN q : IsBarrier(q[i])
  /\ \A i \in DOMAIN q : IsBarrier(q[i]) =>
       /\ p \in D \cup {0} /\ c \notin D
       /\ \A j \in DOMAIN q : IsBarrier(q[j]) => i = j
Wave(D) ==
  /\ \A p \in Streams, c \in Ops : \A e \in Edges :
       IsOutput(e, p) /\ IsInput(e, Inputs[c]) => EdgeWave(D, p, c, chan[e])
  /\ \A op \in D : Complete(op, saving[op])

BarrierWave == ctl = "snapshot" => \E D \in SUBSET Ops : Wave(D)

ReportedIsComplete ==
  uncommitted => ctl \in {"execute", "complete"} /\ SnapshotComplete(saving)

----------------------------------------------------------------------------
(* The end of the streams.                                                 *)

\* Only markers follow MAX on an edge.
NothingAfterMax ==
  \A e \in Edges :
    /\ upEpoch[e] = MAX => \A j \in DOMAIN chan[e] : IsMarker(chan[e][j])
    /\ \A i, j \in DOMAIN chan[e] : IsMaxEpoch(chan[e][i]) /\ i < j => IsMarker(chan[e][j])

Ending(e) == upEpoch[e] = MAX \/ \E i \in DOMAIN chan[e] : IsMaxEpoch(chan[e][i])

\* An operator sends MAX when all its upstreams have, a source when it is done.
EndsAfterUpstreams ==
  \A p \in Ops : \A e \in Edges : IsOutput(e, p) /\ Ending(e) =>
    IF p \in Sources THEN st[p].maxSent
    ELSE \A d \in Edges : IsInput(d, Inputs[p]) => upEpoch[d] = MAX

SourcesEnd ==
  \A op \in Sources :
    /\ st[op].maxSent => st[op].pos = Len(Feed[op])
    /\ outFrontier[op] = MAX => st[op].maxSent

FrontierOfUpstreams ==
  \A op \in Ops : inFrontier[op] = MAX =>
    \A d \in Edges : IsInput(d, Inputs[op]) => upEpoch[d] = MAX

\* What the pass has found out about the operators it has seen.
PassSoFar ==
  ctl = "execute" /\ allDone =>
    \A op \in Ops : op > cursor =>
      IF op \in Sources THEN outFrontier[op] = MAX ELSE inFrontier[op] = MAX

EndInv ==
  /\ NothingAfterMax /\ EndsAfterUpstreams /\ SourcesEnd /\ FrontierOfUpstreams
  /\ PassSoFar /\ CompletesOnlyWhenDrained

IInv ==
  /\ Types /\ OwnMarkers /\ RootCarriesMarkers /\ NobodySuspends /\ Stamped
  /\ BarrierWave /\ ReportedIsComplete /\ EndInv

----------------------------------------------------------------------------
(* Epochs and data.                                                        *)

Watched(c) == OnTimeOp(c) \/ Kind[c] = "split"
Promised(c, m) == m.kind = "Data" /\ (Kind[c] = "split" => ~m.late)

\* Data is newer than the epochs before it, epochs only grow; up is the last
\* epoch the receiver c has taken from the queue.
Ordered(c, q, up) ==
  /\ \A i, j \in DOMAIN q : i < j /\ q[i].kind = "Epoch" =>
       /\ Promised(c, q[j]) => q[j].ts > q[i].ts
       /\ q[j].kind = "Epoch" => q[j].ts >= q[i].ts
  /\ up # None => \A j \in DOMAIN q :
       /\ Promised(c, q[j]) => q[j].ts > up
       /\ q[j].kind = "Epoch" => q[j].ts >= up

MergedSoFar(c, e) == inFrontier[c] # None => upEpoch[e] # None /\ inFrontier[c] <= upEpoch[e]

\* The last epoch an operator has let through, and what it can have sent.
Latest(p) == IF Kind[p] = "generate_epochs" THEN st[p] ELSE inFrontier[p]
UpTo(p, t) == IF p \in Sources THEN t = MAX ELSE Latest(p) # None /\ t <= Latest(p)

KnownEpochs(q, up) == ({up} \ {None}) \cup SentEpochs(q)
SentBySender(p, e) == \A t \in KnownEpochs(chan[e], upEpoch[e]) : UpTo(p, t)

InOrder ==
  \A c \in Ops : Watched(c) => \A e \in Edges : IsInput(e, Inputs[c]) =>
    /\ Ordered(c, chan[e], upEpoch[e]) /\ MergedSoFar(c, e)
    /\ \A p \in Ops : IsOutput(e, p) => SentBySender(p, e)

----------------------------------------------------------------------------
(* Least elements.                                                         *)

LEMMA LeastNatural ==
  ASSUME NEW T, T \subseteq Nat, T # {}
  PROVE  \E x \in T : \A y \in T : x <= y
<1> DEFINE R == {ss \in Nat \X Nat : ss[1] < ss[2]}
<1>1. IsWellFoundedOn(R, Nat)
  BY NatLessThanWellFounded DEF OpToRel
<1> HIDE DEF R
<1>2. PICK x \in T : \A y \in T : ~(<<y, x>> \in R)
  BY <1>1, WFMin, Zenon
<1>3. ASSUME NEW y \in T, y < x PROVE FALSE
  <2>1. <<y, x>> \in R
    BY <1>3 DEF R
  <2> QED BY <1>2, <2>1
<1> QED BY <1>3

\* merge_timestamps: the smallest epoch, once every upstream has sent one.
LEMMA MergeFacts ==
  ASSUME NEW S, S \subseteq Times \cup {None}, S # {}
  PROVE  /\ MergeTimestamps(S) = None <=> None \in S
         /\ None \notin S => /\ MergeTimestamps(S) \in S \cap Times
                             /\ \A t \in S : MergeTimestamps(S) <= t
<1>1. CASE None \in S
  BY <1>1 DEF MergeTimestamps
<1>2. CASE None \notin S
  <2>1. S \subseteq Nat /\ S \subseteq Times
    BY <1>2, TimeAssumption DEF Times
  <2>2. \E x \in S : \A y \in S : x <= y
    BY <2>1, LeastNatural
  <2>3. /\ MergeTimestamps(S) \in S
        /\ \A t \in S : MergeTimestamps(S) <= t
    BY <1>2, <2>2, Zenon DEF MergeTimestamps
  <2> QED BY <1>2, <2>1, <2>3
<1> QED BY <1>1, <1>2

\* The first upstream that offers a message is one that offers a message.
LEMMA FirstReadyFacts ==
  ASSUME NEW ch, NEW edges, NEW S, edges \in Seq(S), CanProgress(ch, edges)
  PROVE  FirstReady(ch, edges) \in DOMAIN edges /\ CanRecvUnaligned(ch[edges[FirstReady(ch, edges)]])
<1> DEFINE T == {i \in DOMAIN edges : CanRecvUnaligned(ch[edges[i]])}
<1>1. T \subseteq Nat /\ T # {}
  BY DEF CanProgress
<1>2. PICK x \in T : \A y \in T : x <= y
  BY <1>1, LeastNatural
<1>3. x \in DOMAIN edges /\ CanRecvUnaligned(ch[edges[x]])
  BY <1>2
<1>4. \A j \in 1..(x - 1) : ~CanRecvUnaligned(ch[edges[j]])
  <2> SUFFICES ASSUME NEW j \in 1..(x - 1), CanRecvUnaligned(ch[edges[j]]) PROVE FALSE
    OBVIOUS
  <2>1. j \in DOMAIN edges
    BY <1>3
  <2>2. x <= j
    BY <1>2, <2>1
  <2> QED BY <1>3, <2>2
<1> HIDE DEF T
<1> QED BY <1>3, <1>4, Zenon DEF FirstReady
----------------------------------------------------------------------------
(* The graph.                                                              *)

LEMMA GraphTypes ==
  /\ Len(Kind) \in Nat /\ Ops = 1..Len(Kind) /\ Ops \subseteq Streams /\ 0 \in Streams
  /\ \A p \in Streams : Outputs[p] \in Seq(Edges)
  /\ \A c \in Ops : Inputs[c] \in Seq(Edges)
  /\ Sources \subseteq Ops /\ Sinks \subseteq Ops
<1>1. Kind \in Seq(STRING) /\ Len(Kind) \in Nat
  BY GraphAssumption
<1>2. Ops = 1..Len(Kind) /\ Ops \subseteq Streams /\ 0 \in Streams
  BY <1>1 DEF Ops, Streams
<1>3. (\A p \in Streams : Outputs[p] \in Seq(Edges)) /\ \A c \in Ops : Inputs[c] \in Seq(Edges)
  BY GraphAssumption DEF Streams
<1>4. Sources \subseteq Ops /\ Sinks \subseteq Ops
  BY DEF Sources, Sinks
<1> QED BY <1>1, <1>2, <1>3, <1>4

\* The two ends of an edge.
LEMMA EdgeEnds ==
  /\ \A e \in Edges : \E p \in Streams, c \in Ops : IsOutput(e, p) /\ IsInput(e, Inputs[c])
  /\ \A e : \A p, o \in Streams : IsOutput(e, p) /\ IsOutput(e, o) => p = o
  /\ \A e : \A c, o \in Ops : IsInput(e, Inputs[c]) /\ IsInput(e, Inputs[o]) => c = o
  /\ \A e : \A p \in Streams, c \in Ops : IsOutput(e, p) /\ IsInput(e, Inputs[c]) =>
       /\ p < c /\ (p = 0 <=> Kind[c] = "source")
       /\ Kind[c] = "generate_epochs" => Kind[p] = "assign_timestamps"
<1>1. Graph
  BY GraphAssumption
<1>2. \A e \in Edges : \E p \in Streams, c \in Ops : IsOutput(e, p) /\ IsInput(e, Inputs[c])
  BY <1>1 DEF Graph, IsOutput, IsInput, Streams
<1>3. \A e : \A p, o \in Streams : IsOutput(e, p) /\ IsOutput(e, o) => p = o
  BY <1>1 DEF Graph, IsOutput, IsInput, Streams
<1>4. \A e : \A c, o \in Ops : IsInput(e, Inputs[c]) /\ IsInput(e, Inputs[o]) => c = o
  BY <1>1 DEF Graph, IsInput
<1>5. \A e : \A p \in Streams, c \in Ops : IsOutput(e, p) /\ IsInput(e, Inputs[c]) =>
       /\ p < c /\ (p = 0 <=> Kind[c] = "source")
       /\ Kind[c] = "generate_epochs" => Kind[p] = "assign_timestamps"
  BY <1>1 DEF Graph, Link, IsOutput, IsInput, Streams
<1> QED BY <1>2, <1>3, <1>4, <1>5

LEMMA EdgesOfOperators ==
  /\ \A e : \A p \in Streams : IsOutput(e, p) => e \in Edges
  /\ \A e : \A c \in Ops : IsInput(e, Inputs[c]) => e \in Edges
  /\ \A c \in Ops : \E e \in Edges : IsInput(e, Inputs[c])
  /\ \A c \in Ops : Kind[c] = "sink" => \A e : ~IsOutput(e, c)
  /\ \A c \in Ops : \A e : ~(IsOutput(e, c) /\ IsInput(e, Inputs[c]))
<1>1. \A e : \A p \in Streams : IsOutput(e, p) => e \in Edges
  BY GraphTypes DEF IsOutput, IsInput
<1>2. \A e : \A c \in Ops : IsInput(e, Inputs[c]) => e \in Edges
  BY GraphTypes DEF IsInput
<1>3. \A c \in Ops : Inputs[c] # <<>> /\ (Kind[c] = "sink" => Outputs[c] = <<>>)
  BY GraphAssumption DEF Graph
<1>4. ASSUME NEW c \in Ops PROVE \E e \in Edges : IsInput(e, Inputs[c])
  <2>1. 1 \in DOMAIN Inputs[c] /\ Inputs[c][1] \in Edges
    BY <1>3, GraphTypes
  <2> QED BY <2>1 DEF IsInput
<1>5. \A c \in Ops : Kind[c] = "sink" => \A e : ~IsOutput(e, c)
  BY <1>3 DEF IsOutput, IsInput
<1>6. \A c \in Ops : \A e : ~(IsOutput(e, c) /\ IsInput(e, Inputs[c]))
  <2> SUFFICES ASSUME NEW c \in Ops, NEW e, IsOutput(e, c), IsInput(e, Inputs[c]) PROVE FALSE
    OBVIOUS
  <2>1. c \in Streams /\ c \in Nat
    BY GraphTypes
  <2>2. c < c
    BY <2>1, EdgeEnds
  <2> QED BY <2>1, <2>2
<1> QED BY <1>1, <1>2, <1>4, <1>5, <1>6

----------------------------------------------------------------------------
(* Receiving.                                                              *)

MergedFrom(op, m, up) ==
  \/ m = None /\ \E d \in Edges : IsInput(d, Inputs[op]) /\ up[d] = None
  \/ \E t \in Times :
       /\ m = Epoch(t)
       /\ \A d \in Edges : IsInput(d, Inputs[op]) => up[d] \in Times /\ t <= up[d]
       /\ \E d \in Edges : IsInput(d, Inputs[op]) /\ up[d] = t

\* Input::recv has taken the heads of the edges in T, returns m and leaves the
\* epochs up: nothing, one message, or an aligned marker.
ReceivesNothing(T, m, up) == T = {} /\ m = None /\ up = upEpoch
ReceivesOne(op, T, m, up) ==
  \E e \in Edges :
    /\ T = {e} /\ ~NeedsAlignment(Head(chan[e]))
    /\ IF Head(chan[e]).kind # "Epoch" THEN m = Head(chan[e]) /\ up = upEpoch
       ELSE up = [upEpoch EXCEPT ![e] = Head(chan[e]).ts] /\ MergedFrom(op, m, up)
ReceivesAligned(op, T, m, up) ==
  /\ T = {e \in Edges : IsInput(e, Inputs[op])} /\ up = upEpoch
  /\ \E k \in {"AbsBarrier", "SuspendMarker"} :
       m = Marker(k) /\ \A e \in T : Head(chan[e]) = Marker(k)
Reception(op, T, m, up) ==
  /\ T \subseteq Edges
  /\ \A e \in T : IsInput(e, Inputs[op]) /\ chan[e] # <<>>
  /\ ReceivesNothing(T, m, up) \/ ReceivesOne(op, T, m, up) \/ ReceivesAligned(op, T, m, up)

Queues == chan \in [Edges -> Seq(Message)] /\ upEpoch \in [Edges -> Times \cup {None}]

LEMMA MessageKinds ==
  ASSUME NEW m \in Message
  PROVE  /\ m.kind \in {"Data", "Epoch"} \cup MarkerKinds
         /\ m.kind = "Data" => m.id \in Records /\ m.ts \in Times /\ m.late \in BOOLEAN
         /\ m.kind = "Epoch" => m.ts \in Times /\ m = Epoch(m.ts)
         /\ IsMarker(m) => m = Marker(m.kind)
         /\ m # None
<1>1. m # None
  BY NoneAssumption
<1> QED BY <1>1 DEF Message, MarkerKinds, IsMarker, Marker, Epoch

LEMMA RecvFacts ==
  ASSUME Queues, NEW op \in Ops, ~MixedAlignment(chan, Inputs[op])
  PROVE  LET in == Recv(chan, upEpoch, Inputs[op])
         IN  \E T \in SUBSET Edges :
               /\ Reception(op, T, in.msg, in.epochs)
               /\ in.chan = [e \in Edges |-> IF e \in T THEN Tail(chan[e]) ELSE chan[e]]
               /\ in.epochs \in [Edges -> Times \cup {None}]
<1> DEFINE edges == Inputs[op]
           in == Recv(chan, upEpoch, edges)
<1>0. edges \in Seq(Edges) /\ DOMAIN chan = Edges /\ \A e \in Edges : chan[e] \in Seq(Message)
  BY GraphTypes DEF Queues
<1>1. CASE CanProgress(chan, edges)
  <2> DEFINE e == edges[FirstReady(chan, edges)]
             m == Head(chan[e])
             known == IF m.kind = "Epoch" THEN [upEpoch EXCEPT ![e] = m.ts] ELSE upEpoch
             S == {known[edges[j]] : j \in DOMAIN edges}
             merged == MergeTimestamps(S)
  <2>1. FirstReady(chan, edges) \in DOMAIN edges /\ CanRecvUnaligned(chan[e])
    BY <1>0, <1>1, FirstReadyFacts
  <2>2. e \in Edges /\ IsInput(e, edges) /\ chan[e] # <<>> /\ ~NeedsAlignment(m) /\ m \in Message
    BY <1>0, <2>1 DEF CanRecvUnaligned, IsInput
  <2>3. /\ in.msg = IF m.kind # "Epoch" THEN m
                    ELSE IF merged = None THEN None ELSE [kind |-> "Epoch", ts |-> merged]
        /\ in.chan = [chan EXCEPT ![e] = Tail(@)]
        /\ in.epochs = known
    BY <1>1 DEF Recv
  <2>4. known \in [Edges -> Times \cup {None}]
    BY <2>2, MessageKinds DEF Queues
  <2>5. in.chan = [d \in Edges |-> IF d \in {e} THEN Tail(chan[d]) ELSE chan[d]]
    BY <1>0, <2>2, <2>3
  <2>6. m.kind = "Epoch" => MergedFrom(op, in.msg, known)
    <3> SUFFICES ASSUME m.kind = "Epoch" PROVE MergedFrom(op, in.msg, known)
      OBVIOUS
    <3> HIDE DEF known, e, m
    <3>1. S \subseteq Times \cup {None} /\ S # {}
      BY <1>0, <2>1, <2>4
    <3>2. \A d \in Edges : IsInput(d, edges) => known[d] \in S
      BY DEF IsInput
    <3>3. \A t \in S : \E d \in Edges : IsInput(d, edges) /\ known[d] = t
      BY <1>0 DEF IsInput
    <3> HIDE DEF S
    <3>4. CASE None \in S
      <4>1. merged = None
        BY <3>1, <3>4, MergeFacts
      <4>2. in.msg = None
        BY <2>3, <4>1
      <4> QED BY <3>3, <3>4, <4>2 DEF MergedFrom
    <3>5. CASE None \notin S
      <4>1. merged # None /\ merged \in S /\ merged \in Times /\ \A t \in S : merged <= t
        BY <3>1, <3>5, MergeFacts
      <4>2. in.msg = Epoch(merged)
        BY <2>3, <4>1 DEF Epoch
      <4>3. \A d \in Edges : IsInput(d, edges) => known[d] \in Times /\ merged <= known[d]
        BY <3>1, <3>2, <3>5, <4>1
      <4>4. \E d \in Edges : IsInput(d, edges) /\ known[d] = merged
        BY <3>3, <4>1
      <4> QED BY <4>1, <4>2, <4>3, <4>4 DEF MergedFrom
    <3> QED BY <3>4, <3>5
  <2>7. Reception(op, {e}, in.msg, in.epochs)
    BY <2>2, <2>3, <2>6 DEF Reception, ReceivesOne
  <2> QED BY <2>2, <2>3, <2>4, <2>5, <2>7
<1>2. CASE ~CanProgress(chan, edges) /\ Aligned(chan, edges)
  <2> DEFINE T == {e \in Edges : IsInput(e, edges)}
  <2>1. PICK k \in {"AbsBarrier", "SuspendMarker"} : AllUpcoming(chan, edges, k)
    BY <1>2 DEF Aligned
  <2>2. edges # <<>> /\ \A e \in T : chan[e] # <<>> /\ Head(chan[e]).kind = k
    BY <2>1 DEF AllUpcoming, IsInput
  <2>3. \A e \in T : Head(chan[e]) = Marker(k)
    <3> SUFFICES ASSUME NEW e \in T PROVE Head(chan[e]) = Marker(k)
      OBVIOUS
    <3>1. Head(chan[e]) \in Message /\ Head(chan[e]).kind = k
      BY <1>0, <2>2
    <3> QED BY <3>1, MessageKinds DEF IsMarker, MarkerKinds
  <2>4. edges[Len(edges)] \in T
    BY <1>0, <2>2 DEF IsInput
  <2>5. /\ in.msg = Head(chan[edges[Len(edges)]])
        /\ in.chan = [e \in DOMAIN chan |-> IF IsInput(e, edges) THEN Tail(chan[e]) ELSE chan[e]]
        /\ in.epochs = upEpoch
    BY <1>2 DEF Recv
  <2>6. in.msg = Marker(k)
    BY <2>3, <2>4, <2>5
  <2>7. Reception(op, T, in.msg, in.epochs)
    BY <2>2, <2>3, <2>5, <2>6 DEF Reception, ReceivesAligned
  <2>8. in.chan = [e \in Edges |-> IF e \in T THEN Tail(chan[e]) ELSE chan[e]]
    BY <1>0, <2>5
  <2>9. in.epochs \in [Edges -> Times \cup {None}]
    BY <2>5 DEF Queues
  <2> QED BY <2>7, <2>8, <2>9
<1>3. CASE ~CanProgress(chan, edges) /\ ~Aligned(chan, edges)
  <2>1. in = [msg |-> None, chan |-> chan, epochs |-> upEpoch]
    BY <1>3 DEF Recv
  <2>2. in.msg = None /\ in.chan = chan /\ in.epochs = upEpoch
    BY <2>1
  <2>3. Reception(op, {}, in.msg, in.epochs)
    BY <2>2 DEF Reception, ReceivesNothing
  <2>4. in.chan = [e \in Edges |-> IF e \in {} THEN Tail(chan[e]) ELSE chan[e]]
    BY <1>0, <2>2 DEF Queues
  <2> QED BY <2>2, <2>3, <2>4 DEF Queues
<1> QED BY <1>1, <1>2, <1>3

\* What Input::recv returns is a message.
LEMMA ReceivedType ==
  ASSUME Queues, NEW op \in Ops, NEW T, NEW m, NEW up, Reception(op, T, m, up)
  PROVE  m \in Message \cup {None}
<1>1. \A e \in T : Head(chan[e]) \in Message
  BY DEF Reception, Queues
<1>2. \A t \in Times : Epoch(t) \in Message
  BY DEF Epoch, Message
<1>3. \A k \in {"AbsBarrier", "SuspendMarker"} : Marker(k) \in Message
  BY DEF Marker, Message
<1> QED BY <1>1, <1>2, <1>3 DEF Reception, ReceivesNothing, ReceivesOne, ReceivesAligned, MergedFrom

----------------------------------------------------------------------------
(* One step of an operator.                                                *)

Handled(op, s, m) == IF m = None THEN Result(<<>>, s) ELSE Handle(op, s, m)
SentTo(op, e, outs) == \E i \in Flags(op, outs) : Outputs[op][i] = e

MovesMessages(op, T, outs) ==
  chan' = [e \in Edges |-> IF e \in T THEN Tail(chan[e])
                           ELSE IF SentTo(op, e, outs) THEN chan[e] \o outs ELSE chan[e]]

MovesOperator(op, s, m, newSt, outs) ==
  /\ inFrontier' = [inFrontier EXCEPT ![op] = IF IsKind(m, "Epoch") THEN Raise(@, m.ts) ELSE @]
  /\ outFrontier' = [outFrontier EXCEPT ![op] =
        IF SentEpochs(outs) = {} THEN @
        ELSE Raise(@, CHOOSE t \in SentEpochs(outs) : \A u \in SentEpochs(outs) : t >= u)]
  /\ suspended' = [suspended EXCEPT ![op] = @ \/ \E i \in DOMAIN outs : outs[i].kind = "SuspendMarker"]
  /\ st' = [st EXCEPT ![op] = newSt]
  /\ saving' = IF Stateful(op) /\ IsKind(m, "AbsBarrier")
               THEN [saving EXCEPT ![op] = Persisted(op, s)] ELSE saving
  /\ sunk' = IF op \in Sinks /\ IsKind(m, "Data") THEN [sunk EXCEPT ![op] = @ \cup {m.id}] ELSE sunk
  /\ Advance(op)
  /\ UNCHANGED <<ctl, uncommitted, committed, requests, crashes, stamp>>

\* A step takes the heads of T, handles m, sends outs.
StepTakes(op, first, s, T, m, outs) ==
  /\ Reception(op, T, m, upEpoch')
  /\ upEpoch' \in [Edges -> Times \cup {None}]
  /\ outs = first \o Handled(op, s, m).outs
  /\ MovesMessages(op, T, outs)
  /\ MovesOperator(op, s, m, Handled(op, s, m).st, outs)

LEMMA StepFacts ==
  ASSUME Queues, NEW op \in Ops, NEW first, NEW s, Step(op, first, s)
  PROVE  \E T \in SUBSET Edges, m \in Message \cup {None} : \E outs : StepTakes(op, first, s, T, m, outs)
<1> DEFINE in == Recv(chan, upEpoch, Inputs[op])
           r == Handled(op, s, in.msg)
           outs == first \o r.outs
<1>1. ~MixedAlignment(chan, Inputs[op]) /\ Process(op, s, in, r, outs)
  BY DEF Step, Handled
<1>2. /\ chan' = Send(in.chan, Outputs[op], outs, Flags(op, outs))
      /\ upEpoch' = in.epochs
      /\ MovesOperator(op, s, in.msg, r.st, outs)
  <2> HIDE DEF in, r, outs
  <2> QED BY <1>1, Zenon DEF Process, MovesOperator
<1>3. PICK T \in SUBSET Edges :
        /\ Reception(op, T, in.msg, in.epochs)
        /\ in.chan = [e \in Edges |-> IF e \in T THEN Tail(chan[e]) ELSE chan[e]]
        /\ in.epochs \in [Edges -> Times \cup {None}]
  BY <1>1, RecvFacts
<1>4. in.msg \in Message \cup {None}
  BY <1>3, ReceivedType
<1> HIDE DEF in
<1>5. \A e \in T : ~SentTo(op, e, outs)
  <2> SUFFICES ASSUME NEW e \in T, SentTo(op, e, outs) PROVE FALSE
    OBVIOUS
  <2>1. IsOutput(e, op)
    BY DEF SentTo, Flags, IsOutput, IsInput
  <2>2. IsInput(e, Inputs[op])
    BY <1>3 DEF Reception
  <2> QED BY <2>1, <2>2, EdgesOfOperators
<1>6. chan' = [e \in Edges |-> IF SentTo(op, e, outs) THEN in.chan[e] \o outs ELSE in.chan[e]]
  BY <1>2, <1>3 DEF Send, SentTo
<1>7. MovesMessages(op, T, outs)
  BY <1>3, <1>5, <1>6 DEF MovesMessages
<1>8. StepTakes(op, first, s, T, in.msg, outs)
  BY <1>2, <1>3, <1>7 DEF StepTakes
<1> QED BY <1>4, <1>8

----------------------------------------------------------------------------
(* What operators send.                                                    *)

StType(op, v) ==
  CASE Kind[op] = "source"          -> v.pos \in 0..Len(Feed[op]) /\ v.maxSent \in BOOLEAN
    [] Kind[op] = "generate_epochs" -> v \in Times \cup {None}
    [] Kind[op] = "stateful_map"    -> v \in [Records -> Nat]
    [] Kind[op] = "ttl_map"         -> v \subseteq [id : Records, ts : Times]
    [] OTHER                        -> v = None

OtherKinds == {"assign_timestamps", "generate_epochs", "split", "map", "filter", "flatten",
               "stateful_map", "ttl_map", "sink"}

\* Markers are sent on, last; MAX is sent once; of other messages only the
\* answer to a message goes out.
OutShape(op, m, outs, newSt) ==
  /\ outs \in Seq(Message)
  /\ \A i, j \in DOMAIN outs : outs[i].kind = "Epoch" /\ outs[j].kind = "Epoch" => i = j
  /\ \A i \in DOMAIN outs : IsMarker(outs[i]) => m = outs[i] /\ i = Len(outs)
  /\ m # None /\ IsMarker(m) /\ Kind[op] # "sink" => outs # <<>> /\ outs[Len(outs)] = m
  /\ \A i, j \in DOMAIN outs : IsMaxEpoch(outs[i]) /\ i < j => IsMarker(outs[j])
  /\ \A i \in DOMAIN outs :
       /\ IsMaxEpoch(outs[i]) => IF op \in Sources THEN newSt.maxSent ELSE m = Epoch(MAX)
       /\ ~IsMarker(outs[i]) => IF op \in Sources THEN ~st[op].maxSent ELSE m # None /\ ~IsMarker(m)
       /\ op \in Sources /\ outs[i].kind = "Epoch" => outs[i].ts = MAX
  /\ Kind[op] = "assign_timestamps" =>
       \A i \in DOMAIN outs : outs[i].kind = "Data" => outs[i].ts \in Bound..(MAX - 1)

\* The messages of the answers.
LEMMA AnswerTypes ==
  /\ \A m \in Message, t \in Times : m.kind = "Data" => [m EXCEPT !.ts = t] \in Message
  /\ \A m \in Message, b \in BOOLEAN : m.kind = "Data" => [m EXCEPT !.late = b] \in Message
  /\ \A t \in Times : Epoch(t) \in Message
  /\ \A m \in Message : m.kind = "Data" => m = [kind |-> "Data", id |-> m.id, ts |-> m.ts, late |-> m.late]
<1>1. \A m \in Message : m.kind = "Data" => m \in [kind : {"Data"}, id : Records, ts : Times, late : BOOLEAN]
  BY DEF Message
<1>2. \A m \in Message : m.kind = "Data" => m = [kind |-> "Data", id |-> m.id, ts |-> m.ts, late |-> m.late]
  BY <1>1
<1>3. \A m \in Message, t \in Times : m.kind = "Data" =>
        [m EXCEPT !.ts = t] \in [kind : {"Data"}, id : Records, ts : Times, late : BOOLEAN]
  BY <1>1
<1>4. \A m \in Message, b \in BOOLEAN : m.kind = "Data" =>
        [m EXCEPT !.late = b] \in [kind : {"Data"}, id : Records, ts : Times, late : BOOLEAN]
  BY <1>1
<1>5. \A t \in Times : Epoch(t) \in Message
  BY DEF Epoch, Message
<1> QED BY <1>2, <1>3, <1>4, <1>5 DEF Message

\* Every operator sends a marker on, but for a sink.
LEMMA MarkerAnswer ==
  ASSUME NEW op \in Ops, NEW s, NEW m, IsMarker(m)
  PROVE  Handle(op, s, m) = IF Kind[op] = "sink" THEN Result(<<>>, s) ELSE Forward(s, m)
<1>1. m.kind # "Data" /\ m.kind # "Epoch"
  BY DEF IsMarker, MarkerKinds
<1> QED BY <1>1 DEF Handle, OnAssignTimestamps, OnGenerateEpochs, OnStateless, OnStateful, OnTtlMap,
                   OnStatefulMap

\* And an epoch, or nothing.
LEMMA EpochAnswer ==
  ASSUME NEW op \in Ops, Kind[op] \in OtherKinds, NEW s, StType(op, s),
         NEW m \in Message, m.kind = "Epoch"
  PROVE  /\ Handle(op, s, m).outs \in {<<>>, <<m>>}
         /\ StType(op, Handle(op, s, m).st)
         /\ Kind[op] = "generate_epochs" =>
              Handle(op, s, m) = IF s = None \/ s < m.ts THEN Result(<<m>>, m.ts) ELSE Result(<<>>, s)
         /\ Kind[op] = "ttl_map" => Handle(op, s, m).st = {x \in s : x.ts > m.ts}
<1>1. m.ts \in Times
  BY MessageKinds
<1>2. CASE Kind[op] = "generate_epochs"
  <2>1. Handle(op, s, m) = IF s = None \/ s < m.ts THEN Result(<<m>>, m.ts) ELSE Result(<<>>, s)
    BY <1>2 DEF Handle, OnGenerateEpochs
  <2> QED BY <1>1, <1>2, <2>1 DEF Result, StType
<1>3. CASE Kind[op] = "ttl_map"
  <2>1. Handle(op, s, m) = Result(<<m>>, {x \in s : x.ts > m.ts})
    BY <1>3 DEF Handle, OnStateful, OnTtlMap
  <2> QED BY <1>3, <2>1 DEF Result, StType
<1>4. CASE Kind[op] \notin {"generate_epochs", "ttl_map"}
  <2>1. Handle(op, s, m) \in {Result(<<>>, s), Result(<<m>>, s)}
    BY <1>4 DEF Handle, OnAssignTimestamps, OnStateless, OnStateful, OnStatefulMap, Forward, Result
  <2> QED BY <1>4, <2>1 DEF Result
<1> QED BY <1>2, <1>3, <1>4

\* Short sequences.
LEMMA Singles ==
  ASSUME NEW S, NEW a \in S
  PROVE  /\ <<a>> \in Seq(S) /\ Len(<<a>>) = 1 /\ DOMAIN <<a>> = {1} /\ <<a>>[1] = a
         /\ <<a>> \o <<>> = <<a>> /\ <<a>> # <<>>
  OBVIOUS

LEMMA Pairs ==
  ASSUME NEW S, NEW a \in S, NEW b \in S
  PROVE  /\ <<a, b>> \in Seq(S) /\ Len(<<a, b>>) = 2 /\ DOMAIN <<a, b>> = {1, 2}
         /\ <<a, b>>[1] = a /\ <<a, b>>[2] = b /\ <<a, b>> # <<>>
         /\ <<a>> \o <<b>> = <<a, b>>
<1>1. <<a, b>> \in Seq(S) /\ Len(<<a, b>>) = 2 /\ <<a, b>>[1] = a /\ <<a, b>>[2] = b
  OBVIOUS
<1>2. DOMAIN <<a, b>> = {1, 2} /\ <<a, b>> # <<>>
  OBVIOUS
<1>3. <<a>> \o <<b>> = <<a, b>>
  <2>1. <<a>> \in Seq(S) /\ <<b>> \in Seq(S) /\ Len(<<a>>) = 1 /\ Len(<<b>>) = 1
    OBVIOUS
  <2>2. /\ <<a>> \o <<b>> \in Seq(S) /\ Len(<<a>> \o <<b>>) = 2
        /\ (<<a>> \o <<b>>)[1] = a /\ (<<a>> \o <<b>>)[2] = b
    BY <2>1, ConcatProperties
  <2> DEFINE x == <<a>> \o <<b>>
             y == <<a, b>>
  <2>3. x \in Seq(S) /\ y \in Seq(S) /\ Len(x) = Len(y) /\ \A i \in 1..Len(x) : x[i] = y[i]
    BY <1>1, <2>2
  <2> HIDE DEF x, y
  <2>4. x = y
    BY <2>3, SeqEqual
  <2> QED BY <2>4 DEF x, y
<1> QED BY <1>1, <1>2, <1>3

\* generate_epochs sends the message, marked if it is late, and perhaps an epoch
\* that is larger than the last one.
LEMMA GenerateAnswer ==
  ASSUME NEW op \in Ops, Kind[op] = "generate_epochs", NEW s \in Times \cup {None},
         NEW m \in Message, m.kind = "Data", m.ts \in Bound..(MAX - 1)
  PROVE  LET d == [m EXCEPT !.late = ~OnTime(s, m)]
             t == m.ts - Bound
         IN  /\ t \in Times /\ t # MAX /\ d \in Message
             /\ Handle(op, s, m) = IF s = None \/ t > s THEN Result(<<d, Epoch(t)>>, t) ELSE Result(<<d>>, s)
<1> DEFINE d == [m EXCEPT !.late = ~OnTime(s, m)]
           t == m.ts - Bound
<1>1. t \in Times /\ t # MAX /\ t # None
  BY TimeAssumption, GraphAssumption DEF Times
<1>2. d \in Message
  BY AnswerTypes DEF OnTime
<1>3. LimitOutOfOrderness(m, s) = IF s = None \/ t > s THEN t ELSE None
  BY DEF LimitOutOfOrderness
<1>4. Handle(op, s, m) =
        LET new == LimitOutOfOrderness(m, s)
        IN  Result(<<d>> \o (IF new = None THEN <<>> ELSE <<Epoch(new)>>), Raise(s, new))
  BY DEF Handle, OnGenerateEpochs
<1> HIDE DEF d
<1>5. <<d>> \o <<>> = <<d>> /\ <<d>> \o <<Epoch(t)>> = <<d, Epoch(t)>>
  <2>1. d \in Message /\ Epoch(t) \in Message
    BY <1>1, <1>2, AnswerTypes DEF d
  <2> QED BY <2>1, Singles, Pairs
<1>6. CASE s = None \/ t > s
  <2>1. LimitOutOfOrderness(m, s) = t /\ Raise(s, t) = t
    BY <1>1, <1>3, <1>6 DEF Raise, Times
  <2> QED BY <1>1, <1>2, <1>4, <1>5, <1>6, <2>1 DEF d
<1>7. CASE ~(s = None \/ t > s)
  <2>1. LimitOutOfOrderness(m, s) = None /\ Raise(s, None) = s
    BY <1>3, <1>7 DEF Raise
  <2> QED BY <1>1, <1>2, <1>4, <1>5, <1>7, <2>1 DEF d
<1> QED BY <1>6, <1>7

\* The answer to a data message of the other operators.
LEMMA DataAnswer ==
  ASSUME NEW op \in Ops, Kind[op] \in OtherKinds \ {"generate_epochs"}, NEW s, StType(op, s),
         stamp \in StampFunctions, NEW m \in Message, m.kind = "Data"
  PROVE  /\ Handle(op, s, m).outs \in Seq(Message)
         /\ StType(op, Handle(op, s, m).st)
         /\ \A i \in DOMAIN Handle(op, s, m).outs :
              LET d == Handle(op, s, m).outs[i]
              IN  /\ d.kind = "Data"
                  /\ Kind[op] = "assign_timestamps" => d.ts \in Bound..(MAX - 1)
                  /\ Kind[op] # "assign_timestamps" => d.ts = m.ts
         /\ Kind[op] = "split" => Handle(op, s, m).outs = <<m>>
         /\ Kind[op] = "ttl_map" => Handle(op, s, m).st = s \cup {[id |-> m.id, ts |-> m.ts]}
<1>0. m.id \in Records /\ m.ts \in Times
  BY MessageKinds
<1>1. CASE Kind[op] = "assign_timestamps"
  <2>1. stamp[m.id] \in Bound..(MAX - 1) /\ stamp[m.id] \in Times
    BY <1>0, GraphAssumption DEF StampFunctions
  <2>2. Handle(op, s, m) = Result(<<[m EXCEPT !.ts = stamp[m.id]]>>, s)
    BY <1>1 DEF Handle, OnAssignTimestamps
  <2>3. [m EXCEPT !.ts = stamp[m.id]] \in Message
    BY <2>1, AnswerTypes
  <2>4. [m EXCEPT !.ts = stamp[m.id]].kind = "Data" /\ [m EXCEPT !.ts = stamp[m.id]].ts = stamp[m.id]
    BY AnswerTypes
  <2> DEFINE d == [m EXCEPT !.ts = stamp[m.id]]
  <2>5. Handle(op, s, m).outs = <<d>> /\ Handle(op, s, m).st = s
    BY <2>2 DEF Result
  <2> HIDE DEF d
  <2>6. d \in Message /\ d.kind = "Data" /\ d.ts \in Bound..(MAX - 1)
    BY <2>1, <2>3, <2>4 DEF d
  <2> QED BY <1>1, <2>5, <2>6
<1>2. CASE Kind[op] = "map"
  <2> DEFINE d == [m EXCEPT !.late = FALSE]
  <2>1. Handle(op, s, m) = Result(<<d>>, s)
    BY <1>2 DEF Handle, OnStateless, Mapped, OnMap
  <2>2. d \in Message /\ d.kind = "Data" /\ d.ts = m.ts
    BY AnswerTypes
  <2> HIDE DEF d
  <2>3. Handle(op, s, m).outs = <<d>> /\ Handle(op, s, m).st = s
    BY <2>1 DEF Result
  <2> QED BY <1>2, <2>2, <2>3
<1>3. CASE Kind[op] \in {"filter", "flatten", "split", "sink"}
  <2>1. Handle(op, s, m) \in {Result(<<>>, s), Result(<<m>>, s), Result(<<m, m>>, s)}
    BY <1>3 DEF Handle, OnStateless, Mapped, OnFilter, OnFlatten, Forward, Result
  <2>2. Handle(op, s, m).outs \in {<<>>, <<m>>, <<m, m>>} /\ Handle(op, s, m).st = s
    BY <2>1 DEF Result
  <2>3. Kind[op] = "split" => Handle(op, s, m) = Result(<<m>>, s)
    BY DEF Handle, Forward, Result
  <2>4. Kind[op] = "split" => Handle(op, s, m).outs = <<m>>
    BY <2>3 DEF Result
  <2>5. Handle(op, s, m).outs \in Seq(Message) /\ \A i \in DOMAIN Handle(op, s, m).outs : Handle(op, s, m).outs[i] = m
    <3>1. CASE Handle(op, s, m).outs = <<>>
      BY <3>1
    <3>2. CASE Handle(op, s, m).outs = <<m>>
      BY <3>2
    <3>3. CASE Handle(op, s, m).outs = <<m, m>>
      BY <3>3, Pairs
    <3> QED BY <2>2, <3>1, <3>2, <3>3
  <2> QED BY <1>3, <2>2, <2>4, <2>5
<1>4. CASE Kind[op] = "stateful_map"
  <2>1. Handle(op, s, m) = Result(<<m>>, [s EXCEPT ![m.id] = @ + 1])
    BY <1>4 DEF Handle, OnStateful, OnStatefulMap
  <2>2. Handle(op, s, m).outs = <<m>> /\ Handle(op, s, m).st = [s EXCEPT ![m.id] = @ + 1]
    BY <2>1 DEF Result
  <2>3. s \in [Records -> Nat]
    BY <1>4 DEF StType
  <2>4. StType(op, Handle(op, s, m).st)
    BY <1>0, <1>4, <2>2, <2>3 DEF StType
  <2> QED BY <1>4, <2>2, <2>4
<1>5. CASE Kind[op] = "ttl_map"
  <2>1. Handle(op, s, m) = Result(<<m>>, s \cup {[id |-> m.id, ts |-> m.ts]})
    BY <1>5 DEF Handle, OnStateful, OnTtlMap
  <2>2. Handle(op, s, m).outs = <<m>> /\ Handle(op, s, m).st = s \cup {[id |-> m.id, ts |-> m.ts]}
    BY <2>1 DEF Result
  <2>3. StType(op, Handle(op, s, m).st)
    BY <1>0, <1>5, <2>2 DEF StType
  <2> QED BY <1>5, <2>2, <2>3
<1> QED BY <1>1, <1>2, <1>3, <1>4, <1>5 DEF OtherKinds

\* The answers have the shape.
LEMMA AnswerShape ==
  ASSUME NEW op \in Ops, Kind[op] \in OtherKinds, NEW s, StType(op, s), stamp \in StampFunctions,
         NEW m \in Message \cup {None},
         IsKind(m, "Data") /\ Kind[op] = "generate_epochs" => m.ts \in Bound..(MAX - 1)
  PROVE  /\ OutShape(op, m, Handled(op, s, m).outs, Handled(op, s, m).st)
         /\ StType(op, Handled(op, s, m).st)
<1> DEFINE outs == Handled(op, s, m).outs
           newSt == Handled(op, s, m).st
<1>0. op \notin Sources /\ Kind[op] # "source"
  BY DEF Sources, OtherKinds
<1>1. CASE m = None
  <2>1. outs = <<>> /\ newSt = s
    BY <1>1 DEF Handled, Result
  <2> QED BY <1>1, <2>1 DEF OutShape
<1>2. CASE m # None /\ IsMarker(m)
  <2>1. newSt = s /\ outs = IF Kind[op] = "sink" THEN <<>> ELSE <<m>>
    BY <1>2, MarkerAnswer DEF Handled, Forward, Result
  <2>2. m \in Message /\ m.kind # "Data" /\ m.kind # "Epoch" /\ ~IsMaxEpoch(m)
    BY <1>2 DEF IsMarker, MarkerKinds, IsMaxEpoch
  <2> QED BY <1>0, <1>2, <2>1, <2>2 DEF OutShape
<1>3. CASE IsKind(m, "Epoch")
  <2>1. m \in Message /\ m.kind = "Epoch" /\ m = Epoch(m.ts) /\ ~IsMarker(m)
    BY <1>3, MessageKinds DEF IsKind, IsMarker, MarkerKinds
  <2>2. outs \in {<<>>, <<m>>} /\ StType(op, newSt)
    BY <1>3, <2>1, EpochAnswer DEF Handled, IsKind
  <2>3. IsMaxEpoch(m) => m = Epoch(MAX)
    BY <2>1 DEF IsMaxEpoch
  <2> HIDE DEF outs, newSt
  <2>6. OutShape(op, m, outs, newSt)
    <3>1. CASE outs = <<>>
      BY <1>0, <1>3, <2>1, <3>1 DEF OutShape, IsKind
    <3>2. CASE outs = <<m>>
      <4>1. outs \in Seq(Message) /\ DOMAIN outs = {1} /\ outs[1] = m
        BY <2>1, <3>2, Singles
      <4> QED BY <1>0, <1>3, <2>1, <2>3, <4>1 DEF OutShape, IsKind
    <3> QED BY <2>2, <3>1, <3>2
  <2> QED BY <2>2, <2>6 DEF outs, newSt
<1>4. CASE IsKind(m, "Data") /\ Kind[op] = "generate_epochs"
  <2> DEFINE d == [m EXCEPT !.late = ~OnTime(s, m)]
             t == m.ts - Bound
  <2>1. m \in Message /\ m.kind = "Data" /\ s \in Times \cup {None} /\ ~IsMarker(m)
    BY <1>4 DEF StType, IsKind, IsMarker, MarkerKinds
  <2>2. /\ t \in Times /\ t # MAX /\ d \in Message
        /\ Handle(op, s, m) = IF s = None \/ t > s THEN Result(<<d, Epoch(t)>>, t) ELSE Result(<<d>>, s)
    BY <1>4, <2>1, GenerateAnswer
  <2>3. d.kind = "Data" /\ ~IsMarker(d) /\ ~IsMaxEpoch(d)
    BY <2>1, AnswerTypes DEF IsMarker, MarkerKinds, IsMaxEpoch
  <2>4. Epoch(t).kind = "Epoch" /\ Epoch(t).ts = t /\ ~IsMarker(Epoch(t)) /\ ~IsMaxEpoch(Epoch(t))
        /\ Epoch(t) \in Message
    BY <2>2, AnswerTypes DEF Epoch, IsMarker, MarkerKinds, IsMaxEpoch
  <2>5. Handled(op, s, m) = Handle(op, s, m)
    BY <1>4 DEF Handled, IsKind
  <2> HIDE DEF d, t
  <2>6. (outs = <<d>> /\ newSt = s) \/ (outs = <<d, Epoch(t)>> /\ newSt = t)
    BY <2>2, <2>5 DEF Result
  <2>9. d \in Message /\ t \in Times
    BY <2>2 DEF d, t
  <2> HIDE DEF outs, newSt
  <2>7. OutShape(op, m, outs, newSt)
    <3>1. CASE outs = <<d>>
      <4>1. outs \in Seq(Message) /\ DOMAIN outs = {1} /\ outs[1] = d
        BY <2>9, <3>1, Singles
      <4> QED BY <1>0, <1>4, <2>1, <2>3, <4>1 DEF OutShape, IsKind
    <3>2. CASE outs = <<d, Epoch(t)>>
      <4>1. outs \in Seq(Message) /\ DOMAIN outs = {1, 2} /\ outs[1] = d /\ outs[2] = Epoch(t)
        BY <2>4, <2>9, <3>2, Pairs
      <4> QED BY <1>0, <1>4, <2>1, <2>3, <2>4, <4>1 DEF OutShape, IsKind
    <3> QED BY <2>6, <3>1, <3>2
  <2>8. StType(op, newSt)
    BY <1>4, <2>1, <2>6, <2>9 DEF StType
  <2> QED BY <2>7, <2>8 DEF outs, newSt
<1>5. CASE IsKind(m, "Data") /\ Kind[op] # "generate_epochs"
  <2>1. m \in Message /\ m.kind = "Data" /\ ~IsMarker(m) /\ Handled(op, s, m) = Handle(op, s, m)
    BY <1>5 DEF IsKind, IsMarker, MarkerKinds, Handled
  <2>2. /\ outs \in Seq(Message) /\ StType(op, newSt)
        /\ \A i \in DOMAIN outs : /\ outs[i].kind = "Data"
                                  /\ Kind[op] = "assign_timestamps" => outs[i].ts \in Bound..(MAX - 1)
    BY <1>5, <2>1, DataAnswer
  <2>3. \A i \in DOMAIN outs : ~IsMarker(outs[i]) /\ ~IsMaxEpoch(outs[i]) /\ outs[i].kind # "Epoch"
    BY <2>2 DEF IsMarker, MarkerKinds, IsMaxEpoch
  <2> HIDE DEF outs, newSt
  <2>4. OutShape(op, m, outs, newSt)
    BY <1>0, <1>5, <2>1, <2>2, <2>3 DEF OutShape, IsKind
  <2> QED BY <2>2, <2>4 DEF outs, newSt
<1>6. m = None \/ (m # None /\ IsMarker(m)) \/ IsKind(m, "Epoch") \/ IsKind(m, "Data")
  BY MessageKinds DEF IsKind, IsMarker
<1> QED BY <1>1, <1>2, <1>3, <1>4, <1>5, <1>6

\* A source receives markers, nothing else.
LEMMA SourceReceives ==
  ASSUME Queues, RootCarriesMarkers, NEW op \in Sources, NEW T, NEW m, NEW up, Reception(op, T, m, up)
  PROVE  m = None \/ IsMarker(m)
<1>1. \A e \in T : IsMarker(Head(chan[e])) /\ Head(chan[e]).kind # "Epoch"
  <2> SUFFICES ASSUME NEW e \in T PROVE IsMarker(Head(chan[e])) /\ Head(chan[e]).kind # "Epoch"
    OBVIOUS
  <2>1. op \in Ops /\ Kind[op] = "source" /\ e \in Edges /\ IsInput(e, Inputs[op]) /\ chan[e] # <<>>
    BY DEF Sources, Reception
  <2>2. PICK p \in Streams : IsOutput(e, p)
    BY <2>1, EdgeEnds
  <2>3. p = 0
    BY <2>1, <2>2, EdgeEnds
  <2>4. Head(chan[e]) = chan[e][1] /\ 1 \in DOMAIN chan[e]
    BY <2>1 DEF Queues
  <2> QED BY <2>1, <2>2, <2>3, <2>4 DEF RootCarriesMarkers, IsMarker, MarkerKinds
<1>2. \A k \in {"AbsBarrier", "SuspendMarker"} : IsMarker(Marker(k))
  BY DEF IsMarker, Marker, MarkerKinds
<1> QED BY <1>1, <1>2 DEF Reception, ReceivesNothing, ReceivesOne, ReceivesAligned

\* What a source sends: the record, then MAX after the last one, then the marker.
SourceSends(op, first, newSt) ==
  /\ first \in Seq(Message)
  /\ \A i \in DOMAIN first : \/ first[i].kind = "Data"
                             \/ first[i] = Epoch(MAX) /\ i = Len(first) /\ newSt.maxSent
  /\ first # <<>> => ~st[op].maxSent

\* The record a source has read, if any, is the only one among what it sends.
Reads(op, outs, pos) ==
  IF pos = st[op].pos THEN \A i \in DOMAIN outs : outs[i].kind # "Data"
  ELSE /\ pos = st[op].pos + 1 /\ pos \in DOMAIN Feed[op]
       /\ \E i \in DOMAIN outs :
            /\ outs[i].kind = "Data" /\ outs[i].id = Feed[op][pos]
            /\ \A j \in DOMAIN outs : outs[j].kind = "Data" => i = j

LEMMA SourceShape ==
  ASSUME NEW op \in Sources, NEW first, NEW m \in Message \cup {None}, NEW newSt,
         m = None \/ IsMarker(m), SourceSends(op, first, newSt)
  PROVE  /\ OutShape(op, m, first \o Handled(op, newSt, m).outs, newSt)
         /\ \A i \in DOMAIN (first \o Handled(op, newSt, m).outs) :
              (first \o Handled(op, newSt, m).outs)[i].kind = "Epoch" => newSt.maxSent
         /\ \A pos : Reads(op, first, pos) => Reads(op, first \o Handled(op, newSt, m).outs, pos)
<1> DEFINE rest == Handled(op, newSt, m).outs
           outs == first \o rest
<1>0. op \in Ops /\ Kind[op] = "source"
  BY DEF Sources
<1> USE DEF SourceSends
<1>1. rest = IF m = None THEN <<>> ELSE <<m>>
  BY <1>0, MarkerAnswer DEF Handled, Result, Forward
<1>2. rest \in Seq(Message) /\ Len(rest) = (IF m = None THEN 0 ELSE 1) /\ (m # None => rest[1] = m)
  BY <1>1
<1> HIDE DEF rest
<1>3. /\ outs \in Seq(Message) /\ Len(outs) = Len(first) + Len(rest)
      /\ \A i \in 1..(Len(first) + Len(rest)) : outs[i] = IF i <= Len(first) THEN first[i] ELSE rest[i - Len(first)]
  BY <1>2, ConcatProperties
<1> HIDE DEF outs
<1>4. \A i \in DOMAIN outs :
        \/ i \in DOMAIN first /\ outs[i] = first[i]
        \/ i = Len(outs) /\ i = Len(first) + 1 /\ m # None /\ outs[i] = m
  <2> SUFFICES ASSUME NEW i \in DOMAIN outs
               PROVE  \/ i \in DOMAIN first /\ outs[i] = first[i]
                      \/ i = Len(outs) /\ i = Len(first) + 1 /\ m # None /\ outs[i] = m
    OBVIOUS
  <2>1. i \in 1..(Len(first) + Len(rest)) /\ Len(first) \in Nat
    BY <1>3
  <2>2. CASE i <= Len(first)
    BY <1>3, <2>1, <2>2
  <2>3. CASE ~(i <= Len(first))
    <3>1. m # None /\ Len(rest) = 1 /\ i = Len(first) + 1
      BY <1>2, <2>1, <2>3
    <3>2. i - Len(first) = 1 /\ i = Len(outs)
      BY <1>3, <2>1, <3>1
    <3> QED BY <1>2, <1>3, <2>1, <2>3, <3>1, <3>2
  <2> QED BY <2>2, <2>3
<1>5. m # None => outs # <<>> /\ outs[Len(outs)] = m
  <2> SUFFICES ASSUME m # None PROVE outs # <<>> /\ outs[Len(outs)] = m
    OBVIOUS
  <2>1. Len(outs) = Len(first) + 1 /\ Len(first) \in Nat
    BY <1>2, <1>3
  <2>2. Len(outs) \in DOMAIN outs /\ Len(outs) \notin DOMAIN first
    BY <1>3, <2>1
  <2> QED BY <1>4, <2>1, <2>2
<1>6. /\ Epoch(MAX).kind = "Epoch" /\ Epoch(MAX).ts = MAX /\ ~IsMarker(Epoch(MAX))
      /\ \A x : x.kind = "Data" => ~IsMarker(x) /\ ~IsMaxEpoch(x) /\ x.kind # "Epoch"
      /\ \A x : IsMarker(x) => ~IsMaxEpoch(x) /\ x.kind # "Epoch" /\ x.kind # "Data"
  BY DEF Epoch, IsMarker, MarkerKinds, IsMaxEpoch
<1>7. \A i \in DOMAIN outs :
        \/ i \in DOMAIN first /\ outs[i].kind = "Data" /\ ~st[op].maxSent
        \/ i = Len(first) /\ outs[i] = Epoch(MAX) /\ newSt.maxSent /\ ~st[op].maxSent
        \/ i = Len(outs) /\ i = Len(first) + 1 /\ m # None /\ outs[i] = m /\ IsMarker(m)
  BY <1>4
<1>8. \A i, j \in DOMAIN outs : IsMaxEpoch(outs[i]) /\ i < j => IsMarker(outs[j])
  <2> SUFFICES ASSUME NEW i \in DOMAIN outs, NEW j \in DOMAIN outs, IsMaxEpoch(outs[i]), i < j
               PROVE  IsMarker(outs[j])
    OBVIOUS
  <2>1. i = Len(first)
    BY <1>6, <1>7
  <2>2. j \notin DOMAIN first /\ j # Len(first)
    BY <1>3, <2>1
  <2> QED BY <1>7, <2>2
<1>9. \A i, j \in DOMAIN outs : outs[i].kind = "Epoch" /\ outs[j].kind = "Epoch" => i = j
  BY <1>6, <1>7
<1>10. \A i \in DOMAIN outs :
         /\ IsMarker(outs[i]) => m = outs[i] /\ i = Len(outs)
         /\ IsMaxEpoch(outs[i]) => newSt.maxSent
         /\ ~IsMarker(outs[i]) => ~st[op].maxSent
         /\ outs[i].kind = "Epoch" => outs[i].ts = MAX /\ newSt.maxSent
  BY <1>6, <1>7
<1>11. OutShape(op, m, outs, newSt)
  BY <1>0, <1>3, <1>5, <1>8, <1>9, <1>10 DEF OutShape
<1>12. \A i \in DOMAIN first : i \in DOMAIN outs /\ outs[i] = first[i]
  <2> SUFFICES ASSUME NEW i \in DOMAIN first PROVE i \in DOMAIN outs /\ outs[i] = first[i]
    OBVIOUS
  <2>1. i \in 1..(Len(first) + Len(rest)) /\ i <= Len(first)
    BY <1>2
  <2> QED BY <1>3, <2>1
<1>13. \A i \in DOMAIN outs : outs[i].kind = "Data" => i \in DOMAIN first /\ first[i].kind = "Data" /\ first[i] = outs[i]
  BY <1>4, <1>6
<1>14. \A pos : Reads(op, first, pos) => Reads(op, outs, pos)
  <2> SUFFICES ASSUME NEW pos, Reads(op, first, pos) PROVE Reads(op, outs, pos)
    OBVIOUS
  <2>1. CASE pos = st[op].pos
    BY <1>13, <2>1 DEF Reads
  <2>2. CASE pos # st[op].pos
    <3>1. PICK i \in DOMAIN first :
            /\ first[i].kind = "Data" /\ first[i].id = Feed[op][pos]
            /\ \A j \in DOMAIN first : first[j].kind = "Data" => i = j
      BY <2>2 DEF Reads
    <3>2. i \in DOMAIN outs /\ outs[i] = first[i]
      BY <1>12
    <3>3. \A j \in DOMAIN outs : outs[j].kind = "Data" => i = j
      BY <1>13, <3>1
    <3> QED BY <2>2, <3>1, <3>2, <3>3 DEF Reads
  <2> QED BY <2>1, <2>2
<1> QED BY <1>1, <1>10, <1>11, <1>14 DEF outs, rest

\* The steps of operators, without the skipping of a suspended one.
OperatorStep(op) ==
  \/ StepAssignTimestamps(op) \/ StepGenerateEpochs(op) \/ StepSplit(op)
  \/ StepStateless(op) \/ StepStateful(op) \/ StepSink(op)
  \/ \E polled \in BOOLEAN : StepSource(op, polled)

\* All the proofs need to know of a step.
Summary(op, T, m, outs, s, newSt) ==
  /\ Reception(op, T, m, upEpoch') /\ upEpoch' \in [Edges -> Times \cup {None}]
  /\ MovesMessages(op, T, outs) /\ MovesOperator(op, s, m, newSt, outs)
  /\ OutShape(op, m, outs, newSt)
  /\ StType(op, newSt) /\ Complete(op, Persisted(op, s)) /\ idle' \in 0..MaxIdle
  /\ op \in Sources =>
       /\ m = None \/ IsMarker(m)
       /\ newSt.maxSent => newSt.pos = Len(Feed[op])
       /\ st[op].maxSent => newSt.maxSent
       /\ \A i \in DOMAIN outs : outs[i].kind = "Epoch" => newSt.maxSent
       /\ s = newSt /\ Reads(op, outs, newSt.pos)
  /\ op \notin Sources =>
       /\ Kind[op] \in OtherKinds /\ s = st[op]
       /\ outs = Handled(op, st[op], m).outs /\ newSt = Handled(op, st[op], m).st

LEMMA StTypes == TypeOK => \A op \in Ops : StType(op, st[op])
  BY DEF TypeOK, StType

LEMMA PersistedComplete ==
  \A op \in Ops : \A s : StType(op, s) => Complete(op, Persisted(op, s))
  BY DEF StType, Complete, Persisted

\* What reaches generate_epochs has an assigned timestamp.
LEMMA ReceivesStamped ==
  ASSUME Queues, Stamped, NEW op \in Ops, Kind[op] = "generate_epochs",
         NEW T, NEW m, NEW up, Reception(op, T, m, up), IsKind(m, "Data")
  PROVE  m.ts \in Bound..(MAX - 1)
<1>1. PICK e \in Edges : T = {e} /\ m = Head(chan[e])
  <2>1. \A t : Epoch(t).kind # "Data"
    BY DEF Epoch
  <2>2. \A k \in {"AbsBarrier", "SuspendMarker"} : Marker(k).kind # "Data"
    BY DEF Marker
  <2> QED BY <2>1, <2>2 DEF Reception, ReceivesNothing, ReceivesOne, ReceivesAligned, MergedFrom, IsKind
<1>2. IsInput(e, Inputs[op]) /\ chan[e] # <<>>
  BY <1>1 DEF Reception
<1>3. m = chan[e][1] /\ 1 \in DOMAIN chan[e]
  BY <1>1, <1>2 DEF Queues
<1> QED BY <1>2, <1>3 DEF Stamped, IsKind

LEMMA OtherSummary ==
  ASSUME TypeOK, Stamped, NEW op \in Ops, Kind[op] \in OtherKinds, Step(op, <<>>, st[op]), UNCHANGED idle
  PROVE  \E T \in SUBSET Edges, m \in Message \cup {None} : \E outs, s, newSt : Summary(op, T, m, outs, s, newSt)
<1>1. Queues /\ stamp \in StampFunctions /\ StType(op, st[op]) /\ idle \in 0..MaxIdle
  BY StTypes DEF TypeOK, Queues
<1>2. PICK T \in SUBSET Edges, m \in Message \cup {None} : \E outs : StepTakes(op, <<>>, st[op], T, m, outs)
  BY <1>1, StepFacts
<1>3. PICK outs : StepTakes(op, <<>>, st[op], T, m, outs)
  BY <1>2
<1> DEFINE h == Handled(op, st[op], m)
<1>4. IsKind(m, "Data") /\ Kind[op] = "generate_epochs" => m.ts \in Bound..(MAX - 1)
  BY <1>1, <1>3, ReceivesStamped DEF StepTakes
<1>5. OutShape(op, m, h.outs, h.st) /\ StType(op, h.st)
  BY <1>1, <1>4, AnswerShape
<1> HIDE DEF h
<1>6. outs = h.outs
  <2>1. h.outs \in Seq(Message)
    BY <1>5 DEF OutShape
  <2>2. outs = <<>> \o h.outs
    BY <1>3 DEF StepTakes, h
  <2> QED BY <2>1, <2>2
<1>7. op \notin Sources
  BY DEF Sources, OtherKinds
<1>8. Complete(op, Persisted(op, st[op]))
  BY <1>1, PersistedComplete
<1>9. Summary(op, T, m, outs, st[op], h.st)
  BY <1>1, <1>3, <1>5, <1>6, <1>7, <1>8 DEF Summary, StepTakes, h
<1> QED BY <1>9

LEMMA SourceSummary ==
  ASSUME TypeOK, RootCarriesMarkers, SourcesEnd, NEW op \in Ops, NEW polled \in BOOLEAN, StepSource(op, polled)
  PROVE  \E T \in SUBSET Edges, m \in Message \cup {None} : \E outs, s, newSt : Summary(op, T, m, outs, s, newSt)
<1>1. Queues /\ StType(op, st[op]) /\ idle \in 0..MaxIdle /\ Kind[op] = "source" /\ op \in Sources
  BY StTypes DEF TypeOK, Queues, StepSource, Sources
<1> DEFINE pos == IF polled THEN st[op].pos + 1 ELSE st[op].pos
           done == pos = Len(Feed[op])
           max  == done /\ ~st[op].maxSent
           first == (IF polled THEN <<Poll(op, pos)>> ELSE <<>>) \o (IF max THEN <<Epoch(MAX)>> ELSE <<>>)
           s == [pos |-> pos, maxSent |-> st[op].maxSent \/ max]
<1>2. /\ IF polled THEN st[op].pos < Len(Feed[op]) ELSE done \/ idle < MaxIdle
      /\ idle' = IF polled \/ done THEN idle ELSE idle + 1
      /\ Step(op, first, s)
  BY DEF StepSource
<1>3. Feed[op] \in Seq(Records) /\ Len(Feed[op]) \in Nat /\ Len(Feed[op]) <= MAX /\ MAX \in Nat /\ MaxIdle \in Nat
  BY <1>1, GraphAssumption, TimeAssumption
<1>4. st[op].pos \in 0..Len(Feed[op]) /\ st[op].maxSent \in BOOLEAN
  BY <1>1 DEF StType
<1>5. pos \in 0..Len(Feed[op]) /\ (polled => pos \in 1..Len(Feed[op]) /\ ~st[op].maxSent)
  BY <1>1, <1>2, <1>3, <1>4 DEF SourcesEnd
<1>6. idle' \in 0..MaxIdle
  BY <1>1, <1>2, <1>3
<1>7. StType(op, s) /\ s.pos = pos /\ s.maxSent = (st[op].maxSent \/ max)
  BY <1>1, <1>4, <1>5 DEF StType
<1>8. (s.maxSent => s.pos = Len(Feed[op])) /\ (st[op].maxSent => s.maxSent)
  <2>1. st[op].maxSent => pos = Len(Feed[op])
    BY <1>1, <1>2, <1>3, <1>4 DEF SourcesEnd
  <2> QED BY <1>7, <2>1
<1>9. Epoch(MAX) \in Message
  BY <1>3, AnswerTypes DEF Times
<1>10. polled => Poll(op, pos) \in Message /\ Poll(op, pos).kind = "Data"
  <2> SUFFICES ASSUME polled PROVE Poll(op, pos) \in Message /\ Poll(op, pos).kind = "Data"
    OBVIOUS
  <2>1. Feed[op][pos] \in Records /\ pos - 1 \in Times
    BY <1>3, <1>5 DEF Times
  <2> HIDE DEF pos
  <2> QED BY <2>1 DEF Poll, Data, Message
<1> HIDE DEF pos, s, max
<1>11. SourceSends(op, first, s)
  <2> DEFINE d == Poll(op, pos)
             x == Epoch(MAX)
  <2>1. max => ~st[op].maxSent /\ s.maxSent
    BY <1>7 DEF max
  <2>2. first = IF polled THEN (IF max THEN <<d>> \o <<x>> ELSE <<d>> \o <<>>)
                ELSE (IF max THEN <<>> \o <<x>> ELSE <<>> \o <<>>)
    OBVIOUS
  <2>3. d = Poll(op, pos) /\ x = Epoch(MAX)
    OBVIOUS
  <2> HIDE DEF first, d, x
  <2>4. CASE polled /\ max
    <3>1. first = <<d, x>>
      BY <1>9, <1>10, <2>2, <2>3, <2>4, Pairs
    <3>2. first \in Seq(Message) /\ DOMAIN first = {1, 2} /\ Len(first) = 2 /\ first[1] = d /\ first[2] = x
      BY <1>9, <1>10, <2>3, <2>4, <3>1, Pairs
    <3> QED BY <1>10, <2>1, <2>3, <2>4, <3>2 DEF SourceSends
  <2>5. CASE polled /\ ~max
    <3>1. first \in Seq(Message) /\ DOMAIN first = {1} /\ first[1] = d
      BY <1>10, <2>2, <2>3, <2>5, Singles
    <3> QED BY <1>5, <1>10, <2>3, <2>5, <3>1 DEF SourceSends
  <2>6. CASE ~polled /\ max
    <3>1. first = <<x>>
      BY <1>9, <2>2, <2>3, <2>6
    <3>2. first \in Seq(Message) /\ DOMAIN first = {1} /\ first[1] = x /\ Len(first) = 1
      BY <1>9, <2>3, <3>1, Singles
    <3> QED BY <2>1, <2>3, <2>6, <3>2 DEF SourceSends
  <2>7. CASE ~polled /\ ~max
    BY <2>2, <2>7 DEF SourceSends
  <2> QED BY <2>4, <2>5, <2>6, <2>7
<1>19. Reads(op, first, s.pos)
  <2> DEFINE d == Poll(op, pos)
             x == Epoch(MAX)
  <2>1. first = IF polled THEN (IF max THEN <<d>> \o <<x>> ELSE <<d>> \o <<>>)
                ELSE (IF max THEN <<>> \o <<x>> ELSE <<>> \o <<>>)
    OBVIOUS
  <2>2. x \in Message /\ x.kind = "Epoch" /\ (polled => d \in Message /\ d.kind = "Data" /\ d.id = Feed[op][pos])
    BY <1>9, <1>10 DEF Epoch, Poll, Data
  <2>3. st[op].pos \in Nat /\ (polled => pos = st[op].pos + 1 /\ pos \in DOMAIN Feed[op]) /\ (~polled => pos = st[op].pos)
    BY <1>3, <1>4, <1>5 DEF pos
  <2> HIDE DEF first, d, x
  <2>4. CASE polled
    <3>1. 1 \in DOMAIN first /\ first[1] = d /\ \A j \in DOMAIN first : j = 1 \/ first[j] = x
      <4>1. CASE max
        <5>1. <<d>> \o <<x>> = <<d, x>> /\ DOMAIN <<d, x>> = {1, 2} /\ <<d, x>>[1] = d /\ <<d, x>>[2] = x
          BY <2>2, <2>4, Pairs
        <5>2. first = <<d, x>>
          BY <2>1, <2>4, <4>1, <5>1
        <5> QED BY <5>1, <5>2
      <4>2. CASE ~max
        <5>1. <<d>> \o <<>> = <<d>> /\ DOMAIN <<d>> = {1} /\ <<d>>[1] = d
          BY <2>2, <2>4, Singles
        <5>2. first = <<d>>
          BY <2>1, <2>4, <4>2, <5>1
        <5> QED BY <5>1, <5>2
      <4> QED BY <4>1, <4>2
    <3>2. pos # st[op].pos /\ pos = st[op].pos + 1 /\ pos \in DOMAIN Feed[op]
      BY <2>3, <2>4
    <3> QED BY <1>7, <2>2, <2>4, <3>1, <3>2 DEF Reads
  <2>5. CASE ~polled
    <3>1. \A i \in DOMAIN first : first[i] = x
      <4>1. CASE max
        <5>1. first = <<x>>
          BY <2>1, <2>2, <2>5, <4>1
        <5> QED BY <2>2, <5>1, Singles
      <4>2. CASE ~max
        BY <2>1, <2>5, <4>2
      <4> QED BY <4>1, <4>2
    <3> QED BY <1>7, <2>2, <2>3, <2>5, <3>1 DEF Reads
  <2> QED BY <2>4, <2>5
<1> HIDE DEF first
<1>12. PICK T \in SUBSET Edges, m \in Message \cup {None} : \E outs : StepTakes(op, first, s, T, m, outs)
  BY <1>1, <1>2, StepFacts
<1>13. PICK outs : StepTakes(op, first, s, T, m, outs)
  BY <1>12
<1>14. m = None \/ IsMarker(m)
  BY <1>1, <1>13, SourceReceives DEF StepTakes
<1>15. outs = first \o Handled(op, s, m).outs
  BY <1>13 DEF StepTakes
<1>16. /\ OutShape(op, m, outs, s) /\ Handled(op, s, m).st = s
       /\ \A i \in DOMAIN outs : outs[i].kind = "Epoch" => s.maxSent
  <2> HIDE DEF s
  <2>1. Handled(op, s, m).st = s
    BY <1>1, <1>14, MarkerAnswer DEF Handled, Result, Forward
  <2>2. OutShape(op, m, first \o Handled(op, s, m).outs, s)
    BY <1>1, <1>11, <1>14, SourceShape
  <2>3. \A i \in DOMAIN (first \o Handled(op, s, m).outs) :
             (first \o Handled(op, s, m).outs)[i].kind = "Epoch" => s.maxSent
    BY <1>1, <1>11, <1>14, SourceShape
  <2> QED BY <1>15, <2>1, <2>2, <2>3
<1>20. Reads(op, outs, s.pos)
  <2> HIDE DEF s
  <2>1. \A x : Reads(op, first, x) => Reads(op, first \o Handled(op, s, m).outs, x)
    BY <1>1, <1>11, <1>14, SourceShape
  <2> QED BY <1>15, <1>19, <2>1
<1>17. Complete(op, Persisted(op, s))
  BY <1>7, PersistedComplete
<1>18. Summary(op, T, m, outs, s, s)
  BY <1>1, <1>6, <1>7, <1>8, <1>13, <1>14, <1>16, <1>17, <1>20 DEF Summary, StepTakes
<1> QED BY <1>18

LEMMA StepSummary ==
  ASSUME TypeOK, Stamped, RootCarriesMarkers, SourcesEnd, NEW op \in Ops, OperatorStep(op)
  PROVE  /\ \E T \in SUBSET Edges, m \in Message \cup {None} : \E outs, s, newSt : Summary(op, T, m, outs, s, newSt)
         /\ Scheduled(op)
<1>1. CASE \E polled \in BOOLEAN : StepSource(op, polled)
  BY <1>1, SourceSummary DEF StepSource
<1>2. CASE ~\E polled \in BOOLEAN : StepSource(op, polled)
  <2>1. Kind[op] \in OtherKinds /\ Step(op, <<>>, st[op]) /\ UNCHANGED idle /\ Scheduled(op)
    BY <1>2 DEF OperatorStep, StepAssignTimestamps, StepGenerateEpochs, StepSplit, StepStateless,
                StepStateful, StepSink, OtherKinds
  <2> QED BY <2>1, OtherSummary
<1> QED BY <1>1, <1>2

----------------------------------------------------------------------------
(* What a step does to an edge.                                            *)

Shifted(q, r) ==
  /\ \A i \in DOMAIN r : i + 1 \in DOMAIN q /\ r[i] = q[i + 1]
  /\ \A j \in DOMAIN q : j = 1 \/ (j - 1 \in DOMAIN r /\ r[j - 1] = q[j])
Extended(q, x, r) ==
  /\ \A i \in DOMAIN q : i \in DOMAIN r /\ r[i] = q[i]
  /\ \A k \in DOMAIN x : Len(q) + k \in DOMAIN r /\ r[Len(q) + k] = x[k]
  /\ \A i \in DOMAIN r : \/ i \in DOMAIN q
                         \/ i > Len(q) /\ i - Len(q) \in DOMAIN x /\ r[i] = x[i - Len(q)]

LEMMA ShiftedTail ==
  ASSUME NEW S, NEW q \in Seq(S), q # <<>>
  PROVE  Shifted(q, Tail(q)) /\ Tail(q) \in Seq(S)
  BY DEF Shifted

LEMMA ExtendedConcat ==
  ASSUME NEW S, NEW q \in Seq(S), NEW x \in Seq(S)
  PROVE  Extended(q, x, q \o x) /\ q \o x \in Seq(S)
<1> DEFINE r == q \o x
<1>1. /\ r \in Seq(S) /\ Len(r) = Len(q) + Len(x) /\ Len(q) \in Nat /\ Len(x) \in Nat
      /\ \A i \in 1..(Len(q) + Len(x)) : r[i] = IF i <= Len(q) THEN q[i] ELSE x[i - Len(q)]
  BY ConcatProperties
<1> HIDE DEF r
<1>2. \A i \in DOMAIN q : i \in DOMAIN r /\ r[i] = q[i]
  BY <1>1
<1>3. \A k \in DOMAIN x : Len(q) + k \in DOMAIN r /\ r[Len(q) + k] = x[k]
  <2> SUFFICES ASSUME NEW k \in DOMAIN x PROVE Len(q) + k \in DOMAIN r /\ r[Len(q) + k] = x[k]
    OBVIOUS
  <2>1. Len(q) + k \in 1..(Len(q) + Len(x)) /\ ~(Len(q) + k <= Len(q)) /\ Len(q) + k - Len(q) = k
    BY <1>1
  <2>2. r[Len(q) + k] = x[Len(q) + k - Len(q)]
    BY <1>1, <2>1
  <2> QED BY <1>1, <2>1, <2>2
<1>4. \A i \in DOMAIN r : \/ i \in DOMAIN q
                          \/ i > Len(q) /\ i - Len(q) \in DOMAIN x /\ r[i] = x[i - Len(q)]
  BY <1>1
<1>5. Extended(q, x, r)
  BY <1>2, <1>3, <1>4 DEF Extended
<1> QED BY <1>1, <1>5 DEF r

Takes(op, T, e) == e \in T /\ IsInput(e, Inputs[op]) /\ chan[e] # <<>> /\ Shifted(chan[e], chan'[e])
Appends(op, T, outs, e) ==
  e \notin T /\ IsOutput(e, op) /\ SentTo(op, e, outs) /\ Extended(chan[e], outs, chan'[e])
Leaves(op, T, outs, e) == e \notin T /\ ~SentTo(op, e, outs) /\ chan'[e] = chan[e]

\* A step takes from an edge, appends to it or leaves it.
LEMMA EdgeStep ==
  ASSUME Queues, NEW op \in Ops, NEW T, NEW m, NEW up, Reception(op, T, m, up),
         NEW outs \in Seq(Message), MovesMessages(op, T, outs), NEW e \in Edges
  PROVE  /\ Takes(op, T, e) \/ Appends(op, T, outs, e) \/ Leaves(op, T, outs, e)
         /\ chan'[e] \in Seq(Message)
<1>1. chan[e] \in Seq(Message)
  BY DEF Queues
<1>2. chan'[e] = IF e \in T THEN Tail(chan[e]) ELSE IF SentTo(op, e, outs) THEN chan[e] \o outs ELSE chan[e]
  BY DEF MovesMessages
<1>3. CASE e \in T
  <2>1. IsInput(e, Inputs[op]) /\ chan[e] # <<>>
    BY <1>3 DEF Reception
  <2> QED BY <1>1, <1>2, <1>3, <2>1, ShiftedTail DEF Takes
<1>4. CASE e \notin T /\ SentTo(op, e, outs)
  <2>1. IsOutput(e, op)
    BY <1>4 DEF SentTo, Flags, IsOutput, IsInput
  <2> QED BY <1>1, <1>2, <1>4, <2>1, ExtendedConcat DEF Appends
<1>5. CASE e \notin T /\ ~SentTo(op, e, outs)
  BY <1>1, <1>2, <1>5 DEF Leaves
<1> QED BY <1>3, <1>4, <1>5

\* Everybody but a split sends to all its outputs, and so does a split what is
\* no data.
LEMMA SendsToAll ==
  ASSUME NEW op \in Ops, NEW outs, NEW e, IsOutput(e, op),
         Kind[op] # "split" \/ \A i \in DOMAIN outs : outs[i].kind # "Data"
  PROVE  SentTo(op, e, outs)
  BY DEF SentTo, Flags, IsOutput, IsInput

\* The largest epoch among the messages sent.
LEMMA SentEpochsFacts ==
  ASSUME NEW outs \in Seq(Message), SentEpochs(outs) # {},
         \A i, j \in DOMAIN outs : outs[i].kind = "Epoch" /\ outs[j].kind = "Epoch" => i = j
  PROVE  \E i \in DOMAIN outs :
           /\ outs[i].kind = "Epoch" /\ outs[i].ts \in Times
           /\ (CHOOSE t \in SentEpochs(outs) : \A u \in SentEpochs(outs) : t >= u) = outs[i].ts
<1>1. PICK i \in DOMAIN outs : outs[i].kind = "Epoch"
  BY DEF SentEpochs
<1>2. outs[i].ts \in Times
  BY <1>1, MessageKinds
<1>3. SentEpochs(outs) = {outs[i].ts}
  BY <1>1 DEF SentEpochs
<1> DEFINE x == outs[i].ts
<1> HIDE DEF x
<1>4. x \in Times /\ SentEpochs(outs) = {x}
  BY <1>2, <1>3 DEF x
<1>5. x >= x
  BY <1>4, TimeAssumption DEF Times
<1>6. (CHOOSE t \in SentEpochs(outs) : \A u \in SentEpochs(outs) : t >= u) = x
  BY <1>4, <1>5
<1> QED BY <1>1, <1>2, <1>6 DEF x

LEMMA RaiseFacts ==
  ASSUME NEW f \in Times \cup {None}, NEW t \in Times
  PROVE  /\ Raise(f, t) \in Times /\ Raise(f, t) >= t
         /\ f # None => f \in Times /\ Raise(f, t) >= f
         /\ Raise(f, t) \in {f, t}
         /\ Raise(f, t) = MAX => f = MAX \/ t = MAX
  BY TimeAssumption DEF Raise, Times

LEMMA StepTypes ==
  ASSUME Types, NEW op \in Ops, Scheduled(op), NEW T, NEW m \in Message \cup {None}, NEW outs, NEW s, NEW newSt,
         Summary(op, T, m, outs, s, newSt)
  PROVE  Types'
<1> USE DEF Types
<1>1. TypeOK /\ Queues
  BY DEF TypeOK, Queues
<1>2. outs \in Seq(Message)
  BY DEF Summary, OutShape
<1>3. chan' \in [Edges -> Seq(Message)]
  <2>1. \A e \in Edges : chan'[e] \in Seq(Message)
    BY <1>1, <1>2, EdgeStep DEF Summary
  <2> QED BY <2>1 DEF Summary, MovesMessages
<1>4. upEpoch' \in [Edges -> Times \cup {None}] /\ idle' \in 0..MaxIdle
  BY DEF Summary
<1>5. MovesOperator(op, s, m, newSt, outs) /\ StType(op, newSt)
  BY DEF Summary
<1>6. inFrontier' \in [Ops -> Times \cup {None}]
  <2>1. IsKind(m, "Epoch") => m.ts \in Times
    BY MessageKinds DEF IsKind
  <2>2. IsKind(m, "Epoch") => Raise(inFrontier[op], m.ts) \in Times
    BY <1>1, <2>1, RaiseFacts DEF TypeOK
  <2> QED BY <1>1, <1>5, <2>2 DEF MovesOperator, TypeOK
<1>7. outFrontier' \in [Ops -> Times \cup {None}]
  <2> DEFINE t == CHOOSE t \in SentEpochs(outs) : \A u \in SentEpochs(outs) : t >= u
  <2>1. SentEpochs(outs) # {} => t \in Times
    BY <1>2, SentEpochsFacts DEF Summary, OutShape
  <2>2. outFrontier' = [outFrontier EXCEPT ![op] = IF SentEpochs(outs) = {} THEN @ ELSE Raise(@, t)]
    BY <1>5 DEF MovesOperator
  <2> HIDE DEF t
  <2>3. SentEpochs(outs) # {} => Raise(outFrontier[op], t) \in Times
    BY <1>1, <2>1, RaiseFacts DEF TypeOK
  <2> QED BY <1>1, <2>2, <2>3 DEF TypeOK
<1>8. suspended' \in [Ops -> BOOLEAN]
  BY <1>1, <1>5 DEF MovesOperator, TypeOK
<1>9. cursor' \in 0..Len(Kind) /\ allDone' \in BOOLEAN
  <2>1. cursor = op /\ op \in 1..Len(Kind) /\ Len(Kind) \in Nat
    BY GraphTypes DEF Scheduled
  <2>2. Advance(op)
    BY <1>5 DEF MovesOperator
  <2>3. cursor' \in 0..Len(Kind)
    BY <1>1, <2>1, <2>2 DEF Advance
  <2>4. allDone' = allDone \/ allDone' = (allDone /\ IsFinalized(op))
    BY <2>2, Zenon DEF Advance
  <2>5. (allDone /\ IsFinalized(op)) \in BOOLEAN
    BY Zenon
  <2> QED BY <1>1, <2>3, <2>4, <2>5, Zenon DEF TypeOK
<1>10. /\ ctl' = ctl /\ uncommitted' = uncommitted /\ committed' = committed /\ requests' = requests
       /\ crashes' = crashes /\ stamp' = stamp
  BY <1>5 DEF MovesOperator
<1>11. sunk' \in [Sinks -> SUBSET Records]
  <2>1. IsKind(m, "Data") => m.id \in Records
    BY MessageKinds DEF IsKind
  <2> QED BY <1>1, <1>5, <2>1 DEF MovesOperator, TypeOK
<1>12. st' = [o \in Ops |-> st'[o]] /\ \A o \in Ops : StType(o, st'[o])
  <2>1. st' = [st EXCEPT ![op] = newSt]
    BY <1>5 DEF MovesOperator
  <2>2. \A o \in Ops : StType(o, st[o])
    BY <1>1, StTypes
  <2>3. st' = [o \in Ops |-> IF o = op THEN newSt ELSE st[o]]
    BY <2>1
  <2>4. \A o \in Ops : st'[o] = IF o = op THEN newSt ELSE st[o]
    BY <2>3
  <2> QED BY <1>5, <2>2, <2>3, <2>4
<1>13. saving' = [o \in Ops |-> saving'[o]]
  BY <1>5 DEF MovesOperator
<1>14. \A o \in Ops :
       CASE Kind[o] = "source"          -> st'[o].pos \in 0..Len(Feed[o]) /\ st'[o].maxSent \in BOOLEAN
         [] Kind[o] = "generate_epochs" -> st'[o] \in Times \cup {None}
         [] Kind[o] = "stateful_map"    -> st'[o] \in [Records -> Nat]
         [] Kind[o] = "ttl_map"         -> st'[o] \subseteq [id : Records, ts : Times]
         [] OTHER                       -> st'[o] = None
  BY <1>12 DEF StType
<1>15. TypeOK'
  BY <1>1, <1>3, <1>4, <1>6, <1>7, <1>8, <1>9, <1>10, <1>11, <1>14 DEF TypeOK
<1> QED BY <1>10, <1>12, <1>13, <1>15

----------------------------------------------------------------------------
(* A step of an operator keeps the invariant: markers.                     *)

\* A marker that is received was at the head of an edge; an aligned one of all.
LEMMA MarkerReceived ==
  ASSUME Queues, NEW op \in Ops, NEW T, NEW m, NEW up, Reception(op, T, m, up), m # None, IsMarker(m)
  PROVE  /\ \E e \in T : chan[e][1] = m
         /\ \A e \in T : 1 \in DOMAIN chan[e] /\ chan[e][1] = m
         /\ NeedsAlignment(m) => T = {e \in Edges : IsInput(e, Inputs[op])}
         /\ up = upEpoch
<1>1. \A e \in T : e \in Edges /\ 1 \in DOMAIN chan[e] /\ Head(chan[e]) = chan[e][1]
  BY DEF Reception, Queues
<1>2. \A t : ~IsMarker(Epoch(t))
  BY DEF Epoch, IsMarker, MarkerKinds
<1>3. ReceivesOne(op, T, m, up) \/ ReceivesAligned(op, T, m, up)
  BY DEF Reception, ReceivesNothing
<1>4. CASE ReceivesOne(op, T, m, up)
  BY <1>1, <1>2, <1>4 DEF ReceivesOne, MergedFrom
<1>5. CASE ReceivesAligned(op, T, m, up)
  <2>1. PICK e \in Edges : IsInput(e, Inputs[op])
    BY EdgesOfOperators
  <2>2. e \in T
    BY <1>5, <2>1 DEF ReceivesAligned
  <2>3. \A d \in T : Head(chan[d]) = m
    BY <1>5 DEF ReceivesAligned
  <2> QED BY <1>1, <1>5, <2>2, <2>3 DEF ReceivesAligned
<1> QED BY <1>3, <1>4, <1>5

\* The epochs an input knows change for the edge whose epoch it takes.
LEMMA EpochsKnown ==
  ASSUME Queues, NEW op \in Ops, NEW T, NEW m, NEW up, Reception(op, T, m, up), NEW e \in Edges
  PROVE  \/ up[e] = upEpoch[e]
         \/ T = {e} /\ 1 \in DOMAIN chan[e] /\ chan[e][1].kind = "Epoch" /\ up[e] = chan[e][1].ts
  <1>1. \A d \in T : d \in Edges /\ 1 \in DOMAIN chan[d] /\ Head(chan[d]) = chan[d][1]
    BY DEF Reception, Queues
  <1> QED BY <1>1 DEF Reception, ReceivesNothing, ReceivesOne, ReceivesAligned, Queues

MarkerInv == OwnMarkers /\ RootCarriesMarkers /\ NobodySuspends /\ Stamped

LEMMA StepMarkers ==
  ASSUME Types, MarkerInv, NEW op \in Ops, Scheduled(op),
         NEW T, NEW m \in Message \cup {None}, NEW outs, NEW s, NEW newSt,
         Summary(op, T, m, outs, s, newSt)
  PROVE  MarkerInv'
<1>1. Queues /\ outs \in Seq(Message)
  BY DEF Types, TypeOK, Queues, Summary, OutShape
<1>2. Reception(op, T, m, upEpoch') /\ MovesMessages(op, T, outs)
  BY DEF Summary
<1>3. /\ ctl' = ctl
      /\ suspended' = [suspended EXCEPT ![op] = @ \/ \E i \in DOMAIN outs : outs[i].kind = "SuspendMarker"]
  BY DEF Summary, MovesOperator
<1>4. \A e \in Edges : Takes(op, T, e) \/ Appends(op, T, outs, e) \/ Leaves(op, T, outs, e)
  BY <1>1, <1>2, EdgeStep
<1>5. \A i \in DOMAIN outs : IsMarker(outs[i]) => ctl \in DOMAIN Markers /\ outs[i].kind = Markers[ctl]
  <2> SUFFICES ASSUME NEW i \in DOMAIN outs, IsMarker(outs[i])
               PROVE  ctl \in DOMAIN Markers /\ outs[i].kind = Markers[ctl]
    OBVIOUS
  <2>1. m = outs[i] /\ m # None /\ IsMarker(m)
    <3>1. m = outs[i] /\ outs[i] \in Message
      BY <1>1 DEF Summary, OutShape
    <3> QED BY <3>1, MessageKinds
  <2>2. PICK e \in T : chan[e][1] = m /\ 1 \in DOMAIN chan[e]
    BY <1>1, <1>2, <2>1, MarkerReceived
  <2>3. e \in Edges
    BY <1>2 DEF Reception
  <2> QED BY <2>1, <2>2, <2>3 DEF MarkerInv, OwnMarkers
<1>6. OwnMarkers'
  <2> SUFFICES ASSUME NEW e \in Edges, NEW i \in DOMAIN chan'[e], IsMarker(chan'[e][i])
               PROVE  ctl \in DOMAIN Markers /\ chan'[e][i].kind = Markers[ctl]
    BY <1>3 DEF OwnMarkers, IsMarker
  <2>1. (\E j \in DOMAIN chan[e] : chan[e][j] = chan'[e][i]) \/ (\E j \in DOMAIN outs : outs[j] = chan'[e][i])
    BY <1>4 DEF Takes, Appends, Leaves, Shifted, Extended
  <2> QED BY <1>5, <2>1 DEF MarkerInv, OwnMarkers
<1>7. RootCarriesMarkers'
  <2> SUFFICES ASSUME NEW e \in Edges, IsOutput(e, 0)
               PROVE  upEpoch'[e] = None /\ \A i \in DOMAIN chan'[e] : IsMarker(chan'[e][i])
    BY DEF RootCarriesMarkers, IsMarker
  <2>1. ~IsOutput(e, op)
    BY GraphTypes, EdgeEnds
  <2>2. \A i \in DOMAIN chan'[e] : \E j \in DOMAIN chan[e] : chan[e][j] = chan'[e][i]
    BY <1>4, <2>1 DEF Takes, Appends, Leaves, Shifted
  <2>3. upEpoch[e] = None /\ \A i \in DOMAIN chan[e] : IsMarker(chan[e][i]) /\ chan[e][i].kind # "Epoch"
    BY DEF MarkerInv, RootCarriesMarkers, IsMarker, MarkerKinds
  <2>4. upEpoch'[e] = upEpoch[e]
    BY <1>1, <1>2, <2>3, EpochsKnown
  <2> QED BY <2>2, <2>3, <2>4
<1>8. NobodySuspends'
  <2> SUFFICES ASSUME ctl \notin {"suspend", "suspended"} PROVE \A o \in Ops : ~suspended'[o]
    BY <1>3 DEF NobodySuspends
  <2>1. \A o \in Ops : ~suspended[o]
    BY DEF MarkerInv, NobodySuspends
  <2>2. \A i \in DOMAIN outs : outs[i].kind # "SuspendMarker"
    BY <1>5 DEF IsMarker, MarkerKinds, Markers
  <2> QED BY <1>3, <2>1, <2>2 DEF Types, TypeOK
<1>9. Stamped'
  <2> SUFFICES ASSUME NEW g \in Ops, Kind[g] = "generate_epochs", NEW e \in Edges, IsInput(e, Inputs[g]),
                      NEW i \in DOMAIN chan'[e], chan'[e][i].kind = "Data"
               PROVE  chan'[e][i].ts \in Bound..(MAX - 1)
    BY DEF Stamped, IsInput
  <2>1. CASE \E j \in DOMAIN chan[e] : chan[e][j] = chan'[e][i]
    BY <2>1 DEF MarkerInv, Stamped
  <2>2. CASE Appends(op, T, outs, e) /\ \E j \in DOMAIN outs : outs[j] = chan'[e][i]
    <3>1. IsOutput(e, op) /\ op \in Streams
      BY <2>2, GraphTypes DEF Appends
    <3>2. Kind[op] = "assign_timestamps"
      BY <3>1, EdgeEnds
    <3> QED BY <2>2, <3>2 DEF Summary, OutShape
  <2> QED BY <1>4, <2>1, <2>2 DEF Takes, Appends, Leaves, Shifted, Extended
<1> QED BY <1>6, <1>7, <1>8, <1>9 DEF MarkerInv

----------------------------------------------------------------------------
(* A step of an operator keeps the invariant: the wave of the barrier.     *)

\* The three things that happen to the barriers of an edge.
LEMMA WaveTaken ==
  ASSUME NEW q \in Seq(Message), NEW r \in Seq(Message), Shifted(q, r), 1 \in DOMAIN q, IsBarrier(q[1]),
         NEW D, NEW p, NEW c, EdgeWave(D, p, c, q)
  PROVE  EdgeWave(D \cup {c}, p, c, r)
<1>1. ASSUME NEW i \in DOMAIN r, IsBarrier(r[i]) PROVE FALSE
  <2>1. i \in Nat /\ i >= 1 /\ i + 1 \in DOMAIN q /\ r[i] = q[i + 1]
    BY DEF Shifted
  <2>2. i + 1 = 1
    BY <1>1, <2>1 DEF EdgeWave
  <2> QED BY <2>1, <2>2
<1> QED BY <1>1 DEF EdgeWave

LEMMA WaveSent ==
  ASSUME NEW q \in Seq(Message), NEW r \in Seq(Message), NEW x \in Seq(Message), Extended(q, x, r),
         x # <<>>, IsBarrier(x[Len(x)]), \A i \in DOMAIN x : IsBarrier(x[i]) => i = Len(x),
         NEW D, NEW p, NEW c, EdgeWave(D, p, c, q), p \notin D \cup {0}, c # p
  PROVE  EdgeWave(D \cup {p}, p, c, r)
<1>1. \A i \in DOMAIN q : ~IsBarrier(q[i])
  BY DEF EdgeWave
<1>2. c \notin D
  BY DEF EdgeWave
<1>3. Len(x) \in DOMAIN x /\ Len(q) \in Nat /\ Len(x) \in Nat
  OBVIOUS
<1>4. Len(q) + Len(x) \in DOMAIN r /\ IsBarrier(r[Len(q) + Len(x)])
  BY <1>3 DEF Extended
<1>5. ASSUME NEW i \in DOMAIN r, IsBarrier(r[i]) PROVE i = Len(q) + Len(x)
  <2>1. i \notin DOMAIN q
    BY <1>1, <1>5 DEF Extended
  <2>2. i - Len(q) \in DOMAIN x /\ r[i] = x[i - Len(q)] /\ i \in Nat
    BY <2>1 DEF Extended
  <2>3. i - Len(q) = Len(x)
    BY <1>5, <2>2
  <2>4. \A a, b, n \in Nat : a - b = n => a = b + n
    OBVIOUS
  <2> QED BY <1>3, <2>2, <2>3, <2>4
<1> QED BY <1>2, <1>4, <1>5 DEF EdgeWave

\* Messages that are no barriers come and go.
LEMMA WaveKept ==
  ASSUME NEW q \in Seq(Message), NEW r \in Seq(Message), NEW x \in Seq(Message),
         \A i \in DOMAIN x : ~IsBarrier(x[i]),
         \/ Shifted(q, r) /\ 1 \in DOMAIN q /\ ~IsBarrier(q[1])
         \/ Extended(q, x, r)
         \/ r = q,
         NEW D, NEW p, NEW c, EdgeWave(D, p, c, q)
  PROVE  EdgeWave(D, p, c, r)
<1>1. CASE Shifted(q, r) /\ 1 \in DOMAIN q /\ ~IsBarrier(q[1])
  <2>1. \A i \in DOMAIN r : i \in Nat /\ i + 1 \in DOMAIN q /\ r[i] = q[i + 1]
    BY <1>1 DEF Shifted
  <2>2. \A j \in DOMAIN q : IsBarrier(q[j]) => j - 1 \in DOMAIN r /\ r[j - 1] = q[j]
    BY <1>1 DEF Shifted
  <2>3. \A i, j \in DOMAIN r : IsBarrier(r[i]) /\ IsBarrier(r[j]) => i = j
    <3> SUFFICES ASSUME NEW i \in DOMAIN r, NEW j \in DOMAIN r, IsBarrier(r[i]), IsBarrier(r[j])
                 PROVE  i = j
      OBVIOUS
    <3>1. i + 1 = j + 1
      BY <2>1 DEF EdgeWave
    <3> QED BY <2>1, <3>1
  <2> QED BY <2>1, <2>2, <2>3 DEF EdgeWave
<1>2. CASE Extended(q, x, r)
  <2>1. \A i \in DOMAIN r : IsBarrier(r[i]) => i \in DOMAIN q /\ q[i] = r[i]
    BY <1>2 DEF Extended
  <2>2. \A i \in DOMAIN q : i \in DOMAIN r /\ r[i] = q[i]
    BY <1>2 DEF Extended
  <2> QED BY <2>1, <2>2 DEF EdgeWave
<1> QED BY <1>1, <1>2

\* A barrier is received while a snapshot is taken.
LEMMA BarrierReceived ==
  ASSUME Queues, OwnMarkers, NEW op \in Ops, NEW T, NEW m, NEW up, Reception(op, T, m, up), IsKind(m, "AbsBarrier")
  PROVE  ctl = "snapshot"
<1>1. m # None /\ IsMarker(m) /\ IsBarrier(m)
  BY DEF IsKind, IsMarker, MarkerKinds, IsBarrier
<1>2. PICK e \in T : chan[e][1] = m /\ 1 \in DOMAIN chan[e]
  BY <1>1, MarkerReceived
<1>3. e \in Edges
  BY DEF Reception
<1>4. ctl \in DOMAIN Markers /\ Markers[ctl] = "AbsBarrier"
  BY <1>1, <1>2, <1>3 DEF OwnMarkers, IsBarrier
<1> QED BY <1>4 DEF Markers

\* The barrier that an operator takes adds it to the operators that are passed.
LEMMA WaveStep ==
  ASSUME Types, NEW op \in Ops, NEW T, NEW m \in Message \cup {None}, NEW outs, NEW s, NEW newSt,
         Summary(op, T, m, outs, s, newSt), NEW D \in SUBSET Ops, Wave(D)
  PROVE  IF IsKind(m, "AbsBarrier") THEN op \notin D /\ Wave(D \cup {op})' ELSE Wave(D)'
<1>1. Queues /\ outs \in Seq(Message)
  BY DEF Types, TypeOK, Queues, Summary, OutShape
<1>2. Reception(op, T, m, upEpoch') /\ MovesMessages(op, T, outs)
  BY DEF Summary
<1>3. saving' = IF Stateful(op) /\ IsKind(m, "AbsBarrier")
                THEN [saving EXCEPT ![op] = Persisted(op, s)] ELSE saving
  BY DEF Summary, MovesOperator
<1>4. \A e \in Edges : /\ Takes(op, T, e) \/ Appends(op, T, outs, e) \/ Leaves(op, T, outs, e)
                       /\ chan[e] \in Seq(Message) /\ chan'[e] \in Seq(Message)
  BY <1>1, <1>2, EdgeStep DEF Queues
<1>5. \A e \in T : e \in Edges /\ 1 \in DOMAIN chan[e] /\ Head(chan[e]) = chan[e][1]
  BY <1>1, <1>2 DEF Reception, Queues
<1>6. CASE IsKind(m, "AbsBarrier")
  <2>1. m # None /\ IsMarker(m) /\ NeedsAlignment(m) /\ IsBarrier(m)
    BY <1>6 DEF IsKind, IsMarker, MarkerKinds, NeedsAlignment, IsBarrier
  <2>2. /\ \E e \in T : chan[e][1] = m
        /\ \A e \in T : 1 \in DOMAIN chan[e] /\ chan[e][1] = m
        /\ T = {e \in Edges : IsInput(e, Inputs[op])}
    BY <1>1, <1>2, <2>1, MarkerReceived
  <2>5. \A i \in DOMAIN outs : IsBarrier(outs[i]) => i = Len(outs)
    BY DEF Summary, OutShape, IsBarrier, IsMarker, MarkerKinds
  <2>6. Kind[op] # "sink" => outs # <<>> /\ IsBarrier(outs[Len(outs)])
    BY <2>1 DEF Summary, OutShape
  <2>7. Kind[op] # "split" \/ \A i \in DOMAIN outs : outs[i].kind # "Data"
    <3> SUFFICES ASSUME Kind[op] = "split", NEW i \in DOMAIN outs, outs[i].kind = "Data" PROVE FALSE
      OBVIOUS
    <3>1. op \notin Sources /\ ~IsMarker(outs[i])
      BY DEF Sources, IsMarker, MarkerKinds
    <3> QED BY <2>1, <3>1 DEF Summary, OutShape
  <2>8. op \notin D /\ op \in Nat /\ op # 0
    <3>1. PICK e \in T : chan[e][1] = m /\ 1 \in DOMAIN chan[e]
      BY <2>2
    <3>2. e \in Edges /\ IsInput(e, Inputs[op])
      BY <2>2, <3>1
    <3>3. PICK p \in Streams : IsOutput(e, p)
      BY <3>2, EdgeEnds
    <3>4. op \notin D
      BY <2>1, <3>1, <3>2, <3>3 DEF Wave, EdgeWave
    <3> QED BY <3>4, GraphTypes
  <2>9. ASSUME NEW p \in Streams, NEW c \in Ops, NEW e \in Edges, IsOutput(e, p), IsInput(e, Inputs[c])
        PROVE  EdgeWave(D \cup {op}, p, c, chan'[e])
    <3>1. EdgeWave(D, p, c, chan[e])
      BY <2>9 DEF Wave
    <3>2. CASE c = op
      <4>1. e \in T
        BY <2>2, <2>9, <3>2
      <4>2. Shifted(chan[e], chan'[e])
        BY <1>4, <4>1 DEF Takes, Appends, Leaves
      <4> QED BY <1>4, <2>1, <2>2, <3>1, <3>2, <4>1, <4>2, WaveTaken
    <3>3. CASE c # op /\ p = op
      <4>1. Kind[op] # "sink"
        BY <2>9, <3>3, EdgesOfOperators
      <4>2. SentTo(op, e, outs)
        BY <2>7, <2>9, <3>3, SendsToAll
      <4>3. e \notin T
        BY <2>2, <2>9, <3>3, EdgeEnds
      <4>4. Extended(chan[e], outs, chan'[e])
        BY <1>4, <4>2, <4>3 DEF Takes, Appends, Leaves
      <4> QED BY <1>1, <1>4, <2>5, <2>6, <2>8, <3>1, <3>3, <4>1, <4>4, WaveSent
    <3>4. CASE c # op /\ p # op
      <4>1. e \notin T
        BY <2>2, <2>9, <3>4, EdgeEnds
      <4>2. ~IsOutput(e, op)
        BY <2>9, <3>4, EdgeEnds, GraphTypes
      <4>3. chan'[e] = chan[e]
        BY <1>4, <4>1, <4>2 DEF Takes, Appends, Leaves
      <4> QED BY <3>1, <3>4, <4>3 DEF EdgeWave
    <3> QED BY <3>2, <3>3, <3>4
  <2>10. ASSUME NEW o \in D \cup {op} PROVE Complete(o, saving'[o])
    <3>1. saving' = [x \in Ops |-> IF x = op /\ Stateful(op) THEN Persisted(op, s) ELSE saving[x]]
      BY <1>3, <1>6 DEF Types
    <3>2. o \in Ops /\ saving'[o] = IF o = op /\ Stateful(op) THEN Persisted(op, s) ELSE saving[o]
      BY <3>1
    <3>3. CASE o \in D
      BY <2>8, <3>2, <3>3 DEF Wave
    <3>4. CASE o = op /\ Stateful(op)
      BY <3>2, <3>4 DEF Summary
    <3>5. CASE o = op /\ ~Stateful(op)
      BY <3>5 DEF Stateful, Complete
    <3> QED BY <3>3, <3>4, <3>5
  <2>11. Wave(D \cup {op})'
    <3> DEFINE D2 == D \cup {op}
    <3> HIDE DEF D2
    <3>1. Wave(D2)'
      BY <2>9, <2>10 DEF Wave, D2
    <3> QED BY <3>1 DEF D2
  <2> QED BY <1>6, <2>8, <2>11
<1>7. CASE ~IsKind(m, "AbsBarrier")
  <2>1. \A i \in DOMAIN outs : ~IsBarrier(outs[i])
    <3> SUFFICES ASSUME NEW i \in DOMAIN outs, IsBarrier(outs[i]) PROVE FALSE
      OBVIOUS
    <3>1. m = outs[i]
      BY DEF Summary, OutShape, IsBarrier, IsMarker, MarkerKinds
    <3>2. m # None
      BY <1>1, <3>1, MessageKinds
    <3> QED BY <1>7, <3>1, <3>2 DEF IsKind, IsBarrier
  <2>2. \A e \in T : ~IsBarrier(chan[e][1])
    <3>1. \A k : IsBarrier(Marker(k)) => IsKind(Marker(k), "AbsBarrier") \/ Marker(k) = None
      BY DEF IsBarrier, IsKind
    <3>2. CASE ReceivesOne(op, T, m, upEpoch')
      BY <1>5, <3>2 DEF ReceivesOne, NeedsAlignment, IsBarrier
    <3>3. CASE ReceivesAligned(op, T, m, upEpoch')
      <4>1. PICK k \in {"AbsBarrier", "SuspendMarker"} : m = Marker(k) /\ \A e \in T : Head(chan[e]) = Marker(k)
        BY <3>3 DEF ReceivesAligned
      <4>2. Marker(k) \in Message /\ m # None
        BY <4>1, NoneAssumption DEF Marker, Message
      <4> QED BY <1>5, <1>7, <4>1, <4>2 DEF IsKind, IsBarrier
    <3> QED BY <1>2, <3>2, <3>3 DEF Reception, ReceivesNothing
  <2>3. saving' = saving
    BY <1>3, <1>7
  <2>4. ASSUME NEW p \in Streams, NEW c \in Ops, NEW e \in Edges, IsOutput(e, p), IsInput(e, Inputs[c])
        PROVE  EdgeWave(D, p, c, chan'[e])
    <3>1. EdgeWave(D, p, c, chan[e])
      BY <2>4 DEF Wave
    <3>2. \/ Shifted(chan[e], chan'[e]) /\ 1 \in DOMAIN chan[e] /\ ~IsBarrier(chan[e][1])
          \/ Extended(chan[e], outs, chan'[e])
          \/ chan'[e] = chan[e]
      BY <1>4, <1>5, <2>2 DEF Takes, Appends, Leaves
    <3> QED BY <1>1, <1>4, <2>1, <3>1, <3>2, WaveKept
  <2>5. \A o \in D : Complete(o, saving'[o])
    BY <2>3 DEF Wave
  <2>6. Wave(D)'
    BY <2>4, <2>5 DEF Wave
  <2> QED BY <1>7, <2>6
<1> QED BY <1>6, <1>7

LEMMA StepWave ==
  ASSUME Types, MarkerInv, BarrierWave, ReportedIsComplete, NEW op \in Ops, Scheduled(op),
         NEW T, NEW m \in Message \cup {None}, NEW outs, NEW s, NEW newSt,
         Summary(op, T, m, outs, s, newSt)
  PROVE  BarrierWave' /\ ReportedIsComplete'
<1>1. Queues
  BY DEF Types, TypeOK, Queues
<1>2. /\ ctl' = ctl /\ uncommitted' = uncommitted
      /\ saving' = IF Stateful(op) /\ IsKind(m, "AbsBarrier")
                   THEN [saving EXCEPT ![op] = Persisted(op, s)] ELSE saving
  BY DEF Summary, MovesOperator
<1>3. BarrierWave'
  <2> SUFFICES ASSUME ctl = "snapshot" PROVE (\E D \in SUBSET Ops : Wave(D))'
    BY <1>2 DEF BarrierWave
  <2>1. PICK D \in SUBSET Ops : Wave(D)
    BY DEF BarrierWave
  <2>2. IF IsKind(m, "AbsBarrier") THEN op \notin D /\ Wave(D \cup {op})' ELSE Wave(D)'
    BY <2>1, WaveStep
  <2>3. CASE IsKind(m, "AbsBarrier")
    <3> DEFINE D2 == D \cup {op}
    <3>1. D2 \in SUBSET Ops
      BY <2>1
    <3>2. Wave(D2)'
      BY <2>2, <2>3
    <3> HIDE DEF D2
    <3> QED BY <3>1, <3>2
  <2>4. CASE ~IsKind(m, "AbsBarrier")
    BY <2>1, <2>2, <2>4
  <2> QED BY <2>3, <2>4
<1>4. ReportedIsComplete'
  <2>1. IsKind(m, "AbsBarrier") => ctl = "snapshot"
    BY <1>1, BarrierReceived DEF Summary, MarkerInv
  <2>2. uncommitted => ~IsKind(m, "AbsBarrier")
    BY <2>1 DEF ReportedIsComplete
  <2> QED BY <1>2, <2>2 DEF ReportedIsComplete, SnapshotComplete
<1> QED BY <1>3, <1>4

----------------------------------------------------------------------------
(* A step of an operator keeps the invariant: the end of the streams.      *)

\* A received epoch is the merge of those the input knows.
LEMMA EpochReceived ==
  ASSUME Queues, NEW op \in Ops, NEW T, NEW m, NEW up, Reception(op, T, m, up), IsKind(m, "Epoch")
  PROVE  /\ MergedFrom(op, m, up) /\ m.ts \in Times
         /\ \A d \in Edges : IsInput(d, Inputs[op]) => up[d] \in Times /\ m.ts <= up[d]
         /\ \E e \in Edges : T = {e} /\ 1 \in DOMAIN chan[e] /\ chan[e][1].kind = "Epoch"
                             /\ up = [upEpoch EXCEPT ![e] = chan[e][1].ts]
<1>1. \A k : Marker(k).kind = k
  BY DEF Marker
<1>2. ReceivesOne(op, T, m, up)
  BY <1>1 DEF Reception, ReceivesNothing, ReceivesAligned, IsKind
<1>3. PICK e \in Edges :
        /\ T = {e}
        /\ IF Head(chan[e]).kind # "Epoch" THEN m = Head(chan[e]) /\ up = upEpoch
           ELSE up = [upEpoch EXCEPT ![e] = Head(chan[e]).ts] /\ MergedFrom(op, m, up)
  BY <1>2 DEF ReceivesOne
<1>4. 1 \in DOMAIN chan[e] /\ Head(chan[e]) = chan[e][1]
  BY <1>3 DEF Reception, Queues
<1>5. MergedFrom(op, m, up) /\ chan[e][1].kind = "Epoch" /\ up = [upEpoch EXCEPT ![e] = chan[e][1].ts]
  BY <1>3, <1>4 DEF IsKind
<1>6. m # None
  BY DEF IsKind
<1>7. PICK t \in Times :
        /\ m = Epoch(t)
        /\ \A d \in Edges : IsInput(d, Inputs[op]) => up[d] \in Times /\ t <= up[d]
  BY <1>5, <1>6 DEF MergedFrom
<1>8. m.ts = t
  BY <1>7 DEF Epoch
<1> QED BY <1>3, <1>4, <1>5, <1>7, <1>8

\* When all the upstreams have ended, only markers are received.
LEMMA OnlyMarkersLeft ==
  ASSUME Queues, NothingAfterMax, NEW op \in Ops, NEW T, NEW m, NEW up, Reception(op, T, m, up),
         \A d \in Edges : IsInput(d, Inputs[op]) => upEpoch[d] = MAX
  PROVE  m = None \/ IsMarker(m)
<1>1. \A e \in T : IsMarker(chan[e][1]) /\ Head(chan[e]) = chan[e][1]
  <2> SUFFICES ASSUME NEW e \in T PROVE IsMarker(chan[e][1]) /\ Head(chan[e]) = chan[e][1]
    OBVIOUS
  <2>1. e \in Edges /\ IsInput(e, Inputs[op]) /\ 1 \in DOMAIN chan[e] /\ Head(chan[e]) = chan[e][1]
    BY DEF Reception, Queues
  <2> QED BY <2>1 DEF NothingAfterMax
<1>2. \A e \in T : Head(chan[e]).kind # "Epoch" /\ IsMarker(Head(chan[e]))
  BY <1>1 DEF IsMarker, MarkerKinds
<1>3. \A k \in {"AbsBarrier", "SuspendMarker"} : IsMarker(Marker(k))
  BY DEF IsMarker, Marker, MarkerKinds
<1> QED BY <1>2, <1>3 DEF Reception, ReceivesNothing, ReceivesOne, ReceivesAligned

\* On an edge that has ended an operator sends only markers.
LEMMA EndedSendsMarkers ==
  ASSUME Queues, NothingAfterMax, EndsAfterUpstreams, NEW op \in Ops,
         NEW T, NEW m \in Message \cup {None}, NEW outs, NEW s, NEW newSt, Summary(op, T, m, outs, s, newSt),
         NEW e \in Edges, IsOutput(e, op), Ending(e), NEW i \in DOMAIN outs
  PROVE  IsMarker(outs[i])
<1>1. CASE op \in Sources
  <2>1. st[op].maxSent
    BY <1>1 DEF EndsAfterUpstreams
  <2> QED BY <1>1, <2>1 DEF Summary, OutShape
<1>2. CASE op \notin Sources
  <2>1. \A d \in Edges : IsInput(d, Inputs[op]) => upEpoch[d] = MAX
    BY <1>2 DEF EndsAfterUpstreams
  <2>2. Reception(op, T, m, upEpoch')
    BY DEF Summary
  <2>3. m = None \/ IsMarker(m)
    BY <2>1, <2>2, OnlyMarkersLeft
  <2> QED BY <1>2, <2>3 DEF Summary, OutShape
<1> QED BY <1>1, <1>2

\* The last epoch of an edge stays the last.
LEMMA MaxStays ==
  ASSUME Queues, NothingAfterMax, NEW op \in Ops, NEW T, NEW m, NEW up, Reception(op, T, m, up),
         NEW d \in Edges, upEpoch[d] = MAX
  PROVE  up[d] = MAX
<1>1. 1 \in DOMAIN chan[d] => chan[d][1].kind # "Epoch"
  BY DEF NothingAfterMax, IsMarker, MarkerKinds
<1> QED BY <1>1, EpochsKnown

LEMMA StepNothingAfterMax ==
  ASSUME Types, NothingAfterMax, EndsAfterUpstreams, NEW op \in Ops,
         NEW T, NEW m \in Message \cup {None}, NEW outs, NEW s, NEW newSt, Summary(op, T, m, outs, s, newSt)
  PROVE  NothingAfterMax'
<1>1. Queues /\ outs \in Seq(Message)
  BY DEF Types, TypeOK, Queues, Summary, OutShape
<1>2. Reception(op, T, m, upEpoch') /\ MovesMessages(op, T, outs)
  BY DEF Summary
<1> SUFFICES ASSUME NEW e \in Edges
             PROVE  /\ upEpoch'[e] = MAX => \A j \in DOMAIN chan'[e] : IsMarker(chan'[e][j])
                    /\ \A i, j \in DOMAIN chan'[e] : IsMaxEpoch(chan'[e][i]) /\ i < j => IsMarker(chan'[e][j])
  BY DEF NothingAfterMax, IsMaxEpoch, IsMarker
<1>3. /\ Takes(op, T, e) \/ Appends(op, T, outs, e) \/ Leaves(op, T, outs, e)
      /\ chan[e] \in Seq(Message) /\ chan'[e] \in Seq(Message)
  BY <1>1, <1>2, EdgeStep DEF Queues
<1>4. /\ upEpoch[e] = MAX => \A j \in DOMAIN chan[e] : IsMarker(chan[e][j])
      /\ \A i, j \in DOMAIN chan[e] : IsMaxEpoch(chan[e][i]) /\ i < j => IsMarker(chan[e][j])
  BY DEF NothingAfterMax
<1>5. \/ upEpoch'[e] = upEpoch[e]
      \/ T = {e} /\ 1 \in DOMAIN chan[e] /\ chan[e][1].kind = "Epoch" /\ upEpoch'[e] = chan[e][1].ts
  BY <1>1, <1>2, EpochsKnown
<1>6. CASE Takes(op, T, e)
  <2>1. \A i \in DOMAIN chan'[e] : i \in Nat /\ i >= 1 /\ i + 1 \in DOMAIN chan[e] /\ chan'[e][i] = chan[e][i + 1]
    BY <1>3, <1>6 DEF Takes, Shifted
  <2>2. \A i, j \in DOMAIN chan'[e] : IsMaxEpoch(chan'[e][i]) /\ i < j => IsMarker(chan'[e][j])
    <3> SUFFICES ASSUME NEW i \in DOMAIN chan'[e], NEW j \in DOMAIN chan'[e], IsMaxEpoch(chan'[e][i]), i < j
                 PROVE  IsMarker(chan'[e][j])
      OBVIOUS
    <3>1. i + 1 \in DOMAIN chan[e] /\ j + 1 \in DOMAIN chan[e] /\ i + 1 < j + 1
      BY <2>1
    <3>2. IsMaxEpoch(chan[e][i + 1]) /\ chan'[e][j] = chan[e][j + 1]
      BY <2>1
    <3> QED BY <1>4, <3>1, <3>2
  <2>3. ASSUME upEpoch'[e] = MAX, NEW j \in DOMAIN chan'[e] PROVE IsMarker(chan'[e][j])
    <3>1. j + 1 \in DOMAIN chan[e] /\ chan'[e][j] = chan[e][j + 1] /\ 1 < j + 1
      BY <2>1
    <3>2. CASE upEpoch[e] = MAX
      BY <1>4, <3>1, <3>2
    <3>3. CASE upEpoch[e] # MAX
      <4>1. 1 \in DOMAIN chan[e] /\ IsMaxEpoch(chan[e][1])
        BY <1>5, <2>3, <3>3 DEF IsMaxEpoch
      <4> QED BY <1>4, <3>1, <4>1
    <3> QED BY <3>2, <3>3
  <2> QED BY <2>2, <2>3
<1>7. CASE Leaves(op, T, outs, e)
  <2>1. chan'[e] = chan[e] /\ upEpoch'[e] = upEpoch[e]
    BY <1>5, <1>7 DEF Leaves
  <2> QED BY <1>4, <2>1
<1>8. CASE Appends(op, T, outs, e)
  <2>1. upEpoch'[e] = upEpoch[e] /\ IsOutput(e, op)
    BY <1>5, <1>8 DEF Appends
  <2>2. \A i \in DOMAIN chan'[e] :
          \/ i \in DOMAIN chan[e] /\ chan'[e][i] = chan[e][i]
          \/ i > Len(chan[e]) /\ i - Len(chan[e]) \in DOMAIN outs /\ chan'[e][i] = outs[i - Len(chan[e])]
    BY <1>8 DEF Appends, Extended
  <2>3. Ending(e) => \A i \in DOMAIN outs : IsMarker(outs[i])
    BY <1>1, <2>1, EndedSendsMarkers
  <2>4. \A i, j \in DOMAIN outs : IsMaxEpoch(outs[i]) /\ i < j => IsMarker(outs[j])
    BY DEF Summary, OutShape
  <2>5. Len(chan[e]) \in Nat /\ DOMAIN chan[e] = 1..Len(chan[e]) /\ DOMAIN chan'[e] \subseteq Nat
    BY <1>3
  <2>6. ASSUME upEpoch'[e] = MAX, NEW j \in DOMAIN chan'[e] PROVE IsMarker(chan'[e][j])
    <3>1. Ending(e)
      BY <2>1, <2>6 DEF Ending
    <3> QED BY <1>4, <2>1, <2>2, <2>3, <2>6, <3>1
  <2>7. ASSUME NEW i \in DOMAIN chan'[e], NEW j \in DOMAIN chan'[e], IsMaxEpoch(chan'[e][i]), i < j
        PROVE  IsMarker(chan'[e][j])
    <3>1. CASE i \in DOMAIN chan[e] /\ j \in DOMAIN chan[e]
      <4>1. chan'[e][i] = chan[e][i] /\ chan'[e][j] = chan[e][j]
        BY <1>8, <3>1 DEF Appends, Extended
      <4> QED BY <1>4, <2>7, <3>1, <4>1
    <3>2. CASE i \in DOMAIN chan[e] /\ j \notin DOMAIN chan[e]
      <4>1. chan'[e][i] = chan[e][i]
        BY <1>8, <3>2 DEF Appends, Extended
      <4>2. Ending(e)
        BY <2>7, <3>2, <4>1 DEF Ending
      <4> QED BY <2>2, <2>3, <3>2, <4>2
    <3>3. CASE i \notin DOMAIN chan[e]
      <4>1. i > Len(chan[e]) /\ i - Len(chan[e]) \in DOMAIN outs /\ chan'[e][i] = outs[i - Len(chan[e])]
        BY <2>2, <3>3
      <4>2. j \notin DOMAIN chan[e] /\ i - Len(chan[e]) < j - Len(chan[e])
        BY <2>5, <2>7, <4>1
      <4>3. j - Len(chan[e]) \in DOMAIN outs /\ chan'[e][j] = outs[j - Len(chan[e])]
        BY <2>2, <4>2
      <4> QED BY <2>4, <2>7, <4>1, <4>2, <4>3
    <3> QED BY <3>1, <3>2, <3>3
  <2> QED BY <2>6, <2>7
<1> QED BY <1>3, <1>6, <1>7, <1>8

LEMMA StepEnds ==
  ASSUME Types, EndInv, NEW op \in Ops, Scheduled(op),
         NEW T, NEW m \in Message \cup {None}, NEW outs, NEW s, NEW newSt, Summary(op, T, m, outs, s, newSt)
  PROVE  EndInv'
<1>0. NothingAfterMax /\ EndsAfterUpstreams /\ SourcesEnd /\ FrontierOfUpstreams /\ PassSoFar
  BY DEF EndInv
<1>1. Queues /\ outs \in Seq(Message)
  BY DEF Types, TypeOK, Queues, Summary, OutShape
<1>2. Reception(op, T, m, upEpoch') /\ MovesMessages(op, T, outs)
  BY DEF Summary
<1>3. /\ inFrontier' = [inFrontier EXCEPT ![op] = IF IsKind(m, "Epoch") THEN Raise(@, m.ts) ELSE @]
      /\ st' = [st EXCEPT ![op] = newSt] /\ ctl' = ctl /\ Advance(op)
  BY DEF Summary, MovesOperator
<1>4. \A o \in Ops : /\ st'[o] = IF o = op THEN newSt ELSE st[o]
                     /\ o # op => inFrontier'[o] = inFrontier[o] /\ outFrontier'[o] = outFrontier[o]
  <2>1. st' = [o \in Ops |-> IF o = op THEN newSt ELSE st[o]]
    BY <1>3 DEF Types
  <2>2. \A o \in Ops : o # op => inFrontier'[o] = inFrontier[o] /\ outFrontier'[o] = outFrontier[o]
    BY DEF Summary, MovesOperator, Types, TypeOK
  <2> QED BY <2>1, <2>2
<1>5. \A d \in Edges : upEpoch[d] = MAX => upEpoch'[d] = MAX
  BY <1>0, <1>1, <1>2, MaxStays
<1>6. op \in Sources => (st[op].maxSent => newSt.maxSent)
  BY DEF Summary
<1>7. m = Epoch(MAX) => \A d \in Edges : IsInput(d, Inputs[op]) => upEpoch'[d] = MAX
  <2> SUFFICES ASSUME m = Epoch(MAX), NEW d \in Edges, IsInput(d, Inputs[op]) PROVE upEpoch'[d] = MAX
    OBVIOUS
  <2>1. Epoch(MAX) \in Message
    BY AnswerTypes, TimeAssumption DEF Times
  <2>2. IsKind(m, "Epoch") /\ m.ts = MAX
    BY <2>1, NoneAssumption DEF IsKind, Epoch
  <2>3. upEpoch'[d] \in Times /\ m.ts <= upEpoch'[d]
    BY <1>1, <1>2, <2>2, EpochReceived
  <2> QED BY <2>2, <2>3, TimeAssumption DEF Times
<1>8. NothingAfterMax'
  BY <1>0, StepNothingAfterMax
<1>9. EndsAfterUpstreams'
  <2> SUFFICES ASSUME NEW p \in Ops, NEW e \in Edges, IsOutput(e, p), Ending(e)'
               PROVE  IF p \in Sources THEN st'[p].maxSent
                      ELSE \A d \in Edges : IsInput(d, Inputs[p]) => upEpoch'[d] = MAX
    BY DEF EndsAfterUpstreams, IsOutput, IsInput
  <2>1. CASE Ending(e)
    <3>1. CASE p \in Sources
      <4>1. st[p].maxSent
        BY <1>0, <2>1, <3>1 DEF EndsAfterUpstreams
      <4> QED BY <1>4, <1>6, <3>1, <4>1
    <3>2. CASE p \notin Sources
      BY <1>0, <1>5, <2>1, <3>2 DEF EndsAfterUpstreams
    <3> QED BY <3>1, <3>2
  <2>2. CASE ~Ending(e)
    <3>1. \/ upEpoch'[e] = upEpoch[e]
          \/ T = {e} /\ 1 \in DOMAIN chan[e] /\ chan[e][1].kind = "Epoch" /\ upEpoch'[e] = chan[e][1].ts
      BY <1>1, <1>2, EpochsKnown
    <3>2. upEpoch'[e] # MAX
      BY <2>2, <3>1 DEF Ending, IsMaxEpoch
    <3>3. PICK i \in DOMAIN chan'[e] : IsMaxEpoch(chan'[e][i])
      BY <3>2 DEF Ending, IsMaxEpoch
    <3>4. ~\E j \in DOMAIN chan[e] : chan[e][j] = chan'[e][i]
      BY <2>2, <3>3 DEF Ending
    <3>5. Takes(op, T, e) \/ Appends(op, T, outs, e) \/ Leaves(op, T, outs, e)
      BY <1>1, <1>2, EdgeStep
    <3>6. Appends(op, T, outs, e) /\ \E j \in DOMAIN outs : outs[j] = chan'[e][i]
      BY <3>4, <3>5 DEF Takes, Appends, Leaves, Shifted, Extended
    <3>7. PICK j \in DOMAIN outs : IsMaxEpoch(outs[j])
      BY <3>3, <3>6
    <3>8. p = op
      BY <3>6, EdgeEnds, GraphTypes DEF Appends
    <3>9. IF op \in Sources THEN newSt.maxSent ELSE m = Epoch(MAX)
      BY <3>7 DEF Summary, OutShape
    <3> QED BY <1>4, <1>7, <3>8, <3>9
  <2> QED BY <2>1, <2>2
<1>10. SourcesEnd'
  <2> SUFFICES ASSUME NEW o \in Sources
               PROVE  /\ st'[o].maxSent => st'[o].pos = Len(Feed[o])
                      /\ outFrontier'[o] = MAX => st'[o].maxSent
    BY DEF SourcesEnd
  <2>0. o \in Ops
    BY DEF Sources
  <2>1. CASE o # op
    BY <1>0, <1>4, <2>0, <2>1 DEF SourcesEnd
  <2>2. CASE o = op
    <3>1. st'[o] = newSt /\ (newSt.maxSent => newSt.pos = Len(Feed[o]))
      BY <1>4, <2>0, <2>2 DEF Summary
    <3>2. ASSUME outFrontier'[o] = MAX PROVE newSt.maxSent
      <4> DEFINE t == CHOOSE t \in SentEpochs(outs) : \A u \in SentEpochs(outs) : t >= u
      <4>1. outFrontier' = [outFrontier EXCEPT ![op] = IF SentEpochs(outs) = {} THEN @ ELSE Raise(@, t)]
        BY DEF Summary, MovesOperator
      <4>2. SentEpochs(outs) # {} => newSt.maxSent
        <5> SUFFICES ASSUME SentEpochs(outs) # {} PROVE newSt.maxSent
          OBVIOUS
        <5>1. \E i \in DOMAIN outs : outs[i].kind = "Epoch"
          BY DEF SentEpochs
        <5> QED BY <2>2, <5>1 DEF Summary
      <4> HIDE DEF t
      <4>3. CASE SentEpochs(outs) = {}
        <5>1. outFrontier[o] = MAX
          BY <2>0, <2>2, <3>2, <4>1, <4>3 DEF Types, TypeOK
        <5> QED BY <1>0, <1>6, <2>2, <5>1 DEF SourcesEnd
      <4> QED BY <4>2, <4>3
    <3> QED BY <3>1, <3>2
  <2> QED BY <2>1, <2>2
<1>11. FrontierOfUpstreams'
  <2> SUFFICES ASSUME NEW o \in Ops, inFrontier'[o] = MAX, NEW d \in Edges, IsInput(d, Inputs[o])
               PROVE  upEpoch'[d] = MAX
    BY DEF FrontierOfUpstreams, IsInput
  <2>1. CASE inFrontier[o] = MAX
    BY <1>0, <1>5, <2>1 DEF FrontierOfUpstreams
  <2>2. CASE inFrontier[o] # MAX
    <3>1. o = op
      BY <1>4, <2>2
    <3>2. IsKind(m, "Epoch") /\ inFrontier'[op] = Raise(inFrontier[op], m.ts)
      BY <1>3, <2>2, <3>1 DEF Types, TypeOK
    <3>3. m.ts \in Times
      BY <1>1, <1>2, <3>2, EpochReceived
    <3>4. m.ts = MAX
      BY <2>2, <3>1, <3>2, <3>3, RaiseFacts DEF Types, TypeOK
    <3>5. m = Epoch(MAX)
      BY <3>2, <3>4, MessageKinds DEF IsKind
    <3> QED BY <1>7, <3>1, <3>5
  <2> QED BY <2>1, <2>2
<1>12. PassSoFar'
  <2> SUFFICES ASSUME ctl = "execute", allDone', NEW o \in Ops, o > cursor'
               PROVE  IF o \in Sources THEN outFrontier'[o] = MAX ELSE inFrontier'[o] = MAX
    BY <1>3 DEF PassSoFar
  <2>1. cursor = op /\ op \in Nat /\ o \in Nat
    BY GraphTypes DEF Scheduled
  <2>2. CASE CanProgress(chan', Inputs[op])
    <3>1. cursor' = cursor /\ allDone' = allDone
      BY <1>3, <2>2 DEF Advance
    <3>2. o > op
      BY <2>1, <3>1
    <3>3. o # op
      BY <2>1, <3>2
    <3> QED BY <1>0, <1>4, <2>1, <3>1, <3>2, <3>3 DEF PassSoFar
  <2>3. CASE ~CanProgress(chan', Inputs[op])
    <3>1. cursor' = op - 1 /\ allDone' = (allDone /\ IsFinalized(op))
      BY <1>3, <2>3 DEF Advance
    <3>2. allDone /\ IsFinalized(op)
      BY <3>1
    <3>3. CASE o = op
      BY <3>2, <3>3 DEF IsFinalized, HasTime, Sources
    <3>4. CASE o # op
      <4>1. o > op
        BY <2>1, <3>1, <3>4
      <4> QED BY <1>0, <1>4, <2>1, <3>2, <3>4, <4>1 DEF PassSoFar
    <3> QED BY <3>3, <3>4
  <2> QED BY <2>2, <2>3
<1>13. CompletesOnlyWhenDrained'
  BY <1>3 DEF CompletesOnlyWhenDrained, Scheduled, Working, Markers
<1> QED BY <1>8, <1>9, <1>10, <1>11, <1>12, <1>13 DEF EndInv

----------------------------------------------------------------------------
(* The other actions.                                                      *)

LEMMA OperatorKeeps ==
  ASSUME IInv, NEW op \in Ops, OperatorStep(op)
  PROVE  IInv'
<1>1. TypeOK /\ Stamped /\ RootCarriesMarkers /\ SourcesEnd /\ Types /\ MarkerInv
  BY DEF IInv, EndInv, Types, MarkerInv
<1>2. Scheduled(op)
  BY <1>1, StepSummary
<1>3. PICK T \in SUBSET Edges, m \in Message \cup {None} :
        \E outs, s, newSt : Summary(op, T, m, outs, s, newSt)
  BY <1>1, StepSummary
<1>4. PICK outs, s, newSt : Summary(op, T, m, outs, s, newSt)
  BY <1>3
<1>5. BarrierWave /\ ReportedIsComplete /\ EndInv
  BY DEF IInv
<1>6. Types'
  BY <1>1, <1>2, <1>4, StepTypes
<1>7. MarkerInv'
  BY <1>1, <1>2, <1>4, StepMarkers
<1>8. BarrierWave' /\ ReportedIsComplete'
  BY <1>1, <1>2, <1>4, <1>5, StepWave
<1>9. EndInv'
  BY <1>1, <1>2, <1>4, <1>5, StepEnds
<1> QED BY <1>6, <1>7, <1>8, <1>9 DEF IInv, MarkerInv

\* A worker that has just been built.
Built ==
  /\ chan = Unbounded(Edges) /\ upEpoch = [e \in Edges |-> None]
  /\ inFrontier = [op \in Ops |-> None] /\ outFrontier = [op \in Ops |-> None]
  /\ suspended = [op \in Ops |-> FALSE] /\ cursor = Len(Kind) /\ ctl \in {"execute", "panicked"}
  /\ uncommitted = FALSE /\ \A op \in Sources : ~st[op].maxSent

LEMMA BuiltKeeps ==
  Built => MarkerInv /\ BarrierWave /\ ReportedIsComplete /\ EndInv
<1> SUFFICES ASSUME Built PROVE MarkerInv /\ BarrierWave /\ ReportedIsComplete /\ EndInv
  OBVIOUS
<1>1. MAX # None /\ Len(Kind) \in Nat
  BY TimeAssumption, GraphTypes
<1>2. \A e \in Edges : chan[e] = <<>> /\ DOMAIN chan[e] = {} /\ upEpoch[e] = None
  BY DEF Built, Unbounded
<1>3. \A op \in Ops : inFrontier[op] = None /\ outFrontier[op] = None /\ ~suspended[op]
  BY DEF Built
<1>4. MarkerInv
  BY <1>2, <1>3 DEF MarkerInv, OwnMarkers, RootCarriesMarkers, NobodySuspends, Stamped
<1>5. BarrierWave /\ ReportedIsComplete
  BY DEF Built, BarrierWave, ReportedIsComplete
<1>6. NothingAfterMax /\ FrontierOfUpstreams
  BY <1>1, <1>2, <1>3 DEF NothingAfterMax, FrontierOfUpstreams
<1>7. EndsAfterUpstreams
  BY <1>1, <1>2 DEF EndsAfterUpstreams, Ending
<1>8. SourcesEnd
  BY <1>1, <1>3, GraphTypes DEF Built, SourcesEnd
<1>9. PassSoFar /\ CompletesOnlyWhenDrained
  <2>1. \A op \in Ops : ~(op > cursor)
    BY <1>1, GraphTypes DEF Built
  <2> QED BY <2>1 DEF Built, PassSoFar, CompletesOnlyWhenDrained
<1> QED BY <1>4, <1>5, <1>6, <1>7, <1>8, <1>9 DEF EndInv

LEMMA BuiltKeepsNext ==
  Built' => MarkerInv' /\ BarrierWave' /\ ReportedIsComplete' /\ EndInv'
  BY BuiltKeeps, PTL

LEMMA InitBuilt == Init => Built
<1>1. Init => \A op \in Sources : op \in Ops /\ st[op] = [pos |-> 0, maxSent |-> FALSE]
  BY DEF Init, Sources, Fresh
<1> QED BY <1>1 DEF Init, Built

LEMMA RestartBuilt == Restart => Built'
<1> SUFFICES ASSUME Restart PROVE Built'
  OBVIOUS
<1>1. \A op \in Sources : op \in Ops /\ st'[op].maxSent = FALSE
  BY DEF Restart, Build, Sources, Fresh, Loaded
<1> QED BY <1>1 DEF Built, Restart, Build

LEMMA FreshTypes == \A op \in Ops : StType(op, Fresh(op))
<1> SUFFICES ASSUME NEW op \in Ops PROVE StType(op, Fresh(op))
  OBVIOUS
<1>1. CASE Kind[op] = "source"
  <2>1. Fresh(op) = [pos |-> 0, maxSent |-> FALSE] /\ op \in Sources
    BY <1>1 DEF Fresh, Sources
  <2>2. Len(Feed[op]) \in Nat
    BY <2>1, GraphAssumption
  <2> QED BY <1>1, <2>1, <2>2 DEF StType
<1>2. CASE Kind[op] # "source"
  BY <1>2 DEF StType, Fresh
<1> QED BY <1>1, <1>2

LEMMA InitKeeps == Init => IInv
<1> SUFFICES ASSUME Init PROVE IInv
  OBVIOUS
<1>1. Built
  BY InitBuilt
<1>2. st = [op \in Ops |-> st[op]] /\ \A op \in Ops : StType(op, st[op])
  BY FreshTypes DEF Init
<1>3. saving = [op \in Ops |-> saving[op]] /\ committed = None
  BY DEF Init
<1>4. TypeOK
  <2>1. \A op \in Ops :
       CASE Kind[op] = "source"          -> st[op].pos \in 0..Len(Feed[op]) /\ st[op].maxSent \in BOOLEAN
         [] Kind[op] = "generate_epochs" -> st[op] \in Times \cup {None}
         [] Kind[op] = "stateful_map"    -> st[op] \in [Records -> Nat]
         [] Kind[op] = "ttl_map"         -> st[op] \subseteq [id : Records, ts : Times]
         [] OTHER                        -> st[op] = None
    BY <1>2 DEF StType
  <2>2. chan \in [Edges -> Seq(Message)]
    BY DEF Init, Unbounded
  <2>3. cursor \in 0..Len(Kind) /\ allDone \in BOOLEAN /\ ctl \in Working
    BY GraphTypes DEF Init, Working
  <2>4. requests \in 0..MaxRequests /\ crashes \in 0..MaxCrashes /\ idle \in 0..MaxIdle
    BY GraphAssumption DEF Init
  <2> QED BY <2>1, <2>2, <2>3, <2>4 DEF Init, TypeOK
<1>5. MarkerInv /\ BarrierWave /\ ReportedIsComplete /\ EndInv
  BY <1>1, BuiltKeeps
<1> QED BY <1>2, <1>3, <1>4, <1>5 DEF IInv, Types, MarkerInv

\* An operator loads what it has persisted.
LEMMA LoadedTypes ==
  ASSUME NEW op \in Ops, NEW v, Complete(op, v), Stateful(op)
  PROVE  StType(op, Loaded(op, v))
  BY DEF Complete, Stateful, StType, Loaded

LEMMA RestartKeeps ==
  ASSUME IInv, Restart
  PROVE  IInv'
<1>1. TypeOK /\ (committed # None => SnapshotComplete(committed))
  BY DEF IInv, Types
<1> DEFINE new(op) == IF committed = None \/ ~Stateful(op) THEN Fresh(op) ELSE Loaded(op, committed[op])
<1>2. st' = [op \in Ops |-> new(op)]
  BY DEF Restart, Build
<1>3. \A op \in Ops : StType(op, new(op))
  BY <1>1, FreshTypes, LoadedTypes DEF SnapshotComplete
<1> HIDE DEF new
<1>5. st' = [op \in Ops |-> st'[op]] /\ \A op \in Ops : StType(op, st'[op])
  BY <1>2, <1>3
<1>6. Built'
  BY RestartBuilt
<1>7. MarkerInv' /\ BarrierWave' /\ ReportedIsComplete' /\ EndInv'
  BY <1>6, BuiltKeepsNext
<1>8. TypeOK'
  <2>1. \A op \in Ops :
       CASE Kind[op] = "source"          -> st'[op].pos \in 0..Len(Feed[op]) /\ st'[op].maxSent \in BOOLEAN
         [] Kind[op] = "generate_epochs" -> st'[op] \in Times \cup {None}
         [] Kind[op] = "stateful_map"    -> st'[op] \in [Records -> Nat]
         [] Kind[op] = "ttl_map"         -> st'[op] \subseteq [id : Records, ts : Times]
         [] OTHER                        -> st'[op] = None
    BY <1>5 DEF StType
  <2>2. chan' \in [Edges -> Seq(Message)]
    BY DEF Restart, Build, Unbounded
  <2>3. cursor' \in 0..Len(Kind) /\ allDone' \in BOOLEAN /\ ctl' \in Working \cup {"complete", "suspended", "panicked"}
    BY GraphTypes DEF Restart, Build, Working
  <2>4. requests' \in 0..MaxRequests /\ crashes' \in 0..MaxCrashes /\ idle' \in 0..MaxIdle
    BY <1>1, GraphAssumption DEF Restart, TypeOK
  <2>5. stamp' \in StampFunctions /\ sunk' \in [Sinks -> SUBSET Records]
    BY <1>1 DEF Restart, TypeOK
  <2>6. /\ upEpoch' \in [Edges -> Times \cup {None}] /\ inFrontier' \in [Ops -> Times \cup {None}]
        /\ outFrontier' \in [Ops -> Times \cup {None}] /\ suspended' \in [Ops -> BOOLEAN]
        /\ uncommitted' \in BOOLEAN
    BY DEF Restart, Build
  <2> QED BY <2>1, <2>2, <2>3, <2>4, <2>5, <2>6 DEF TypeOK
<1>9. saving' = [op \in Ops |-> saving'[op]] /\ (committed' # None => SnapshotComplete(committed'))
  BY <1>1 DEF Restart
<1> QED BY <1>5, <1>7, <1>8, <1>9 DEF IInv, Types, MarkerInv

\* Nothing but the worker's loop has moved, and PassSoFar survived it.
LEMMA LoopKeeps ==
  ASSUME IInv, UNCHANGED <<ioVars, st, ctl, snapVars, envVars, sunk>>,
         cursor' \in 0..Len(Kind), allDone' \in BOOLEAN, PassSoFar'
  PROVE  IInv'
<1> USE DEF ioVars, snapVars, envVars
<1>1. Types'
  BY DEF IInv, Types, TypeOK, SnapshotComplete
<1>2. OwnMarkers' /\ RootCarriesMarkers' /\ NobodySuspends' /\ Stamped'
  BY DEF IInv, OwnMarkers, RootCarriesMarkers, NobodySuspends, Stamped, IsMarker
<1>3. BarrierWave' /\ ReportedIsComplete'
  BY DEF IInv, BarrierWave, Wave, ReportedIsComplete, SnapshotComplete
<1>4. NothingAfterMax' /\ EndsAfterUpstreams' /\ SourcesEnd' /\ FrontierOfUpstreams'
  BY DEF IInv, EndInv, NothingAfterMax, EndsAfterUpstreams, Ending, SourcesEnd, FrontierOfUpstreams,
         IsMarker, IsMaxEpoch
<1>5. CompletesOnlyWhenDrained'
  BY DEF IInv, EndInv, CompletesOnlyWhenDrained
<1> QED BY <1>1, <1>2, <1>3, <1>4, <1>5 DEF IInv, EndInv

\* At the start of a pass nothing is known yet.
LEMMA NewPassKeeps ==
  ASSUME NewPass
  PROVE  PassSoFar' /\ cursor' \in 0..Len(Kind) /\ allDone' \in BOOLEAN
<1>1. Len(Kind) \in Nat /\ cursor' = Len(Kind) /\ allDone' = TRUE
  BY GraphTypes DEF NewPass
<1>2. \A op \in Ops : ~(op > cursor')
  BY <1>1, GraphTypes
<1> QED BY <1>1, <1>2 DEF PassSoFar

LEMMA SkipKeeps ==
  ASSUME IInv, NEW op \in Ops, SkipSuspended(op)
  PROVE  IInv'
<1>1. ctl # "execute" /\ ctl' = ctl
  BY DEF SkipSuspended, IInv, NobodySuspends
<1>2. PassSoFar'
  BY <1>1 DEF PassSoFar
<1>3. cursor' \in 0..Len(Kind) /\ allDone' \in BOOLEAN
  BY GraphTypes DEF SkipSuspended, IInv, Types, TypeOK
<1> QED BY <1>2, <1>3, LoopKeeps DEF SkipSuspended

LEMMA PassKeeps ==
  ASSUME IInv, ContinueExecution \/ AwaitMarker
  PROVE  IInv'
  BY NewPassKeeps, LoopKeeps DEF ContinueExecution, AwaitMarker

\* Outside of a request there is no marker in the graph.
LEMMA NoMarkers ==
  ASSUME OwnMarkers, ctl \notin DOMAIN Markers, NEW e \in Edges, NEW i \in DOMAIN chan[e]
  PROVE  ~IsMarker(chan[e][i])
  BY DEF OwnMarkers

\* The pass has found every operator finalized: all streams have ended.
LEMMA CompleteKeeps ==
  ASSUME IInv, CompleteExecution
  PROVE  IInv'
<1>1. ctl = "execute" /\ cursor = 0 /\ allDone /\ ctl' = "complete"
  BY DEF CompleteExecution
<1>2. UNCHANGED <<ioVars, st, cursor, allDone, snapVars, envVars, sunk>>
  BY DEF CompleteExecution
<1>3. \A op \in Ops : IF op \in Sources THEN outFrontier[op] = MAX ELSE inFrontier[op] = MAX
  BY <1>1, GraphTypes DEF IInv, EndInv, PassSoFar
<1>4. \A op \in Sources : st[op].pos = Len(Feed[op])
  BY <1>3, GraphTypes DEF IInv, EndInv, SourcesEnd
<1>5. ASSUME NEW e \in Edges PROVE chan[e] = <<>>
  <2>1. chan[e] \in Seq(Message)
    BY DEF IInv, Types, TypeOK
  <2>2. \A i \in DOMAIN chan[e] : ~IsMarker(chan[e][i])
    BY <1>1, NoMarkers DEF IInv, Markers
  <2>3. PICK p \in Streams, c \in Ops : IsOutput(e, p) /\ IsInput(e, Inputs[c])
    BY EdgeEnds
  <2>4. \A i \in DOMAIN chan[e] : IsMarker(chan[e][i])
    <3>1. CASE c \in Sources
      <4>1. p = 0
        BY <2>3, <3>1, EdgeEnds DEF Sources
      <4> QED BY <2>3, <4>1 DEF IInv, RootCarriesMarkers
    <3>2. CASE c \notin Sources
      <4>1. upEpoch[e] = MAX
        BY <1>3, <2>3, <3>2 DEF IInv, EndInv, FrontierOfUpstreams
      <4> QED BY <4>1 DEF IInv, EndInv, NothingAfterMax
    <3> QED BY <3>1, <3>2
  <2>5. 1 \notin DOMAIN chan[e]
    BY <2>2, <2>4
  <2>6. Len(chan[e]) = 0
    BY <2>1, <2>5
  <2> QED BY <2>1, <2>6
<1> USE DEF ioVars, snapVars, envVars
<1>6. Types'
  BY <1>1, <1>2 DEF IInv, Types, TypeOK, SnapshotComplete
<1>7. OwnMarkers' /\ RootCarriesMarkers' /\ NobodySuspends' /\ Stamped'
  <2>1. \A e \in Edges : DOMAIN chan'[e] = {}
    BY <1>2, <1>5
  <2> QED BY <1>1, <1>2, <2>1 DEF IInv, OwnMarkers, RootCarriesMarkers, NobodySuspends, Stamped
<1>8. BarrierWave' /\ ReportedIsComplete'
  BY <1>1, <1>2 DEF IInv, BarrierWave, ReportedIsComplete, SnapshotComplete
<1>9. NothingAfterMax' /\ EndsAfterUpstreams' /\ SourcesEnd' /\ FrontierOfUpstreams'
  BY <1>2 DEF IInv, EndInv, NothingAfterMax, EndsAfterUpstreams, Ending, SourcesEnd, FrontierOfUpstreams,
         IsMarker, IsMaxEpoch
<1>10. PassSoFar' /\ CompletesOnlyWhenDrained'
  BY <1>1, <1>2, <1>4, <1>5 DEF PassSoFar, CompletesOnlyWhenDrained
<1> QED BY <1>6, <1>7, <1>8, <1>9, <1>10 DEF IInv, EndInv

LEMMA CommitKeeps ==
  ASSUME IInv, CommitSnapshot
  PROVE  IInv'
<1> USE DEF CommitSnapshot, ioVars, execVars, envVars
<1>1. Types'
  BY DEF IInv, Types, TypeOK, SnapshotComplete, ReportedIsComplete
<1>2. OwnMarkers' /\ RootCarriesMarkers' /\ NobodySuspends' /\ Stamped'
  BY DEF IInv, OwnMarkers, RootCarriesMarkers, NobodySuspends, Stamped, IsMarker
<1>3. BarrierWave' /\ ReportedIsComplete'
  BY DEF IInv, BarrierWave, Wave, ReportedIsComplete
<1>4. NothingAfterMax' /\ EndsAfterUpstreams' /\ SourcesEnd' /\ FrontierOfUpstreams'
  BY DEF IInv, EndInv, NothingAfterMax, EndsAfterUpstreams, Ending, SourcesEnd, FrontierOfUpstreams,
         IsMarker, IsMaxEpoch
<1>5. PassSoFar' /\ CompletesOnlyWhenDrained'
  BY DEF IInv, EndInv, PassSoFar, CompletesOnlyWhenDrained
<1> QED BY <1>1, <1>2, <1>3, <1>4, <1>5 DEF IInv, EndInv

LEMMA StutterKeeps ==
  ASSUME IInv, UNCHANGED vars
  PROVE  IInv'
<1>1. UNCHANGED <<ioVars, st, ctl, snapVars, envVars, sunk>> /\ UNCHANGED <<cursor, allDone>>
  BY DEF vars, execVars
<1>2. PassSoFar'
  BY <1>1 DEF IInv, EndInv, PassSoFar, ioVars
<1>3. cursor' \in 0..Len(Kind) /\ allDone' \in BOOLEAN
  BY <1>1 DEF IInv, Types, TypeOK
<1> QED BY <1>1, <1>2, <1>3, LoopKeeps

\* The marker is all there is on the root stream, and the only one in the graph.
LEMMA MarkerSent ==
  ASSUME IInv, NEW what \in DOMAIN Markers, SendMarker(what)
  PROVE  /\ chan' \in [Edges -> Seq(Message)]
         /\ \A e \in Edges : \A i \in DOMAIN chan[e] : ~IsMarker(chan[e][i])
         /\ \A e \in Edges : IsOutput(e, 0) =>
              DOMAIN chan[e] = {} /\ DOMAIN chan'[e] = {1} /\ chan'[e][1] = Marker(Markers[what])
         /\ \A e \in Edges : ~IsOutput(e, 0) => chan'[e] = chan[e]
<1> DEFINE k == Markers[what]
           marker == Marker(k)
<1>1. ctl = "execute" /\ chan' = Send(chan, Outputs[0], <<marker>>, Flags(0, <<marker>>))
  BY DEF SendMarker
<1>2. k \in MarkerKinds /\ marker \in Message
  BY DEF Markers, MarkerKinds, Marker, Message
<1>3. Flags(0, <<marker>>) = DOMAIN Outputs[0]
  BY DEF Flags
<1> HIDE DEF marker, k
<1>4. chan \in [Edges -> Seq(Message)]
  BY DEF IInv, Types, TypeOK
<1>5. chan' = [e \in Edges |-> IF IsOutput(e, 0) THEN chan[e] \o <<marker>> ELSE chan[e]]
  BY <1>1, <1>3, <1>4 DEF Send, IsOutput, IsInput
<1>6. \A e \in Edges : \A i \in DOMAIN chan[e] : ~IsMarker(chan[e][i])
  BY <1>1, NoMarkers DEF IInv, Markers
<1>7. DOMAIN <<marker>> = {1} /\ <<marker>>[1] = marker /\ <<marker>> \in Seq(Message)
  BY <1>2, Singles
<1>8. ASSUME NEW e \in Edges, IsOutput(e, 0) PROVE DOMAIN chan[e] = {} /\ chan'[e] = <<marker>>
  <2>1. \A i \in DOMAIN chan[e] : IsMarker(chan[e][i])
    BY <1>8 DEF IInv, RootCarriesMarkers
  <2>2. 1 \notin DOMAIN chan[e] /\ chan[e] \in Seq(Message)
    BY <1>4, <1>6, <2>1
  <2>3. Len(chan[e]) = 0
    BY <2>2
  <2>4. chan[e] = <<>>
    BY <2>2, <2>3
  <2>5. <<marker>> \in Seq(Message) /\ <<>> \o <<marker>> = <<marker>>
    BY <1>2
  <2>6. DOMAIN chan[e] = {}
    BY <1>6, <2>1
  <2> QED BY <1>5, <1>8, <2>4, <2>5, <2>6
<1>9. \A e \in Edges : ~IsOutput(e, 0) => chan'[e] = chan[e]
  BY <1>5
<1>10. \A e \in Edges : chan'[e] \in Seq(Message)
  BY <1>4, <1>7, <1>8, <1>9
<1> QED BY <1>5, <1>6, <1>7, <1>8, <1>9, <1>10 DEF marker, k

\* The barrier of a snapshot has passed nobody yet.
LEMMA BarrierSent ==
  ASSUME IInv, SendMarker("snapshot")
  PROVE  Wave({})'
<1>1. "snapshot" \in DOMAIN Markers /\ Markers["snapshot"] = "AbsBarrier" /\ Marker("AbsBarrier").kind = "AbsBarrier"
  BY DEF Markers, Marker
<1>2. /\ \A e \in Edges : \A i \in DOMAIN chan[e] : ~IsMarker(chan[e][i])
      /\ \A e \in Edges : IsOutput(e, 0) => DOMAIN chan'[e] = {1} /\ IsBarrier(chan'[e][1])
      /\ \A e \in Edges : ~IsOutput(e, 0) => chan'[e] = chan[e]
  BY <1>1, MarkerSent DEF IsBarrier
<1>3. ASSUME NEW p \in Streams, NEW c \in Ops, NEW e \in Edges, IsOutput(e, p), IsInput(e, Inputs[c])
      PROVE  EdgeWave({}, p, c, chan'[e])
  <2>1. CASE p = 0
    BY <1>2, <1>3, <2>1 DEF EdgeWave
  <2>2. CASE p # 0
    <3>1. ~IsOutput(e, 0)
      BY <1>3, <2>2, EdgeEnds, GraphTypes
    <3>2. \A i \in DOMAIN chan'[e] : ~IsBarrier(chan'[e][i])
      BY <1>2, <3>1 DEF IsBarrier, IsMarker, MarkerKinds
    <3> QED BY <2>2, <3>2 DEF EdgeWave
  <2> QED BY <2>1, <2>2
<1> QED BY <1>3 DEF Wave

LEMMA SendMarkerKeeps ==
  ASSUME IInv, NEW what \in DOMAIN Markers, SendMarker(what)
  PROVE  IInv'
<1> DEFINE k == Markers[what]
           marker == Marker(k)
<1>1. /\ ctl = "execute" /\ ~uncommitted /\ ctl' = what /\ saving' = [op \in Ops |-> None] /\ NewPass
      /\ UNCHANGED <<upEpoch, inFrontier, outFrontier, suspended, st, uncommitted, committed,
                     crashes, idle, stamp, sunk>>
      /\ requests < MaxRequests /\ requests' = requests + 1
  BY DEF SendMarker
<1>2. k \in MarkerKinds /\ marker \in Message /\ marker.kind = k /\ IsMarker(marker) /\ ~IsMaxEpoch(marker)
  BY DEF Markers, MarkerKinds, Marker, Message, IsMarker, IsMaxEpoch
<1>3. /\ \A e \in Edges : \A i \in DOMAIN chan[e] : ~IsMarker(chan[e][i])
      /\ \A e \in Edges : ~IsOutput(e, 0) => chan'[e] = chan[e]
      /\ \A e \in Edges : IsOutput(e, 0) => DOMAIN chan'[e] = {1} /\ chan'[e][1] = marker
      /\ chan' \in [Edges -> Seq(Message)]
  BY MarkerSent
<1> HIDE DEF marker, k
<1>4. Types'
  <2>1. cursor' \in 0..Len(Kind) /\ allDone' \in BOOLEAN
    BY <1>1, NewPassKeeps
  <2>2. ctl' \in Working
    BY <1>1 DEF Working
  <2>3. requests' \in 0..MaxRequests
    BY <1>1, GraphAssumption DEF IInv, Types, TypeOK
  <2> QED BY <1>1, <1>3, <2>1, <2>2, <2>3 DEF IInv, Types, TypeOK, SnapshotComplete
<1>5. OwnMarkers'
  <2> SUFFICES ASSUME NEW e \in Edges, NEW i \in DOMAIN chan'[e], IsMarker(chan'[e][i])
               PROVE  what \in DOMAIN Markers /\ chan'[e][i].kind = Markers[what]
    BY <1>1 DEF OwnMarkers, IsMarker
  <2>1. IsOutput(e, 0)
    BY <1>3
  <2>2. chan'[e][i] = marker
    BY <1>3, <2>1
  <2> QED BY <1>2, <2>2 DEF k
<1>6. RootCarriesMarkers'
  BY <1>1, <1>2, <1>3 DEF IInv, RootCarriesMarkers, IsMarker
<1>7. NobodySuspends'
  BY <1>1 DEF IInv, NobodySuspends
<1>8. Stamped'
  <2> SUFFICES ASSUME NEW g \in Ops, Kind[g] = "generate_epochs", NEW e \in Edges, IsInput(e, Inputs[g]),
                      NEW i \in DOMAIN chan'[e], chan'[e][i].kind = "Data"
               PROVE  chan'[e][i].ts \in Bound..(MAX - 1)
    BY DEF Stamped, IsInput
  <2>1. ~IsOutput(e, 0)
    BY EdgeEnds, GraphTypes
  <2> QED BY <1>3, <2>1 DEF IInv, Stamped
<1>9. BarrierWave'
  <2>1. what = "snapshot" => Wave({})'
    BY BarrierSent
  <2> QED BY <1>1, <2>1 DEF BarrierWave
<1>10. ReportedIsComplete'
  BY <1>1 DEF ReportedIsComplete
<1>11. NothingAfterMax'
  <2> SUFFICES ASSUME NEW e \in Edges
               PROVE  /\ upEpoch'[e] = MAX => \A j \in DOMAIN chan'[e] : IsMarker(chan'[e][j])
                      /\ \A i, j \in DOMAIN chan'[e] : IsMaxEpoch(chan'[e][i]) /\ i < j => IsMarker(chan'[e][j])
    BY DEF NothingAfterMax, IsMaxEpoch, IsMarker
  <2>1. CASE IsOutput(e, 0)
    BY <1>2, <1>3, <2>1
  <2>2. CASE ~IsOutput(e, 0)
    BY <1>1, <1>3, <2>2 DEF IInv, EndInv, NothingAfterMax
  <2> QED BY <2>1, <2>2
<1>12. EndsAfterUpstreams'
  <2>1. \A p \in Ops : \A e \in Edges : IsOutput(e, p) => chan'[e] = chan[e]
    BY <1>3, EdgeEnds, GraphTypes
  <2> QED BY <1>1, <2>1 DEF IInv, EndInv, EndsAfterUpstreams, Ending, IsMaxEpoch
<1>13. SourcesEnd' /\ FrontierOfUpstreams'
  BY <1>1 DEF IInv, EndInv, SourcesEnd, FrontierOfUpstreams
<1>14. PassSoFar' /\ CompletesOnlyWhenDrained'
  BY <1>1 DEF PassSoFar, CompletesOnlyWhenDrained, Markers
<1> QED BY <1>4, <1>5, <1>6, <1>7, <1>8, <1>9, <1>10, <1>11, <1>12, <1>13, <1>14 DEF IInv, EndInv

\* When no edge holds the barrier any more it has passed every operator: the
\* first one it has not passed would still have it on its input.
LEMMA WaveOver ==
  ASSUME NEW D \in SUBSET Ops, Wave(D), \A e \in Edges : \A i \in DOMAIN chan[e] : ~IsBarrier(chan[e][i])
  PROVE  D = Ops
<1> SUFFICES ASSUME Ops \ D # {} PROVE FALSE
  OBVIOUS
<1>1. Ops \ D \subseteq Nat
  BY GraphTypes
<1>2. PICK c \in Ops \ D : \A y \in Ops \ D : c <= y
  BY <1>1, LeastNatural
<1>3. PICK e \in Edges : IsInput(e, Inputs[c])
  BY EdgesOfOperators
<1>4. PICK p \in Streams : IsOutput(e, p)
  BY <1>3, EdgeEnds
<1>5. p < c
  BY <1>3, <1>4, EdgeEnds
<1>6. p \in D \cup {0}
  <2>1. p = 0 \/ p \in Ops
    BY GraphTypes DEF Streams
  <2>2. p \in Nat /\ c \in Nat
    BY <1>1 DEF Streams
  <2>3. p \notin Ops \ D
    BY <1>2, <1>5, <2>2
  <2> QED BY <2>1, <2>3
<1>7. \E i \in DOMAIN chan[e] : IsBarrier(chan[e][i])
  BY <1>3, <1>4, <1>6 DEF Wave, EdgeWave
<1> QED BY <1>7

LEMMA MarkerDoneKeeps ==
  ASSUME IInv, MarkerDone
  PROVE  IInv'
<1>1. /\ ctl \in DOMAIN Markers /\ ~InFlight(chan, Markers[ctl]) /\ NewPass
      /\ ctl' = (IF ctl = "suspend" THEN "suspended" ELSE "execute")
      /\ uncommitted' = (ctl = "snapshot")
      /\ UNCHANGED <<ioVars, st, saving, committed, envVars, sunk>>
  BY DEF MarkerDone
<1>2. chan \in [Edges -> Seq(Message)]
  BY DEF IInv, Types, TypeOK
<1>3. \A e \in Edges : \A i \in DOMAIN chan[e] : ~IsMarker(chan[e][i])
  BY <1>1, <1>2 DEF IInv, OwnMarkers, InFlight
<1> USE DEF ioVars, envVars
<1>4. Types'
  <2>1. cursor' \in 0..Len(Kind) /\ allDone' \in BOOLEAN
    BY <1>1, NewPassKeeps
  <2>2. ctl' \in Working \cup {"suspended"} /\ uncommitted' \in BOOLEAN
    BY <1>1 DEF Working
  <2> QED BY <1>1, <2>1, <2>2 DEF IInv, Types, TypeOK, SnapshotComplete
<1>5. OwnMarkers' /\ RootCarriesMarkers' /\ Stamped'
  BY <1>1, <1>3 DEF IInv, OwnMarkers, RootCarriesMarkers, Stamped, IsMarker
<1>6. NobodySuspends'
  <2>1. ctl' \notin {"suspend", "suspended"} => ctl \notin {"suspend", "suspended"}
    BY <1>1 DEF Markers
  <2> QED BY <1>1, <2>1 DEF IInv, NobodySuspends
<1>7. BarrierWave'
  BY <1>1 DEF BarrierWave
<1>8. ReportedIsComplete'
  <2> SUFFICES ASSUME ctl = "snapshot" PROVE ctl' = "execute" /\ SnapshotComplete(saving)
    BY <1>1 DEF ReportedIsComplete, SnapshotComplete
  <2>1. PICK D \in SUBSET Ops : Wave(D)
    BY DEF IInv, BarrierWave
  <2>2. D = Ops
    BY <1>3, <2>1, WaveOver DEF IsBarrier, IsMarker, MarkerKinds
  <2> QED BY <1>1, <2>1, <2>2 DEF Wave, SnapshotComplete, IInv, Types
<1>9. NothingAfterMax' /\ EndsAfterUpstreams' /\ SourcesEnd' /\ FrontierOfUpstreams'
  BY <1>1 DEF IInv, EndInv, NothingAfterMax, EndsAfterUpstreams, Ending, SourcesEnd, FrontierOfUpstreams,
         IsMarker, IsMaxEpoch
<1>10. PassSoFar' /\ CompletesOnlyWhenDrained'
  <2>1. PassSoFar'
    BY <1>1, NewPassKeeps
  <2> QED BY <1>1, <2>1 DEF CompletesOnlyWhenDrained
<1> QED BY <1>4, <1>5, <1>6, <1>7, <1>8, <1>9, <1>10 DEF IInv, EndInv

LEMMA NextCases ==
  ASSUME Next
  PROVE  \/ \E op \in Ops : OperatorStep(op) \/ SkipSuspended(op)
         \/ ContinueExecution \/ AwaitMarker \/ MarkerDone \/ CompleteExecution
         \/ \E what \in DOMAIN Markers : SendMarker(what)
         \/ CommitSnapshot \/ Restart \/ UNCHANGED vars
<1>1. CASE cursor \in Ops /\ (StepOperator(cursor) \/ \E polled \in BOOLEAN : StepSource(cursor, polled))
  BY <1>1 DEF StepOperator, OperatorStep
<1> QED BY <1>1 DEF Next, WorkerStep, Ended

LEMMA NextKeeps == IInv /\ [Next]_vars => IInv'
<1> SUFFICES ASSUME IInv, [Next]_vars PROVE IInv'
  OBVIOUS
<1>1. CASE UNCHANGED vars
  BY <1>1, StutterKeeps
<1>2. CASE Next
  BY <1>2, NextCases, OperatorKeeps, SkipKeeps, PassKeeps, MarkerDoneKeeps, CompleteKeeps, SendMarkerKeeps,
     CommitKeeps, RestartKeeps, StutterKeeps
<1> QED BY <1>1, <1>2

LEMMA InductiveInvariant == Spec => []IInv
  BY InitKeeps, NextKeeps, PTL DEF Spec

\* Whatever the graph: messages, epochs and frontiers stay in their sets, and
\* every operator finds in its snapshot a state it can load
\* (runnable.rs:8, worker/mod.rs:225).
THEOREM TypeCorrect == Spec => []TypeOK
<1>1. IInv => TypeOK
  BY DEF IInv, Types
<1> QED BY <1>1, InductiveInvariant, PTL

\* Whatever the graph: the worker reports ExecutionComplete only when its sources
\* are exhausted and no edge holds a message (worker/mod.rs:237, standard.rs:25).
THEOREM CompletesDrained == Spec => []CompletesOnlyWhenDrained
<1>1. IInv => CompletesOnlyWhenDrained
  BY DEF IInv, EndInv
<1> QED BY <1>1, InductiveInvariant, PTL

\* A snapshot is committed only with the state of every operator in it: the
\* worker reports it when the barrier has left the graph, and a barrier leaves no
\* operator out, unions and splits included (operator_io.rs:155, worker/mod.rs:294).
CommittedIsComplete == committed # None => SnapshotComplete(committed)

\* Whatever the graph and whenever the request comes: every snapshot that was
\* committed is complete in this sense.
THEOREM SnapshotsComplete == Spec => []CommittedIsComplete
<1>1. IInv => CommittedIsComplete
  BY DEF IInv, Types, CommittedIsComplete
<1> QED BY <1>1, InductiveInvariant, PTL

----------------------------------------------------------------------------
(* Epochs and data: one edge.                                              *)

LEMMA TimeOrder ==
  \A a, b, t \in Times : /\ a <= b /\ b <= t => a <= t
                         /\ a <= b /\ t >= b => a <= t
                         /\ a <= b /\ t > b => t > a
                         /\ a <= b <=> b >= a
  BY TimeAssumption DEF Times

LEMMA KnownTypes ==
  ASSUME NEW q \in Seq(Message), NEW up \in Times \cup {None}
  PROVE  /\ KnownEpochs(q, up) \subseteq Times
         /\ up # None => up \in KnownEpochs(q, up)
         /\ \A i \in DOMAIN q : q[i].kind = "Epoch" => q[i].ts \in KnownEpochs(q, up)
         /\ \A t \in KnownEpochs(q, up) :
              (up # None /\ t = up) \/ \E i \in DOMAIN q : q[i].kind = "Epoch" /\ q[i].ts = t
<1>1. \A i \in DOMAIN q : q[i].kind = "Epoch" => q[i].ts \in Times
  BY MessageKinds
<1> QED BY <1>1 DEF KnownEpochs, SentEpochs

\* The receiver takes the head.
EpochAfter(q, up, up2) == up2 = up \/ (q[1].kind = "Epoch" /\ up2 = q[1].ts)

LEMMA OrderTaken ==
  ASSUME NEW c, NEW q \in Seq(Message), NEW r \in Seq(Message), Shifted(q, r),
         NEW up \in Times \cup {None}, NEW up2 \in Times \cup {None}, 1 \in DOMAIN q,
         EpochAfter(q, up, up2), Ordered(c, q, up)
  PROVE  Ordered(c, r, up2) /\ KnownEpochs(r, up2) \subseteq KnownEpochs(q, up)
<1> USE DEF EpochAfter
<1>1. \A i \in DOMAIN r : i \in Nat /\ i >= 1 /\ i + 1 \in DOMAIN q /\ r[i] = q[i + 1]
  BY DEF Shifted
<1>2. ASSUME NEW i \in DOMAIN r, NEW j \in DOMAIN r, i < j, r[i].kind = "Epoch"
      PROVE  /\ Promised(c, r[j]) => r[j].ts > r[i].ts
             /\ r[j].kind = "Epoch" => r[j].ts >= r[i].ts
  <2>1. i + 1 < j + 1 /\ i + 1 \in DOMAIN q /\ j + 1 \in DOMAIN q /\ r[i] = q[i + 1] /\ r[j] = q[j + 1]
    BY <1>1, <1>2
  <2> QED BY <1>2, <2>1 DEF Ordered
<1>3. ASSUME up2 # None, NEW j \in DOMAIN r
      PROVE  /\ Promised(c, r[j]) => r[j].ts > up2
             /\ r[j].kind = "Epoch" => r[j].ts >= up2
  <2>1. 1 < j + 1 /\ j + 1 \in DOMAIN q /\ r[j] = q[j + 1]
    BY <1>1, <1>3
  <2>2. CASE up2 = up
    BY <1>3, <2>1, <2>2 DEF Ordered
  <2>3. CASE q[1].kind = "Epoch" /\ up2 = q[1].ts
    BY <1>3, <2>1, <2>3 DEF Ordered
  <2> QED BY <2>2, <2>3
<1>4. KnownEpochs(r, up2) \subseteq KnownEpochs(q, up)
  <2> SUFFICES ASSUME NEW t \in KnownEpochs(r, up2) PROVE t \in KnownEpochs(q, up)
    OBVIOUS
  <2>1. (up2 # None /\ t = up2) \/ \E i \in DOMAIN r : r[i].kind = "Epoch" /\ r[i].ts = t
    BY KnownTypes
  <2>2. \A i \in DOMAIN q : q[i].kind = "Epoch" => q[i].ts \in KnownEpochs(q, up)
    BY KnownTypes
  <2>3. CASE up2 # None /\ t = up2
    BY <2>2, <2>3, KnownTypes
  <2>4. CASE \E i \in DOMAIN r : r[i].kind = "Epoch" /\ r[i].ts = t
    BY <1>1, <2>2, <2>4
  <2> QED BY <2>1, <2>3, <2>4
<1>5. Ordered(c, r, up2)
  BY <1>2, <1>3 DEF Ordered
<1> QED BY <1>4, <1>5

\* Messages may follow those of an edge.
Follows(c, x, known) ==
  /\ \A i, j \in DOMAIN x : i < j /\ x[i].kind = "Epoch" => IsMarker(x[j])
  /\ \A t \in known : \A i \in DOMAIN x : /\ Promised(c, x[i]) => x[i].ts > t
                                          /\ x[i].kind = "Epoch" => x[i].ts >= t

LEMMA OrderSent ==
  ASSUME NEW c, NEW q \in Seq(Message), NEW r \in Seq(Message), NEW x \in Seq(Message), Extended(q, x, r),
         NEW up \in Times \cup {None}, Ordered(c, q, up), Follows(c, x, KnownEpochs(q, up))
  PROVE  Ordered(c, r, up) /\ KnownEpochs(r, up) \subseteq KnownEpochs(q, up) \cup SentEpochs(x)
<1>1. Len(q) \in Nat /\ DOMAIN q = 1..Len(q) /\ DOMAIN r \subseteq Nat
  OBVIOUS
<1>2. \A i \in DOMAIN r :
        \/ i \in DOMAIN q /\ r[i] = q[i]
        \/ i > Len(q) /\ i - Len(q) \in DOMAIN x /\ r[i] = x[i - Len(q)]
  BY DEF Extended
<1>3. ASSUME NEW i \in DOMAIN r, NEW j \in DOMAIN r, i < j, r[i].kind = "Epoch"
      PROVE  /\ Promised(c, r[j]) => r[j].ts > r[i].ts
             /\ r[j].kind = "Epoch" => r[j].ts >= r[i].ts
  <2>1. CASE i \in DOMAIN q /\ j \in DOMAIN q
    <3>1. r[i] = q[i] /\ r[j] = q[j]
      BY <1>1, <1>2, <2>1
    <3> QED BY <1>3, <2>1, <3>1 DEF Ordered
  <2>2. CASE i \in DOMAIN q /\ j \notin DOMAIN q
    <3>1. r[i] = q[i] /\ j - Len(q) \in DOMAIN x /\ r[j] = x[j - Len(q)]
      BY <1>1, <1>2, <2>2
    <3>2. q[i].ts \in KnownEpochs(q, up)
      BY <1>3, <2>2, <3>1, KnownTypes
    <3> QED BY <3>1, <3>2 DEF Follows
  <2>3. CASE i \notin DOMAIN q
    <3>1. i > Len(q) /\ i - Len(q) \in DOMAIN x /\ r[i] = x[i - Len(q)]
      BY <1>2, <2>3
    <3>2. j \notin DOMAIN q /\ i - Len(q) < j - Len(q)
      BY <1>1, <1>3, <3>1
    <3>3. j - Len(q) \in DOMAIN x /\ r[j] = x[j - Len(q)]
      BY <1>2, <3>2
    <3>4. IsMarker(r[j])
      BY <1>3, <3>1, <3>2, <3>3 DEF Follows
    <3> QED BY <3>4 DEF IsMarker, MarkerKinds, Promised
  <2> QED BY <2>1, <2>2, <2>3
<1>4. ASSUME up # None, NEW j \in DOMAIN r
      PROVE  /\ Promised(c, r[j]) => r[j].ts > up
             /\ r[j].kind = "Epoch" => r[j].ts >= up
  <2>1. up \in KnownEpochs(q, up)
    BY <1>4, KnownTypes
  <2> QED BY <1>2, <1>4, <2>1 DEF Follows, Ordered
<1>5. KnownEpochs(r, up) \subseteq KnownEpochs(q, up) \cup SentEpochs(x)
  <2> SUFFICES ASSUME NEW t \in KnownEpochs(r, up), t \notin KnownEpochs(q, up) PROVE t \in SentEpochs(x)
    OBVIOUS
  <2>1. \A i \in DOMAIN q : q[i].kind = "Epoch" => q[i].ts # t
    BY KnownTypes
  <2>2. ~(up # None /\ t = up)
    BY KnownTypes
  <2>3. PICK i \in DOMAIN r : r[i].kind = "Epoch" /\ r[i].ts = t
    BY <2>2, KnownTypes
  <2>4. i - Len(q) \in DOMAIN x /\ r[i] = x[i - Len(q)]
    BY <1>2, <2>1, <2>3
  <2> QED BY <2>3, <2>4 DEF SentEpochs
<1>6. Ordered(c, r, up)
  BY <1>3, <1>4 DEF Ordered
<1> QED BY <1>5, <1>6

----------------------------------------------------------------------------
(* Epochs and data: one step.                                              *)

\* The epochs an input knows only grow, and what it receives is newer than what
\* it has let through.
LEMMA ReceivedInOrder ==
  ASSUME Types, InOrder, NEW op \in Ops, Watched(op), NEW T, NEW m, NEW up \in [Edges -> Times \cup {None}],
         Reception(op, T, m, up), inFrontier[op] # None
  PROVE  /\ inFrontier[op] \in Times
         /\ \A d \in Edges : IsInput(d, Inputs[op]) => up[d] \in Times /\ inFrontier[op] <= up[d]
         /\ IsKind(m, "Epoch") => m.ts >= inFrontier[op]
         /\ IsKind(m, "Data") /\ Promised(op, m) => m.ts > inFrontier[op]
<1>0. Queues /\ inFrontier[op] \in Times /\ Times \subseteq Int
  BY DEF Types, TypeOK, Queues, Times
<1>1. ASSUME NEW d \in Edges, IsInput(d, Inputs[op])
      PROVE  /\ upEpoch[d] \in Times /\ inFrontier[op] <= upEpoch[d]
             /\ up[d] \in Times /\ inFrontier[op] <= up[d]
  <2>1. upEpoch[d] # None /\ inFrontier[op] <= upEpoch[d] /\ Ordered(op, chan[d], upEpoch[d])
    BY <1>1 DEF InOrder, MergedSoFar
  <2>2. upEpoch[d] \in Times /\ chan[d] \in Seq(Message)
    BY <1>0, <2>1 DEF Queues
  <2>3. CASE up[d] = upEpoch[d]
    BY <2>1, <2>2, <2>3
  <2>4. CASE 1 \in DOMAIN chan[d] /\ chan[d][1].kind = "Epoch" /\ up[d] = chan[d][1].ts
    <3>1. up[d] >= upEpoch[d]
      BY <2>1, <2>4 DEF Ordered
    <3>2. up[d] \in Times
      BY <2>2, <2>4, MessageKinds
    <3> QED BY <1>0, <2>1, <2>2, <3>1, <3>2, TimeOrder
  <2> QED BY <1>0, <2>3, <2>4, EpochsKnown
<1>2. ASSUME IsKind(m, "Epoch") PROVE m.ts >= inFrontier[op]
  <2>1. MergedFrom(op, m, up)
    BY <1>0, <1>2, EpochReceived
  <2>2. m # None
    BY <1>2 DEF IsKind
  <2>3. PICK t \in Times : m = Epoch(t) /\ \E d \in Edges : IsInput(d, Inputs[op]) /\ up[d] = t
    BY <2>1, <2>2 DEF MergedFrom
  <2>4. m.ts = t
    BY <2>3 DEF Epoch
  <2> QED BY <1>0, <1>1, <2>3, <2>4
<1>3. ASSUME IsKind(m, "Data"), Promised(op, m) PROVE m.ts > inFrontier[op]
  <2>1. (\A t : Epoch(t).kind # "Data") /\ \A k \in {"AbsBarrier", "SuspendMarker"} : Marker(k).kind # "Data"
    BY DEF Epoch, Marker
  <2>2. PICK e \in Edges : T = {e} /\ m = Head(chan[e])
    BY <1>3, <2>1 DEF Reception, ReceivesNothing, ReceivesOne, ReceivesAligned, MergedFrom, IsKind
  <2>3. IsInput(e, Inputs[op]) /\ chan[e] # <<>> /\ chan[e] \in Seq(Message)
    BY <1>0, <2>2 DEF Reception, Queues
  <2>4. m = chan[e][1] /\ 1 \in DOMAIN chan[e] /\ m \in Message
    BY <2>2, <2>3
  <2>5. upEpoch[e] \in Times /\ inFrontier[op] <= upEpoch[e]
    BY <1>1, <2>3
  <2>6. m.ts > upEpoch[e]
    <3>1. upEpoch[e] # None
      BY <2>5, TimeAssumption DEF Times
    <3> QED BY <1>3, <2>3, <2>4, <3>1 DEF InOrder, Ordered
  <2>7. m.ts \in Times
    BY <1>3, <2>4, MessageKinds DEF IsKind
  <2> QED BY <1>0, <2>5, <2>6, <2>7, TimeOrder
<1> QED BY <1>0, <1>1, <1>2, <1>3

\* The sender of a watched stream: a source, a split whose late half goes
\* elsewhere, an operator of the on-time stream, or generate_epochs.
LEMMA SenderKinds ==
  ASSUME LateStreamApart, NEW p \in Ops, NEW c \in Ops, Watched(c), NEW e, IsOutput(e, p), IsInput(e, Inputs[c])
  PROVE  \/ p \in Sources
         \/ Kind[p] = "split" /\ Kind[c] # "split" /\ \A i \in DOMAIN Outputs[p] : Outputs[p][i] = e => i # 2
         \/ OnTimeOp(p) /\ Kind[p] \notin {"source", "assign_timestamps", "generate_epochs", "split"} /\ Kind[c] # "split"
         \/ Kind[p] = "generate_epochs" /\ Kind[c] = "split"
<1>1. PICK j \in DOMAIN Inputs[c] : Inputs[c][j] = e
  BY DEF IsInput
<1>2. PICK i \in DOMAIN Outputs[p] : Outputs[p][i] = e
  BY DEF IsOutput, IsInput
<1>3. \A k \in DOMAIN Outputs[p] : Outputs[p][k] = e =>
        /\ OnTimeOp(c) => \/ Kind[p] = "source"
                          \/ Kind[p] = "split" /\ k # 2
                          \/ OnTimeOp(p) /\ Kind[p] \notin {"assign_timestamps", "generate_epochs", "split"}
        /\ Kind[c] = "split" => Kind[p] = "generate_epochs"
  BY <1>1 DEF LateStreamApart, Link
<1>4. CASE Kind[c] = "split"
  BY <1>2, <1>3, <1>4
<1>5. CASE Kind[c] # "split"
  <2>1. OnTimeOp(c)
    BY <1>5 DEF Watched
  <2> QED BY <1>2, <1>3, <1>5, <2>1 DEF Sources
<1> QED BY <1>4, <1>5

LEMMA LatestTypes ==
  ASSUME Types
  PROVE  \A p \in Ops : Latest(p) \in Times \cup {None}
<1>1. \A p \in Ops : StType(p, st[p]) /\ inFrontier[p] \in Times \cup {None}
  BY StTypes DEF Types, TypeOK
<1> QED BY <1>1 DEF StType, Latest

\* Epochs go out after the data of the same step.
EpochsLast(outs) == \A i, j \in DOMAIN outs : i < j /\ outs[i].kind = "Epoch" => IsMarker(outs[j])

\* What generate_epochs sends: a message that is on time is newer than the last
\* epoch, an epoch is larger.
Generated(outs, s, newSt) ==
  /\ EpochsLast(outs)
  /\ \A i \in DOMAIN outs :
       /\ outs[i].kind = "Data" /\ ~outs[i].late /\ s # None => outs[i].ts > s
       /\ outs[i].kind = "Epoch" => outs[i].ts = newSt /\ newSt \in Times /\ (s # None => newSt >= s)
  /\ s # None => newSt \in Times /\ newSt >= s

LEMMA GenerateInOrder ==
  ASSUME NEW op \in Ops, Kind[op] = "generate_epochs", NEW s \in Times \cup {None}, NEW m \in Message \cup {None},
         IsKind(m, "Data") => m.ts \in Bound..(MAX - 1), NEW outs, NEW newSt,
         outs = Handled(op, s, m).outs, newSt = Handled(op, s, m).st
  PROVE  Generated(outs, s, newSt)
<1> USE DEF Generated, EpochsLast
<1>0. s # None => s \in Times /\ s >= s
  BY TimeAssumption DEF Times
<1>1. CASE m = None
  <2>1. outs = <<>> /\ newSt = s
    BY <1>1 DEF Handled, Result
  <2> QED BY <1>0, <2>1
<1>2. CASE m # None /\ IsMarker(m)
  <2>1. outs = <<m>> /\ newSt = s /\ m \in Message
    BY <1>2, MarkerAnswer DEF Handled, Forward
  <2>2. DOMAIN outs = {1} /\ outs[1] = m
    BY <2>1, Singles
  <2>3. m.kind # "Data" /\ m.kind # "Epoch"
    BY <1>2 DEF IsMarker, MarkerKinds
  <2> QED BY <1>0, <2>1, <2>2, <2>3
<1>3. CASE IsKind(m, "Epoch")
  <2>1. m \in Message /\ m.kind = "Epoch" /\ m.ts \in Times
    BY <1>3, MessageKinds DEF IsKind
  <2>2. Handled(op, s, m) = IF s = None \/ s < m.ts THEN Result(<<m>>, m.ts) ELSE Result(<<>>, s)
    BY <1>3, <2>1, EpochAnswer DEF Handled, IsKind, OtherKinds, StType
  <2>3. CASE s = None \/ s < m.ts
    <3>1. outs = <<m>> /\ newSt = m.ts
      BY <2>2, <2>3 DEF Result
    <3>2. DOMAIN outs = {1} /\ outs[1] = m
      BY <2>1, <3>1, Singles
    <3>3. s # None => m.ts >= s
      BY <1>0, <2>1, <2>3, TimeAssumption DEF Times
    <3> QED BY <2>1, <3>1, <3>2, <3>3
  <2>4. CASE ~(s = None \/ s < m.ts)
    <3>1. outs = <<>> /\ newSt = s
      BY <2>2, <2>4 DEF Result
    <3> QED BY <1>0, <3>1
  <2> QED BY <2>3, <2>4
<1>4. CASE IsKind(m, "Data")
  <2> DEFINE d == [m EXCEPT !.late = ~OnTime(s, m)]
             t == m.ts - Bound
  <2>1. m \in Message /\ m.kind = "Data" /\ m.ts \in Times
    BY <1>4, MessageKinds DEF IsKind
  <2>2. /\ t \in Times /\ d \in Message
        /\ Handle(op, s, m) = IF s = None \/ t > s THEN Result(<<d, Epoch(t)>>, t) ELSE Result(<<d>>, s)
    BY <1>4, <2>1, GenerateAnswer
  <2>3. d.kind = "Data" /\ d.ts = m.ts /\ d.late = ~OnTime(s, m)
    BY <2>1, AnswerTypes
  <2>4. ~d.late /\ s # None => m.ts > s
    <3> SUFFICES ASSUME ~d.late, s # None PROVE m.ts > s
      OBVIOUS
    <3>1. OnTime(s, m)
      BY <2>3, Zenon
    <3> QED BY <1>0, <2>1, <3>1, TimeAssumption DEF OnTime, Times
  <2>5. Handled(op, s, m) = Handle(op, s, m)
    BY <1>4 DEF Handled, IsKind
  <2>6. Epoch(t).kind = "Epoch" /\ Epoch(t).ts = t /\ Epoch(t) \in Message
    BY <2>2, AnswerTypes DEF Epoch
  <2>7. d.kind = "Data" /\ d.ts = m.ts /\ d \in Message /\ t \in Times
    BY <2>2, <2>3
  <2> HIDE DEF d, t
  <2>8. CASE s = None \/ t > s
    <3>1. outs = <<d, Epoch(t)>> /\ newSt = t
      BY <2>2, <2>5, <2>8 DEF Result
    <3>2. DOMAIN outs = {1, 2} /\ outs[1] = d /\ outs[2] = Epoch(t)
      BY <2>6, <2>7, <3>1, Pairs
    <3>3. s # None => t >= s
      BY <1>0, <2>7, <2>8, TimeAssumption DEF Times
    <3> QED BY <2>4, <2>6, <2>7, <3>1, <3>2, <3>3
  <2>9. CASE ~(s = None \/ t > s)
    <3>1. outs = <<d>> /\ newSt = s
      BY <2>2, <2>5, <2>9 DEF Result
    <3>2. DOMAIN outs = {1} /\ outs[1] = d
      BY <2>7, <3>1, Singles
    <3> QED BY <1>0, <2>4, <2>7, <3>1, <3>2
  <2> QED BY <2>8, <2>9
<1>5. m = None \/ (m # None /\ IsMarker(m)) \/ IsKind(m, "Epoch") \/ IsKind(m, "Data")
  BY MessageKinds DEF IsKind, IsMarker
<1> QED BY <1>1, <1>2, <1>3, <1>4, <1>5

\* What the operators send that neither stamp nor generate: what they receive,
\* at its time; a split sends one message.
Passed(op, m, outs) ==
  /\ EpochsLast(outs)
  /\ \A i \in DOMAIN outs :
       /\ outs[i].kind = "Data" => IsKind(m, "Data") /\ outs[i].ts = m.ts
       /\ outs[i].kind = "Data" /\ Kind[op] = "split" => outs[i] = m
       /\ outs[i].kind = "Epoch" => IsKind(m, "Epoch") /\ outs[i] = m

LEMMA PassedOn ==
  ASSUME NEW op \in Ops, Kind[op] \in OtherKinds \ {"assign_timestamps", "generate_epochs"},
         NEW s, StType(op, s), stamp \in StampFunctions, NEW m \in Message \cup {None}, NEW outs,
         outs = Handled(op, s, m).outs
  PROVE  Passed(op, m, outs)
<1> USE DEF Passed, EpochsLast
<1>1. CASE m = None
  <2>1. outs = <<>>
    BY <1>1 DEF Handled, Result
  <2> QED BY <2>1
<1>2. CASE m # None /\ IsMarker(m)
  <2>1. outs \in {<<>>, <<m>>} /\ m \in Message
    BY <1>2, MarkerAnswer DEF Handled, Forward, Result
  <2>2. \A i \in DOMAIN outs : i = 1 /\ outs[i] = m
    BY <2>1, Singles
  <2>3. m.kind # "Data" /\ m.kind # "Epoch"
    BY <1>2 DEF IsMarker, MarkerKinds
  <2> QED BY <2>2, <2>3
<1>3. CASE IsKind(m, "Epoch")
  <2>1. m \in Message /\ m.kind = "Epoch"
    BY <1>3 DEF IsKind
  <2>2. outs \in {<<>>, <<m>>}
    BY <1>3, <2>1, EpochAnswer DEF Handled, IsKind
  <2>3. \A i \in DOMAIN outs : i = 1 /\ outs[i] = m
    BY <2>1, <2>2, Singles
  <2> QED BY <1>3, <2>1, <2>3
<1>4. CASE IsKind(m, "Data")
  <2>1. m \in Message /\ m.kind = "Data" /\ outs = Handle(op, s, m).outs
    BY <1>4 DEF IsKind, Handled
  <2>2. \A i \in DOMAIN outs : outs[i].kind = "Data" /\ outs[i].ts = m.ts
    BY <2>1, DataAnswer
  <2>3. Kind[op] = "split" => outs = <<m>>
    BY <2>1, DataAnswer
  <2>4. Kind[op] = "split" => \A i \in DOMAIN outs : outs[i] = m
    BY <2>1, <2>3, Singles
  <2> QED BY <1>4, <2>2, <2>4
<1>5. m = None \/ (m # None /\ IsMarker(m)) \/ IsKind(m, "Epoch") \/ IsKind(m, "Data")
  BY MessageKinds DEF IsKind, IsMarker
<1> QED BY <1>1, <1>2, <1>3, <1>4, <1>5

LEMMA StepValues ==
  ASSUME Types, NEW op \in Ops, NEW T, NEW m \in Message \cup {None}, NEW outs, NEW s, NEW newSt,
         Summary(op, T, m, outs, s, newSt)
  PROVE  /\ \A o \in Ops : st'[o] = IF o = op THEN newSt ELSE st[o]
         /\ \A o \in Ops : o # op => inFrontier'[o] = inFrontier[o]
         /\ inFrontier'[op] = IF IsKind(m, "Epoch") THEN Raise(inFrontier[op], m.ts) ELSE inFrontier[op]
         /\ IsKind(m, "Epoch") => m.ts \in Times
<1>1. st' = [o \in Ops |-> IF o = op THEN newSt ELSE st[o]]
  BY DEF Types, Summary, MovesOperator
<1>2. inFrontier' = [inFrontier EXCEPT ![op] = IF IsKind(m, "Epoch") THEN Raise(@, m.ts) ELSE @]
  BY DEF Summary, MovesOperator
<1>3. /\ \A o \in Ops : o # op => inFrontier'[o] = inFrontier[o]
      /\ inFrontier'[op] = IF IsKind(m, "Epoch") THEN Raise(inFrontier[op], m.ts) ELSE inFrontier[op]
  BY <1>2 DEF Types, TypeOK
<1>4. IsKind(m, "Epoch") => m.ts \in Times
  BY MessageKinds DEF IsKind
<1> QED BY <1>1, <1>3, <1>4

\* What an operator has let through only grows.
LEMMA LatestGrows ==
  ASSUME Types, Stamped, NEW op \in Ops, NEW T, NEW m \in Message \cup {None}, NEW outs, NEW s, NEW newSt,
         Summary(op, T, m, outs, s, newSt), NEW p \in Ops, NEW t \in Times, UpTo(p, t)
  PROVE  UpTo(p, t)'
<1>1. CASE p \in Sources
  BY <1>1 DEF UpTo
<1>2. CASE p \notin Sources /\ p # op
  <2>1. Latest(p)' = Latest(p)
    BY <1>2, StepValues DEF Latest
  <2> QED BY <1>2, <2>1 DEF UpTo
<1>3. CASE p \notin Sources /\ p = op
  <2>1. Latest(op) \in Times /\ t <= Latest(op) /\ Latest(op) # None
    BY <1>3, LatestTypes DEF UpTo
  <2> SUFFICES Latest(op)' \in Times /\ Latest(op)' >= Latest(op)
    <3>1. None \notin Times
      BY TimeAssumption DEF Times
    <3> QED BY <1>3, <2>1, <3>1, TimeOrder DEF UpTo
  <2>2. CASE Kind[op] = "generate_epochs"
    <3>1. Latest(op) = st[op] /\ Latest(op)' = newSt
      BY <2>2, StepValues DEF Latest
    <3>2. newSt = Handled(op, st[op], m).st /\ outs = Handled(op, st[op], m).outs
      BY <1>3 DEF Summary
    <3>3. IsKind(m, "Data") => m.ts \in Bound..(MAX - 1)
      BY <2>2, ReceivesStamped DEF Types, TypeOK, Queues, Summary
    <3>4. Generated(outs, st[op], newSt)
      BY <2>1, <2>2, <3>1, <3>2, <3>3, GenerateInOrder
    <3> QED BY <2>1, <3>1, <3>4 DEF Generated
  <2>3. CASE Kind[op] # "generate_epochs"
    <3>1. /\ Latest(op) = inFrontier[op]
          /\ Latest(op)' = IF IsKind(m, "Epoch") THEN Raise(inFrontier[op], m.ts) ELSE inFrontier[op]
      BY <2>3, StepValues DEF Latest
    <3>2. CASE IsKind(m, "Epoch")
      <4>1. m.ts \in Times
        BY <3>2, StepValues
      <4> QED BY <2>1, <3>1, <3>2, <4>1, RaiseFacts
    <3>3. CASE ~IsKind(m, "Epoch")
      BY <2>1, <3>1, <3>3, TimeAssumption DEF Times
    <3> QED BY <3>2, <3>3
  <2> QED BY <2>2, <2>3
<1> QED BY <1>1, <1>2, <1>3

\* What an operator sends may follow what it has sent.
LEMMA SentInOrder ==
  ASSUME Types, Stamped, EndInv, InOrder, LateStreamApart, NEW op \in Ops,
         NEW T, NEW m \in Message \cup {None}, NEW outs, NEW s, NEW newSt, Summary(op, T, m, outs, s, newSt),
         NEW c \in Ops, Watched(c), NEW e \in Edges, IsInput(e, Inputs[c]), IsOutput(e, op), SentTo(op, e, outs)
  PROVE  /\ Follows(c, outs, KnownEpochs(chan[e], upEpoch[e]))
         /\ \A t \in SentEpochs(outs) : UpTo(op, t)'
<1> DEFINE known == KnownEpochs(chan[e], upEpoch[e])
<1>0. /\ chan[e] \in Seq(Message) /\ upEpoch[e] \in Times \cup {None} /\ Queues /\ stamp \in StampFunctions
      /\ StType(op, st[op])
  BY StTypes DEF Types, TypeOK, Queues
<1>1. known \subseteq Times /\ outs \in Seq(Message)
  BY <1>0, KnownTypes DEF Summary, OutShape
<1>2. \A t \in known : UpTo(op, t)
  BY DEF InOrder, SentBySender
<1>3. \A i \in DOMAIN outs : /\ outs[i].kind \in {"Data", "Epoch"} => outs[i].ts \in Times
                             /\ outs[i] \in Message
  BY <1>1, MessageKinds
<1>4. \A t \in SentEpochs(outs) : \E i \in DOMAIN outs : outs[i].kind = "Epoch" /\ t = outs[i].ts
  BY DEF SentEpochs
<1>5. None \notin Times
  BY TimeAssumption DEF Times
<1>6. CASE op \in Sources
  <2>1. \A i \in DOMAIN outs : outs[i].kind = "Epoch" => outs[i].ts = MAX /\ IsMaxEpoch(outs[i])
    BY <1>6 DEF Summary, OutShape, IsMaxEpoch
  <2>2. \A i, j \in DOMAIN outs : i < j /\ outs[i].kind = "Epoch" => IsMarker(outs[j])
    BY <2>1 DEF Summary, OutShape
  <2>3. ASSUME NEW t \in known, NEW i \in DOMAIN outs
        PROVE  ~Promised(c, outs[i]) /\ outs[i].kind # "Epoch"
    <3>1. t = MAX
      BY <1>2, <1>6 DEF UpTo
    <3>2. Ending(e)
      <4>1. \/ upEpoch[e] # None /\ t = upEpoch[e]
            \/ \E k \in DOMAIN chan[e] : chan[e][k].kind = "Epoch" /\ chan[e][k].ts = t
        BY <1>0, KnownTypes
      <4> QED BY <3>1, <4>1 DEF Ending, IsMaxEpoch
    <3>3. IsMarker(outs[i])
      BY <1>0, <3>2, EndedSendsMarkers DEF EndInv
    <3> QED BY <3>3 DEF IsMarker, MarkerKinds, Promised
  <2>4. \A t \in SentEpochs(outs) : UpTo(op, t)'
    BY <1>4, <1>6, <2>1 DEF UpTo
  <2> HIDE DEF known
  <2>5. Follows(c, outs, known)
    BY <2>2, <2>3 DEF Follows
  <2> QED BY <2>4, <2>5 DEF known
<1>7. CASE op \notin Sources
  <2>1. /\ Kind[op] \in OtherKinds /\ outs = Handled(op, st[op], m).outs /\ newSt = Handled(op, st[op], m).st
        /\ Reception(op, T, m, upEpoch') /\ upEpoch' \in [Edges -> Times \cup {None}]
    BY <1>7 DEF Summary
  <2>2. Latest(op) \in Times \cup {None} /\ \A t \in known : Latest(op) # None /\ t <= Latest(op)
    BY <1>2, <1>7, LatestTypes DEF UpTo
  <2> HIDE DEF known
  \* It is enough to compare with the last epoch.
  <2>3. ASSUME \A i, j \in DOMAIN outs : i < j /\ outs[i].kind = "Epoch" => IsMarker(outs[j]),
               \A i \in DOMAIN outs : Latest(op) # None =>
                  /\ Promised(c, outs[i]) => outs[i].ts > Latest(op)
                  /\ outs[i].kind = "Epoch" => outs[i].ts >= Latest(op)
        PROVE  Follows(c, outs, known)
    <3>1. ASSUME NEW t \in known, NEW i \in DOMAIN outs
          PROVE  /\ Promised(c, outs[i]) => outs[i].ts > t
                 /\ outs[i].kind = "Epoch" => outs[i].ts >= t
      <4>1. t \in Times /\ Latest(op) \in Times /\ t <= Latest(op) /\ Latest(op) # None
        BY <1>1, <2>2, <3>1
      <4>2. Promised(c, outs[i]) => outs[i].ts \in Times /\ outs[i].ts > Latest(op)
        BY <1>3, <2>3, <4>1 DEF Promised
      <4>3. outs[i].kind = "Epoch" => outs[i].ts \in Times /\ outs[i].ts >= Latest(op)
        BY <1>3, <2>3, <4>1
      <4> QED BY <4>1, <4>2, <4>3, TimeOrder
    <3> QED BY <2>3, <3>1 DEF Follows
  <2>4. CASE Kind[op] = "generate_epochs"
    <3>1. Latest(op) = st[op] /\ Latest(op)' = newSt /\ st[op] \in Times \cup {None} /\ Kind[c] = "split"
      <4>1. Latest(op) = st[op] /\ Latest(op)' = newSt
        BY <2>4, StepValues DEF Latest
      <4>2. Kind[c] = "split"
        BY <2>4, SenderKinds DEF Sources
      <4> QED BY <2>2, <4>1, <4>2
    <3>2. IsKind(m, "Data") => m.ts \in Bound..(MAX - 1)
      BY <1>0, <2>1, <2>4, ReceivesStamped
    <3>3. Generated(outs, st[op], newSt)
      BY <2>1, <2>4, <3>1, <3>2, GenerateInOrder
    <3>4. Follows(c, outs, known)
      BY <2>3, <3>1, <3>3 DEF Promised, Generated, EpochsLast
    <3>5. ASSUME NEW t \in SentEpochs(outs) PROVE UpTo(op, t)'
      <4>1. t = newSt /\ newSt \in Times
        BY <1>4, <3>3, <3>5 DEF Generated
      <4>2. t <= newSt
        BY <4>1, TimeAssumption DEF Times
      <4> QED BY <1>5, <1>7, <3>1, <4>1, <4>2 DEF UpTo
    <3> QED BY <3>4, <3>5 DEF known
  <2>5. CASE Kind[op] # "generate_epochs"
    <3>1. /\ Latest(op) = inFrontier[op]
          /\ Latest(op)' = IF IsKind(m, "Epoch") THEN Raise(inFrontier[op], m.ts) ELSE inFrontier[op]
      BY <2>5, StepValues DEF Latest
    <3>2. /\ Kind[c] # "split" /\ Kind[op] # "assign_timestamps" /\ Watched(op)
          /\ Kind[op] = "split" => \A i \in DOMAIN Outputs[op] : Outputs[op][i] = e => i # 2
      BY <1>7, <2>5, SenderKinds DEF Watched
    <3>3. Passed(op, m, outs)
      BY <1>0, <2>1, <2>5, <3>2, PassedOn
    <3>4. ASSUME NEW i \in DOMAIN outs, outs[i].kind = "Data" PROVE Promised(op, m)
      <4>1. IsKind(m, "Data")
        BY <3>3, <3>4 DEF Passed
      <4>2. ASSUME Kind[op] = "split" PROVE ~m.late
        <5>1. PICK k \in Flags(op, outs) : Outputs[op][k] = e
          BY DEF SentTo
        <5>2. k \in DOMAIN Outputs[op] /\ k # 2
          BY <3>2, <4>2, <5>1 DEF Flags
        <5>3. op # 0
          BY GraphTypes
        <5>4. (k = 2) = outs[i].late
          BY <3>4, <4>2, <5>1, <5>3 DEF Flags
        <5> QED BY <3>3, <3>4, <4>2, <5>2, <5>4 DEF Passed
      <4> QED BY <4>1, <4>2 DEF Promised, IsKind
    <3>5. inFrontier[op] # None =>
            /\ IsKind(m, "Epoch") => m.ts >= inFrontier[op]
            /\ IsKind(m, "Data") /\ Promised(op, m) => m.ts > inFrontier[op]
      BY <2>1, <3>2, ReceivedInOrder
    <3>6. \A i \in DOMAIN outs : Latest(op) # None =>
             /\ Promised(c, outs[i]) => outs[i].ts > Latest(op)
             /\ outs[i].kind = "Epoch" => outs[i].ts >= Latest(op)
      <4> SUFFICES ASSUME NEW i \in DOMAIN outs, Latest(op) # None
                   PROVE  /\ Promised(c, outs[i]) => outs[i].ts > Latest(op)
                          /\ outs[i].kind = "Epoch" => outs[i].ts >= Latest(op)
        OBVIOUS
      <4>1. Promised(c, outs[i]) => outs[i].kind = "Data"
        BY DEF Promised
      <4> QED BY <3>1, <3>3, <3>4, <3>5, <4>1 DEF Passed
    <3>7. Follows(c, outs, known)
      BY <2>3, <3>3, <3>6 DEF Passed, EpochsLast
    <3>8. ASSUME NEW t \in SentEpochs(outs) PROVE UpTo(op, t)'
      <4>1. IsKind(m, "Epoch") /\ t = m.ts
        BY <1>4, <3>3, <3>8 DEF Passed
      <4>2. t \in Times
        BY <4>1, StepValues
      <4>3. Latest(op)' \in Times /\ Latest(op)' >= t
        BY <2>2, <3>1, <4>1, <4>2, RaiseFacts
      <4> QED BY <1>5, <1>7, <4>2, <4>3, TimeOrder DEF UpTo
    <3> QED BY <3>7, <3>8 DEF known
  <2> QED BY <2>4, <2>5
<1> QED BY <1>6, <1>7

LEMMA StepInOrder ==
  ASSUME Types, Stamped, EndInv, InOrder, LateStreamApart, NEW op \in Ops,
         NEW T, NEW m \in Message \cup {None}, NEW outs, NEW s, NEW newSt, Summary(op, T, m, outs, s, newSt)
  PROVE  InOrder'
<1>1. Queues /\ outs \in Seq(Message)
  BY DEF Types, TypeOK, Queues, Summary, OutShape
<1>2. /\ Reception(op, T, m, upEpoch') /\ MovesMessages(op, T, outs)
      /\ upEpoch' \in [Edges -> Times \cup {None}]
  BY DEF Summary
<1>3. ASSUME NEW c \in Ops, Watched(c), NEW e \in Edges, IsInput(e, Inputs[c])
      PROVE  /\ Ordered(c, chan'[e], upEpoch'[e])
             /\ MergedSoFar(c, e)'
             /\ \A p \in Ops : IsOutput(e, p) => SentBySender(p, e)'
  <2>1. /\ Takes(op, T, e) \/ Appends(op, T, outs, e) \/ Leaves(op, T, outs, e)
        /\ chan[e] \in Seq(Message) /\ chan'[e] \in Seq(Message)
        /\ upEpoch[e] \in Times \cup {None} /\ upEpoch'[e] \in Times \cup {None}
    BY <1>1, <1>2, EdgeStep DEF Queues
  <2>2. \/ upEpoch'[e] = upEpoch[e]
        \/ T = {e} /\ 1 \in DOMAIN chan[e] /\ chan[e][1].kind = "Epoch" /\ upEpoch'[e] = chan[e][1].ts
    BY <1>1, <1>2, EpochsKnown
  <2>3. Ordered(c, chan[e], upEpoch[e]) /\ MergedSoFar(c, e)
    BY <1>3 DEF InOrder
  <2>4. \A p \in Ops : IsOutput(e, p) => \A t \in KnownEpochs(chan[e], upEpoch[e]) : UpTo(p, t)
    BY <1>3 DEF InOrder, SentBySender
  <2>5. /\ KnownEpochs(chan[e], upEpoch[e]) \subseteq Times
        /\ \A p \in Ops : \A t \in Times : UpTo(p, t) => UpTo(p, t)'
    BY <2>1, KnownTypes, LatestGrows
  <2>6. ASSUME KnownEpochs(chan'[e], upEpoch'[e]) \subseteq KnownEpochs(chan[e], upEpoch[e])
        PROVE  \A p \in Ops : IsOutput(e, p) => SentBySender(p, e)'
    <3>1. \A p \in Ops : IsOutput(e, p) => \A t \in KnownEpochs(chan'[e], upEpoch'[e]) : UpTo(p, t)'
      BY <2>4, <2>5, <2>6
    <3> QED BY <3>1 DEF SentBySender, KnownEpochs, SentEpochs
  <2>7. MergedSoFar(c, e)'
    <3> SUFFICES ASSUME inFrontier'[c] # None
                 PROVE  upEpoch'[e] # None /\ inFrontier'[c] <= upEpoch'[e]
      BY DEF MergedSoFar
    <3>0. None \notin Times
      BY TimeAssumption DEF Times
    <3>1. CASE c # op
      <4>1. inFrontier'[c] = inFrontier[c]
        BY <3>1, StepValues
      <4>2. e \notin T
        BY <1>2, <1>3, <3>1, EdgeEnds DEF Reception
      <4>3. upEpoch'[e] = upEpoch[e]
        BY <2>2, <4>2
      <4> QED BY <2>3, <4>1, <4>3 DEF MergedSoFar
    <3>2. CASE c = op /\ IsKind(m, "Epoch")
      <4>1. upEpoch'[e] \in Times /\ m.ts <= upEpoch'[e] /\ m.ts \in Times
        BY <1>1, <1>2, <1>3, <3>2, EpochReceived
      <4>2. inFrontier'[op] = Raise(inFrontier[op], m.ts) /\ inFrontier[op] \in Times \cup {None}
        BY <3>2, StepValues DEF Types, TypeOK
      <4>3. inFrontier'[op] \in Times /\ inFrontier'[op] \in {inFrontier[op], m.ts}
        BY <4>1, <4>2, RaiseFacts
      <4>4. inFrontier[op] # None => inFrontier[op] <= upEpoch'[e]
        BY <1>2, <1>3, <3>2, ReceivedInOrder
      <4> QED BY <3>0, <3>2, <4>1, <4>3, <4>4
    <3>3. CASE c = op /\ ~IsKind(m, "Epoch")
      <4>1. inFrontier'[op] = inFrontier[op] /\ inFrontier[op] # None
        BY <3>3, StepValues
      <4>2. upEpoch'[e] \in Times /\ inFrontier[op] <= upEpoch'[e]
        BY <1>2, <1>3, <3>3, <4>1, ReceivedInOrder
      <4> QED BY <3>0, <3>3, <4>1, <4>2
    <3> QED BY <3>1, <3>2, <3>3
  <2>8. CASE Takes(op, T, e)
    <3>1. Shifted(chan[e], chan'[e]) /\ 1 \in DOMAIN chan[e]
      BY <2>1, <2>8 DEF Takes
    <3>2. /\ Ordered(c, chan'[e], upEpoch'[e])
          /\ KnownEpochs(chan'[e], upEpoch'[e]) \subseteq KnownEpochs(chan[e], upEpoch[e])
      <4>1. EpochAfter(chan[e], upEpoch[e], upEpoch'[e])
        BY <2>2 DEF EpochAfter
      <4> QED BY <2>1, <2>3, <3>1, <4>1, OrderTaken
    <3> QED BY <2>6, <2>7, <3>2
  <2>9. CASE Leaves(op, T, outs, e)
    <3>1. chan'[e] = chan[e] /\ upEpoch'[e] = upEpoch[e]
      BY <2>2, <2>9 DEF Leaves
    <3> QED BY <2>3, <2>6, <2>7, <3>1
  <2>10. CASE Appends(op, T, outs, e)
    <3>1. upEpoch'[e] = upEpoch[e] /\ IsOutput(e, op) /\ SentTo(op, e, outs) /\ Extended(chan[e], outs, chan'[e])
      BY <2>2, <2>10 DEF Appends
    <3>2. /\ Follows(c, outs, KnownEpochs(chan[e], upEpoch[e]))
          /\ \A t \in SentEpochs(outs) : UpTo(op, t)'
      BY <1>3, <3>1, SentInOrder
    <3>3. /\ Ordered(c, chan'[e], upEpoch[e])
          /\ KnownEpochs(chan'[e], upEpoch[e]) \subseteq KnownEpochs(chan[e], upEpoch[e]) \cup SentEpochs(outs)
      BY <1>1, <2>1, <2>3, <3>1, <3>2, OrderSent
    <3>4. \A t \in KnownEpochs(chan'[e], upEpoch'[e]) : UpTo(op, t)'
      BY <2>4, <2>5, <3>1, <3>2, <3>3
    <3>5. SentBySender(op, e)'
      BY <3>4 DEF SentBySender, KnownEpochs, SentEpochs
    <3>6. \A p \in Ops : IsOutput(e, p) => p = op
      BY <3>1, EdgeEnds, GraphTypes
    <3> QED BY <2>7, <3>1, <3>3, <3>5, <3>6
  <2> QED BY <2>1, <2>8, <2>9, <2>10
<1> QED BY <1>3 DEF InOrder, Ordered

\* An epoch removes what has expired, and what comes after it is newer.
LEMMA StepExpires ==
  ASSUME Types, InOrder, NoExpiredState, TtlOnTime, NEW op \in Ops,
         NEW T, NEW m \in Message \cup {None}, NEW outs, NEW s, NEW newSt, Summary(op, T, m, outs, s, newSt)
  PROVE  NoExpiredState'
<1> SUFFICES ASSUME NEW o \in Ops, Kind[o] = "ttl_map", inFrontier'[o] # None, NEW x \in st'[o]
             PROVE  x.ts > inFrontier'[o]
  BY DEF NoExpiredState
<1>1. CASE o # op
  <2>1. st'[o] = st[o] /\ inFrontier'[o] = inFrontier[o]
    BY <1>1, StepValues
  <2> QED BY <2>1 DEF NoExpiredState
<1>2. CASE o = op
  <2>1. op \notin Sources /\ Kind[op] \in OtherKinds \ {"generate_epochs"} /\ StType(op, st[op]) /\ stamp \in StampFunctions
    BY <1>2, StTypes DEF Sources, OtherKinds, Types, TypeOK
  <2>2. st'[op] = Handled(op, st[op], m).st
    BY <2>1, StepValues DEF Summary
  <2>3. Watched(op) /\ Kind[op] # "split"
    BY <1>2 DEF TtlOnTime, Watched
  <2>4. st[op] \subseteq [id : Records, ts : Times]
    BY <1>2, <2>1 DEF StType
  <2>5. \A y \in st[op] : inFrontier[op] # None => y.ts > inFrontier[op]
    BY <1>2 DEF NoExpiredState
  <2>6. CASE m = None
    <3>1. st'[op] = st[op] /\ inFrontier'[op] = inFrontier[op]
      BY <2>2, <2>6, StepValues DEF Handled, Result, IsKind
    <3> QED BY <1>2, <2>5, <3>1
  <2>7. CASE m # None /\ IsMarker(m)
    <3>1. st'[op] = st[op]
      BY <1>2, <2>2, <2>7, MarkerAnswer DEF Handled, Forward
    <3>2. inFrontier'[op] = inFrontier[op]
      BY <2>7, StepValues DEF IsKind, IsMarker, MarkerKinds
    <3> QED BY <1>2, <2>5, <3>1, <3>2
  <2>8. CASE IsKind(m, "Epoch")
    <3>1. m \in Message /\ m.kind = "Epoch" /\ m.ts \in Times
      BY <2>8, StepValues DEF IsKind
    <3>2. st'[op] = {y \in st[op] : y.ts > m.ts}
      <4>1. Handle(op, st[op], m) = Result(<<m>>, {y \in st[op] : y.ts > m.ts})
        BY <1>2, <3>1 DEF Handle, OnStateful, OnTtlMap
      <4>2. Handled(op, st[op], m) = Handle(op, st[op], m)
        BY <2>8 DEF Handled, IsKind
      <4> QED BY <2>2, <4>1, <4>2 DEF Result
    <3>3. inFrontier'[op] = Raise(inFrontier[op], m.ts) /\ inFrontier[op] \in Times \cup {None}
      BY <2>8, StepValues DEF Types, TypeOK
    <3>4. inFrontier'[op] \in {inFrontier[op], m.ts}
      BY <3>1, <3>3, RaiseFacts
    <3> QED BY <1>2, <2>5, <3>2, <3>4
  <2>9. CASE IsKind(m, "Data")
    <3>1. m \in Message /\ m.kind = "Data"
      BY <2>9 DEF IsKind
    <3>2. st'[op] = st[op] \cup {[id |-> m.id, ts |-> m.ts]}
      BY <1>2, <2>1, <2>2, <2>9, <3>1, DataAnswer DEF Handled, IsKind
    <3>3. inFrontier'[op] = inFrontier[op]
      BY <2>9, <3>1, StepValues DEF IsKind
    <3>4. m.ts > inFrontier[op]
      BY <1>2, <2>3, <2>9, <3>1, <3>3, ReceivedInOrder DEF Summary, Promised
    <3>5. x \in st[op] \/ x.ts = m.ts
      BY <1>2, <3>2
    <3> QED BY <1>2, <2>5, <3>3, <3>4, <3>5
  <2>10. m = None \/ (m # None /\ IsMarker(m)) \/ IsKind(m, "Epoch") \/ IsKind(m, "Data")
    BY MessageKinds DEF IsKind, IsMarker
  <2> QED BY <2>6, <2>7, <2>8, <2>9, <2>10
<1> QED BY <1>1, <1>2

----------------------------------------------------------------------------
(* Epochs and data: the other actions.                                     *)

LEMMA SameQueues ==
  ASSUME InOrder, UNCHANGED <<chan, upEpoch, inFrontier, st>>
  PROVE  InOrder'
  BY DEF InOrder, Ordered, MergedSoFar, SentBySender, KnownEpochs, SentEpochs, UpTo, Latest

LEMMA SameEntries ==
  ASSUME NoExpiredState, UNCHANGED <<inFrontier, st>>
  PROVE  NoExpiredState'
  BY DEF NoExpiredState

LEMMA BuiltInOrder == Built => InOrder /\ NoExpiredState
<1> SUFFICES ASSUME Built PROVE InOrder /\ NoExpiredState
  OBVIOUS
<1>1. \A e \in Edges : chan[e] = <<>> /\ DOMAIN chan[e] = {} /\ upEpoch[e] = None
  BY DEF Built, Unbounded
<1>2. \A op \in Ops : inFrontier[op] = None
  BY DEF Built
<1>3. \A e \in Edges : KnownEpochs(chan[e], upEpoch[e]) = {}
  BY <1>1 DEF KnownEpochs, SentEpochs
<1>4. \A c : \A e \in Edges : Ordered(c, chan[e], upEpoch[e])
  BY <1>1 DEF Ordered
<1>5. InOrder
  BY <1>2, <1>3, <1>4 DEF InOrder, MergedSoFar, SentBySender
<1>6. NoExpiredState
  BY <1>2 DEF NoExpiredState
<1> QED BY <1>5, <1>6

LEMMA BuiltInOrderNext == Built' => InOrder' /\ NoExpiredState'
  BY BuiltInOrder, PTL

\* A marker is neither data nor an epoch.
LEMMA MarkerInOrder ==
  ASSUME Types, InOrder, NEW what \in DOMAIN Markers, SendMarker(what)
  PROVE  InOrder'
<1> DEFINE x == <<Marker(Markers[what])>>
<1>1. UNCHANGED <<upEpoch, inFrontier, st>> /\ chan' = Send(chan, Outputs[0], x, Flags(0, x))
  BY DEF SendMarker
<1>2. chan \in [Edges -> Seq(Message)] /\ upEpoch \in [Edges -> Times \cup {None}]
  BY DEF Types, TypeOK
<1>3. Marker(Markers[what]) \in Message /\ IsMarker(Marker(Markers[what]))
  BY DEF Markers, Marker, Message, IsMarker, MarkerKinds
<1>4. x \in Seq(Message) /\ \A i \in DOMAIN x : IsMarker(x[i])
  BY <1>3, Singles
<1> HIDE DEF x
<1>5. (\A c : \A known : Follows(c, x, known)) /\ SentEpochs(x) = {}
  BY <1>4 DEF Follows, IsMarker, MarkerKinds, Promised, SentEpochs
<1>6. ASSUME NEW c \in Ops, Watched(c), NEW e \in Edges, IsInput(e, Inputs[c])
      PROVE  /\ Ordered(c, chan'[e], upEpoch[e])
             /\ KnownEpochs(chan'[e], upEpoch[e]) \subseteq KnownEpochs(chan[e], upEpoch[e])
  <2>1. chan'[e] = chan[e] \/ chan'[e] = chan[e] \o x
    BY <1>1, <1>2 DEF Send
  <2>2. Ordered(c, chan[e], upEpoch[e]) /\ chan[e] \in Seq(Message) /\ upEpoch[e] \in Times \cup {None}
    BY <1>2, <1>6 DEF InOrder
  <2>3. CASE chan'[e] = chan[e]
    BY <2>2, <2>3
  <2>4. CASE chan'[e] = chan[e] \o x
    <3>1. Extended(chan[e], x, chan'[e]) /\ chan'[e] \in Seq(Message)
      BY <1>4, <2>2, <2>4, ExtendedConcat
    <3>2. Follows(c, x, KnownEpochs(chan[e], upEpoch[e]))
      BY <1>5
    <3>3. /\ Ordered(c, chan'[e], upEpoch[e])
          /\ KnownEpochs(chan'[e], upEpoch[e]) \subseteq KnownEpochs(chan[e], upEpoch[e]) \cup SentEpochs(x)
      BY <1>4, <2>2, <3>1, <3>2, OrderSent
    <3> QED BY <1>5, <3>3
  <2> QED BY <2>1, <2>3, <2>4
<1>7. ASSUME NEW c \in Ops, Watched(c), NEW e \in Edges, IsInput(e, Inputs[c])
      PROVE  /\ MergedSoFar(c, e)'
             /\ \A p \in Ops : IsOutput(e, p) => SentBySender(p, e)'
  <2>1. MergedSoFar(c, e)'
    BY <1>1, <1>7 DEF InOrder, MergedSoFar
  <2>2. ASSUME NEW p \in Ops, IsOutput(e, p), NEW t \in KnownEpochs(chan'[e], upEpoch[e]) PROVE UpTo(p, t)'
    <3>1. UpTo(p, t)
      BY <1>6, <1>7, <2>2 DEF InOrder, SentBySender
    <3> QED BY <1>1, <3>1 DEF UpTo, Latest
  <2> QED BY <1>1, <2>1, <2>2 DEF SentBySender, KnownEpochs, SentEpochs
<1> QED BY <1>1, <1>6, <1>7 DEF InOrder, Ordered

LEMMA OperatorInOrder ==
  ASSUME IInv, InOrder, LateStreamApart, NEW op \in Ops, OperatorStep(op)
  PROVE  InOrder' /\ (TtlOnTime /\ NoExpiredState => NoExpiredState')
<1>1. TypeOK /\ Stamped /\ RootCarriesMarkers /\ SourcesEnd /\ Types /\ EndInv
  BY DEF IInv, EndInv, Types
<1>2. PICK T \in SUBSET Edges, m \in Message \cup {None} :
        \E outs, s, newSt : Summary(op, T, m, outs, s, newSt)
  BY <1>1, StepSummary
<1>3. PICK outs, s, newSt : Summary(op, T, m, outs, s, newSt)
  BY <1>2
<1>4. InOrder'
  BY <1>1, <1>3, StepInOrder
<1>5. TtlOnTime /\ NoExpiredState => NoExpiredState'
  BY <1>1, <1>3, StepExpires
<1> QED BY <1>4, <1>5

LEMMA NextInOrder ==
  ASSUME LateStreamApart, IInv, InOrder, [Next]_vars
  PROVE  InOrder' /\ (TtlOnTime /\ NoExpiredState => NoExpiredState')
<1>1. CASE \E op \in Ops : OperatorStep(op)
  BY <1>1, OperatorInOrder
<1>2. CASE \E what \in DOMAIN Markers : SendMarker(what)
  <2>1. PICK what \in DOMAIN Markers : SendMarker(what)
    BY <1>2
  <2>2. InOrder'
    BY <2>1, MarkerInOrder DEF IInv
  <2>3. UNCHANGED <<inFrontier, st>>
    BY <2>1 DEF SendMarker
  <2> QED BY <2>2, <2>3, SameEntries
<1>3. CASE Restart
  BY <1>3, RestartBuilt, BuiltInOrderNext
<1>4. CASE \/ \E op \in Ops : SkipSuspended(op)
           \/ ContinueExecution \/ AwaitMarker \/ MarkerDone \/ CompleteExecution
           \/ CommitSnapshot \/ UNCHANGED vars
  <2>1. UNCHANGED <<chan, upEpoch, inFrontier, st>>
    BY <1>4 DEF SkipSuspended, ContinueExecution, AwaitMarker, MarkerDone, CompleteExecution, CommitSnapshot,
                vars, ioVars
  <2> QED BY <2>1, SameQueues, SameEntries
<1> QED BY <1>1, <1>2, <1>3, <1>4, NextCases

\* No epoch is a lie: in a job that keeps its late stream apart, whatever its
\* graph, its records and their timestamps, what waits at an operator is newer
\* than the epoch its input has reached, through unions, splits, crashes and
\* restarts (types/message.rs:48, generate_epochs.rs:60, operator_io.rs:128).
THEOREM EpochsHold ==
  ASSUME LateStreamApart
  PROVE  Spec => []NoDataBehindFrontier
<1>1. Init => IInv /\ InOrder
  BY InitKeeps, InitBuilt, BuiltInOrder
<1>2. (IInv /\ InOrder) /\ [Next]_vars => (IInv /\ InOrder)'
  BY NextKeeps, NextInOrder
<1>3. IInv /\ InOrder => NoDataBehindFrontier
  <2> SUFFICES ASSUME IInv, InOrder, NEW op \in Ops, inFrontier[op] # None, OnTimeOp(op),
                      NEW i \in DOMAIN Inputs[op], NEW j \in DOMAIN chan[Inputs[op][i]],
                      chan[Inputs[op][i]][j].kind = "Data"
               PROVE  chan[Inputs[op][i]][j].ts > inFrontier[op]
    BY DEF NoDataBehindFrontier
  <2> DEFINE e == Inputs[op][i]
  <2>1. e \in Edges /\ IsInput(e, Inputs[op])
    BY GraphTypes DEF IsInput
  <2> HIDE DEF e
  <2>2. Watched(op) /\ Kind[op] # "split"
    <3>1. op <= op
      BY GraphTypes
    <3> QED BY <3>1 DEF Watched, OnTimeOp, BeforeSplit
  <2>3. /\ Ordered(op, chan[e], upEpoch[e]) /\ upEpoch[e] # None /\ inFrontier[op] <= upEpoch[e]
    BY <2>1, <2>2 DEF InOrder, MergedSoFar
  <2>4. j \in DOMAIN chan[e] /\ Promised(op, chan[e][j])
    BY <2>2 DEF e, Promised
  <2>5. chan[e][j].ts > upEpoch[e]
    BY <2>3, <2>4 DEF Ordered
  <2>6. upEpoch[e] \in Times /\ inFrontier[op] \in Times /\ chan[e] \in Seq(Message)
    BY <2>1, <2>3 DEF IInv, Types, TypeOK
  <2>7. chan[e][j].ts \in Times
    BY <2>4, <2>6, MessageKinds DEF Promised
  <2>8. chan[e][j].ts > inFrontier[op]
    BY <2>3, <2>5, <2>6, <2>7, TimeOrder
  <2> QED BY <2>8 DEF e
<1> QED BY <1>1, <1>2, <1>3, PTL DEF Spec

\* And no ttl_map that is fed with on-time data keeps an entry whose time has
\* passed, after a restart from any snapshot as well (ttl_map.rs:20).
THEOREM StateExpires ==
  ASSUME LateStreamApart, TtlOnTime
  PROVE  Spec => []NoExpiredState
<1>1. Init => IInv /\ InOrder /\ NoExpiredState
  BY InitKeeps, InitBuilt, BuiltInOrder
<1>2. (IInv /\ InOrder /\ NoExpiredState) /\ [Next]_vars => (IInv /\ InOrder /\ NoExpiredState)'
  BY NextKeeps, NextInOrder
<1> QED BY <1>1, <1>2, PTL DEF Spec
=============================================================================
