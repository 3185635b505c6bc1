----------------------------- MODULE OperatorIo -----------------------------
(***************************************************************************)
(* The edges of a worker's stream graph (channels/operator_io.rs and       *)
(* channels/spsc.rs): what Output::send puts into the channels of an       *)
(* operator and what Input::recv takes out of them.                        *)
(*                                                                         *)
(* An edge is one spsc channel.  A graph is a record of two functions:     *)
(* inputs[op] and outputs[op] are the edges of the receivers and of the    *)
(* senders of an operator, in the order in which they were linked.  A      *)
(* sender whose Input was dropped has no edge: what is sent to it is lost. *)
(***************************************************************************)
EXTENDS Integers, Sequences, FiniteSets

CONSTANTS
  MAX,       \* the last timestamp (Timestamp::MAX)
  None       \* Option::None of a timestamp or of a message

ASSUME TimeAssumption == MAX \in Nat /\ None \notin Nat

Times == 0..MAX

\* Channels that have just been created: unbounded queues, nothing in them.
Unbounded(edges) == [e \in edges |-> <<>>]

\* Mutant: a barrier does not wait for the other upstreams.
NeedsAlignmentSuspendOnly(m) == m.kind = "SuspendMarker"

\* What an input takes only when all its upstreams show it; anything else is
\* taken from one upstream without looking at the rest.
NeedsAlignment(m) == m.kind \in {"AbsBarrier", "SuspendMarker"}

CanRecvUnaligned(q) == q # <<>> /\ ~NeedsAlignment(Head(q))

\* Input::can_progress.
CanProgress(chan, edges) == \E i \in DOMAIN edges : CanRecvUnaligned(chan[edges[i]])

\* The epoch of an input with several upstreams is the smallest of theirs
\* (Timestamp::merge); it is unknown while one of them has not sent any.
\* Mutant: the largest epoch.
MergeLargest(epochs) ==
  IF epochs = {None} THEN None
  ELSE CHOOSE t \in epochs \ {None} : \A u \in epochs \ {None} : t >= u

MergeTimestamps(epochs) ==
  IF None \in epochs THEN None
  ELSE CHOOSE t \in epochs : \A u \in epochs : t <= u

\* Raise a frontier: it is the largest epoch sent (Output) or merged (Input).
Raise(frontier, t) ==
  IF t # None /\ (frontier = None \/ frontier < t) THEN t ELSE frontier

----------------------------------------------------------------------------
\* Every upstream of the input shows a message of this kind.
AllUpcoming(chan, edges, kind) ==
  /\ edges # <<>>
  /\ \A i \in DOMAIN edges : chan[edges[i]] # <<>> /\ Head(chan[edges[i]]).kind = kind

\* Mutant: only barriers are aligned, suspend markers stay where they are.
AlignedBarriersOnly(chan, edges) == AllUpcoming(chan, edges, "AbsBarrier")

Aligned(chan, edges) ==
  AllUpcoming(chan, edges, "AbsBarrier") \/ AllUpcoming(chan, edges, "SuspendMarker")

\* The unreachable!() of recv: every upstream waits for alignment, and some show
\* a barrier, the others a suspend marker.
MixedAlignment(chan, edges) ==
  /\ edges # <<>>
  /\ \A i \in DOMAIN edges : chan[edges[i]] # <<>> /\ NeedsAlignment(Head(chan[edges[i]]))
  /\ ~AllUpcoming(chan, edges, "AbsBarrier")
  /\ ~AllUpcoming(chan, edges, "SuspendMarker")

\* The first upstream that offers a message (the search is left biased).
FirstReady(chan, edges) ==
  CHOOSE i \in DOMAIN edges :
     /\ CanRecvUnaligned(chan[edges[i]])
     /\ \A j \in 1..(i - 1) : ~CanRecvUnaligned(chan[edges[j]])

IsInput(e, edges) == \E i \in DOMAIN edges : edges[i] = e

\* Input::recv: the message it returns (None if there is none), the channels
\* and the epochs of the upstreams after it.
Recv(chan, epochs, edges) ==
  IF CanProgress(chan, edges)
  THEN LET e == edges[FirstReady(chan, edges)]
           m == Head(chan[e])
           known == IF m.kind = "Epoch" THEN [epochs EXCEPT ![e] = m.ts] ELSE epochs
           merged == MergeTimestamps({known[edges[j]] : j \in DOMAIN edges})
       IN  [msg    |-> IF m.kind # "Epoch" THEN m
                       ELSE IF merged = None THEN None ELSE [kind |-> "Epoch", ts |-> merged],
            chan   |-> [chan EXCEPT ![e] = Tail(@)],
            epochs |-> known]
  ELSE IF Aligned(chan, edges)
  THEN [msg    |-> Head(chan[edges[Len(edges)]]),
        chan   |-> [e \in DOMAIN chan |-> IF IsInput(e, edges) THEN Tail(chan[e]) ELSE chan[e]],
        epochs |-> epochs]
  ELSE [msg |-> None, chan |-> chan, epochs |-> epochs]

\* Output::send for every message of msgs, in order; to holds the indices of
\* the senders for which the partitioner sets its flag.
Send(chan, edges, msgs, to) ==
  [e \in DOMAIN chan |-> IF \E i \in to : edges[i] = e THEN chan[e] \o msgs ELSE chan[e]]

\* Rc::strong_count of a marker that the worker has sent: copies still queued.
InFlight(chan, kind) == \E e \in DOMAIN chan : \E i \in DOMAIN chan[e] : chan[e][i].kind = kind
=============================================================================
