--------------------------- MODULE CountingProofs ---------------------------
(***************************************************************************)
(* Proofs about Dataflow: every record counts once, for every graph in     *)
(* which it has one way to the fold, any records and any bounds, and the   *)
(* worker implements ExactlyOnce.                                          *)
(*                                                                         *)
(* A record is in one place.  That holds of the worker as it runs, and it  *)
(* has to hold of what a snapshot puts together: the operators that the    *)
(* barrier has passed as they were then, the others as they are now, and   *)
(* of the messages the ones that are still before the barrier.  Both are   *)
(* views of the same kind (Cutting), the first with nobody passed.         *)
(***************************************************************************)
EXTENDS DataflowProofs, FiniteSetTheorems

----------------------------------------------------------------------------
(* The operators before the fold.                                          *)

\* What is before the fold: in every set with the fold that leaves out nobody
\* who feeds one of its members.
ClosedUpstream(X) == Fold \in X /\ \A p, c \in Ops : p < c /\ Feeds(p, c) /\ c \in X => p \in X
ReachesFold(op) == \A X \in SUBSET Ops : ClosedUpstream(X) => op \in X

LEMMA FoldIsMap ==
  ASSUME OnePathToFold
  PROVE  Fold \in Ops /\ Kind[Fold] = "stateful_map"
  BY DEF OnePathToFold, Fold

LEMMA ReachesFoldStep ==
  ASSUME Fold \in Ops, NEW op \in Ops
  PROVE  ReachesFold(op) <=> op = Fold \/ \E c \in Ops : c > op /\ Feeds(op, c) /\ ReachesFold(c)
<1>0. \A a, b \in Ops : a > b <=> b < a
  BY GraphTypes
<1>1. ReachesFold(Fold)
  BY DEF ReachesFold, ClosedUpstream
<1>2. \A p, c \in Ops : p < c /\ Feeds(p, c) /\ ReachesFold(c) => ReachesFold(p)
  BY DEF ReachesFold, ClosedUpstream
<1>3. ASSUME ReachesFold(op), op # Fold, \A c \in Ops : op < c /\ Feeds(op, c) => ~ReachesFold(c)
      PROVE  FALSE
  <2> DEFINE X == {c \in Ops : ReachesFold(c) /\ c # op}
  <2>1. ClosedUpstream(X)
    BY <1>1, <1>2, <1>3 DEF ClosedUpstream
  <2>2. op \in X
    BY <1>3, <2>1 DEF ReachesFold
  <2> QED BY <2>2
<1> QED BY <1>0, <1>1, <1>2, <1>3

LEMMA BeforeFoldDefined ==
  ASSUME Fold \in Ops
  PROVE  BeforeFold = [op \in Ops |-> op = Fold \/ \E c \in Ops : c > op /\ Feeds(op, c) /\ BeforeFold[c]]
<1> DEFINE w == [op \in Ops |-> ReachesFold(op)]
           Unfolded(f) == [op \in Ops |-> op = Fold \/ \E c \in Ops : c > op /\ Feeds(op, c) /\ f[c]]
<1>1. w = Unfolded(w)
  <2>1. \A op \in Ops : ReachesFold(op) = (op = Fold \/ \E c \in Ops : c > op /\ Feeds(op, c) /\ ReachesFold(c))
    BY ReachesFoldStep, Zenon DEF ReachesFold
  <2> QED BY <2>1, Zenon
<1> HIDE DEF w
<1>2. \E f : f = Unfolded(f)
  BY <1>1, Zenon
<1>3. BeforeFold = CHOOSE f : f = Unfolded(f)
  BY DEF BeforeFold
<1> QED BY <1>2, <1>3, Zenon

LEMMA BeforeFoldStep ==
  ASSUME OnePathToFold, NEW op \in Ops
  PROVE  BeforeFold[op] <=> op = Fold \/ \E c \in Ops : c > op /\ Feeds(op, c) /\ BeforeFold[c]
<1>1. BeforeFold = [o \in Ops |-> o = Fold \/ \E c \in Ops : c > o /\ Feeds(o, c) /\ BeforeFold[c]]
  BY FoldIsMap, BeforeFoldDefined
<1>2. BeforeFold[op] = (op = Fold \/ \E c \in Ops : c > op /\ Feeds(op, c) /\ BeforeFold[c])
  BY <1>1, Zenon
<1> QED BY <1>2, Zenon

\* Nothing comes after the fold: the last operator that did would feed another.
LEMMA FoldIsLast ==
  ASSUME OnePathToFold, NEW op \in Ops, BeforeFold[op]
  PROVE  op <= Fold
<1> DEFINE T == {n \in 0..Len(Kind) : Len(Kind) - n \in Ops /\ BeforeFold[Len(Kind) - n] /\ Len(Kind) - n > Fold}
<1>0. Len(Kind) \in Nat /\ Fold \in Ops /\ Ops = 1..Len(Kind) /\ Kind[Fold] = "stateful_map"
  BY GraphTypes, FoldIsMap
<1> SUFFICES ASSUME op > Fold PROVE FALSE
  BY <1>0
<1>1. Len(Kind) - op \in T
  <2>1. Len(Kind) - op \in 0..Len(Kind) /\ Len(Kind) - (Len(Kind) - op) = op
    BY <1>0
  <2> HIDE DEF T
  <2>2. Len(Kind) - op \in {n \in 0..Len(Kind) : Len(Kind) - n \in Ops /\ BeforeFold[Len(Kind) - n] /\ Len(Kind) - n > Fold}
    BY <2>1
  <2> QED BY <2>2 DEF T
<1>2. PICK n \in T : \A k \in T : n <= k
  <2>1. T \subseteq Nat
    BY <1>0
  <2> QED BY <1>1, <2>1, LeastNatural
<1> DEFINE o == Len(Kind) - n
<1>3. o \in Ops /\ BeforeFold[o] /\ o > Fold /\ n \in 0..Len(Kind)
  BY <1>2
<1>4. PICK c \in Ops : c > o /\ BeforeFold[c]
  <2>1. o # Fold
    BY <1>0, <1>3
  <2> HIDE DEF o
  <2> QED BY <1>3, <2>1, BeforeFoldStep
<1>5. Len(Kind) - c \in 0..Len(Kind) /\ Len(Kind) - (Len(Kind) - c) = c /\ c > Fold /\ Len(Kind) - c < n
  BY <1>0, <1>3, <1>4
<1>6. Len(Kind) - c \in T
  BY <1>4, <1>5
<1> HIDE DEF T
<1>7. n <= Len(Kind) - c
  BY <1>2, <1>6
<1> QED BY <1>3, <1>5, <1>7, <1>0

\* The edges on the way to the fold, and the late ones.
LEMMA EdgesByReceiver ==
  ASSUME NEW e, NEW c \in Ops, IsInput(e, Inputs[c])
  PROVE  /\ e \in Upstream <=> BeforeFold[c]
         /\ e \in LateEdges <=> ~BeforeFold[c] /\ ~AfterFold[c]
<1>1. e \in Edges
  BY EdgesOfOperators
<1>2. \A o \in Ops : IsInput(e, Inputs[o]) => o = c
  BY EdgeEnds
<1>3. e \in Upstream <=> BeforeFold[c]
  BY <1>1, <1>2, Zenon DEF Upstream
<1>4. e \in LateEdges <=> ~BeforeFold[c] /\ ~AfterFold[c]
  BY <1>1, <1>2, Zenon DEF LateEdges
<1> QED BY <1>3, <1>4

LEMMA UpstreamSender ==
  ASSUME OnePathToFold, NEW p \in Ops, NEW e \in Upstream, IsOutput(e, p)
  PROVE  BeforeFold[p] /\ p # Fold
<1>1. PICK c \in Ops : IsInput(e, Inputs[c]) /\ BeforeFold[c] /\ e \in Edges
  BY DEF Upstream
<1>2. p < c /\ p \in Streams
  BY <1>1, GraphTypes, EdgeEnds
<1>3. Feeds(p, c) /\ c > p
  BY <1>1, <1>2, GraphTypes DEF Feeds, IsOutput, IsInput
<1>4. BeforeFold[p]
  BY <1>1, <1>3, BeforeFoldStep
<1>5. c <= Fold /\ Fold \in Ops
  BY <1>1, FoldIsLast, FoldIsMap
<1> QED BY <1>2, <1>4, <1>5, GraphTypes

\* One of the outputs leads to the fold.
LEMMA WayToFold ==
  ASSUME OnePathToFold, NEW op \in Ops, BeforeFold[op], op # Fold
  PROVE  /\ \E i \in DOMAIN Outputs[op] : Outputs[op][i] \in Upstream
         /\ \A e, f \in Upstream : IsOutput(e, op) /\ IsOutput(f, op) => e = f
<1>1. PICK c \in Ops : c > op /\ Feeds(op, c) /\ BeforeFold[c]
  BY BeforeFoldStep
<1>2. PICK i \in DOMAIN Outputs[op] : IsInput(Outputs[op][i], Inputs[c])
  BY <1>1 DEF Feeds
<1>3. Outputs[op][i] \in Upstream
  BY <1>1, <1>2, EdgesByReceiver
<1>4. \A a, b \in DOMAIN Outputs[op] : Outputs[op][a] \in Upstream /\ Outputs[op][b] \in Upstream => a = b
  BY DEF OnePathToFold
<1>5. \A e, f \in Upstream : IsOutput(e, op) /\ IsOutput(f, op) => e = f
  BY <1>4 DEF IsOutput, IsInput
<1> QED BY <1>3, <1>5

----------------------------------------------------------------------------
(* One edge: where the copies of a record are.                             *)

Marked(q, k)   == \E j \in DOMAIN q : q[j].kind = k
IsCopy(m, r)   == m.kind = "Data" /\ m.id = r
OnlyOne(S)     == \A i, j \in S : i = j

\* The copies of r in a queue that are not behind a marker k.
Ahead(q, r, k) == {i \in DOMAIN q : IsCopy(q[i], r) /\ \A j \in DOMAIN q : q[j].kind = k => i < j}

LEMMA AheadTaken ==
  ASSUME NEW q \in Seq(Message), NEW q2 \in Seq(Message), Shifted(q, q2), 1 \in DOMAIN q, NEW r, NEW k,
         q[1].kind # k
  PROVE  /\ IsCopy(q[1], r) => Ahead(q, r, k) # {} /\ (OnlyOne(Ahead(q, r, k)) => Ahead(q2, r, k) = {})
         /\ ~IsCopy(q[1], r) => /\ Ahead(q2, r, k) = {} <=> Ahead(q, r, k) = {}
                                /\ OnlyOne(Ahead(q, r, k)) => OnlyOne(Ahead(q2, r, k))
<1>1. \A i \in DOMAIN q2 : i \in Nat /\ i >= 1 /\ i + 1 \in DOMAIN q /\ q2[i] = q[i + 1]
  BY DEF Shifted
<1>2. \A j \in DOMAIN q : j = 1 \/ (j \in Nat /\ j > 1 /\ j - 1 \in DOMAIN q2 /\ q2[j - 1] = q[j])
  BY DEF Shifted
<1>3. ASSUME NEW i \in Ahead(q2, r, k) PROVE i \in Nat /\ i >= 1 /\ i + 1 \in Ahead(q, r, k)
  <2>1. i \in DOMAIN q2 /\ i + 1 \in DOMAIN q /\ q2[i] = q[i + 1] /\ i \in Nat /\ i >= 1
    BY <1>1 DEF Ahead
  <2>2. ASSUME NEW j \in DOMAIN q, q[j].kind = k PROVE i + 1 < j
    <3>1. j \in Nat /\ j > 1 /\ j - 1 \in DOMAIN q2 /\ q2[j - 1].kind = k
      BY <1>2, <2>2
    <3>2. i < j - 1
      BY <3>1 DEF Ahead
    <3> QED BY <2>1, <3>1, <3>2
  <2> QED BY <2>1, <2>2 DEF Ahead
<1>4. ASSUME NEW j \in Ahead(q, r, k), j # 1 PROVE j - 1 \in Ahead(q2, r, k)
  <2>1. j \in DOMAIN q /\ j \in Nat /\ j - 1 \in DOMAIN q2 /\ q2[j - 1] = q[j]
    BY <1>2, <1>4 DEF Ahead
  <2>2. ASSUME NEW i \in DOMAIN q2, q2[i].kind = k PROVE j - 1 < i
    <3>1. i \in Nat /\ i + 1 \in DOMAIN q /\ q[i + 1].kind = k
      BY <1>1, <2>2
    <3>2. j < i + 1
      BY <3>1 DEF Ahead
    <3> QED BY <2>1, <3>1, <3>2
  <2> QED BY <2>1, <2>2 DEF Ahead
<1>5. 1 \in Ahead(q, r, k) <=> IsCopy(q[1], r)
  <2>1. \A j \in DOMAIN q : q[j].kind = k => 1 < j
    BY <1>2
  <2> QED BY <2>1 DEF Ahead
<1> DEFINE A == Ahead(q, r, k)
           B == Ahead(q2, r, k)
<1> HIDE DEF A, B
<1>6. OnlyOne(A) => OnlyOne(B)
  <2> SUFFICES ASSUME OnlyOne(A), NEW i \in B, NEW j \in B PROVE i = j
    BY DEF OnlyOne
  <2>1. i + 1 \in A /\ j + 1 \in A /\ i \in Nat /\ j \in Nat
    BY <1>3 DEF A, B
  <2>2. i + 1 = j + 1
    BY <2>1 DEF OnlyOne
  <2> QED BY <2>1, <2>2
<1>7. IsCopy(q[1], r) => A # {} /\ (OnlyOne(A) => B = {})
  <2> SUFFICES ASSUME IsCopy(q[1], r) PROVE 1 \in A /\ (OnlyOne(A) => B = {})
    OBVIOUS
  <2>1. 1 \in A
    BY <1>5 DEF A
  <2>2. ASSUME OnlyOne(A), NEW i \in B PROVE FALSE
    <3>1. i + 1 \in A /\ i \in Nat /\ i >= 1
      BY <1>3 DEF A, B
    <3>2. i + 1 = 1
      BY <2>1, <2>2, <3>1 DEF OnlyOne
    <3> QED BY <3>1, <3>2
  <2> QED BY <2>1, <2>2
<1>8. ~IsCopy(q[1], r) => (B = {} <=> A = {})
  BY <1>3, <1>4, <1>5 DEF A, B
<1> QED BY <1>6, <1>7, <1>8 DEF A, B

\* What is sent after the marker does not count, what is sent before it does.
LEMMA AheadSent ==
  ASSUME NEW q \in Seq(Message), NEW q2 \in Seq(Message), NEW x \in Seq(Message), Extended(q, x, q2), NEW r, NEW k
  PROVE  /\ Marked(q, k) => Ahead(q2, r, k) = Ahead(q, r, k)
         /\ ~Marked(q, k) /\ (\A i \in DOMAIN x : x[i].kind = k => i = Len(x)) =>
              /\ (\A i \in DOMAIN x : ~IsCopy(x[i], r)) => Ahead(q2, r, k) = Ahead(q, r, k)
              /\ k # "Data" /\ (\E i \in DOMAIN x : IsCopy(x[i], r)) => Ahead(q2, r, k) # {}
              /\ Ahead(q, r, k) = {} /\ (\A i, j \in DOMAIN x : IsCopy(x[i], r) /\ IsCopy(x[j], r) => i = j) =>
                   OnlyOne(Ahead(q2, r, k))
              /\ Ahead(q, r, k) \subseteq Ahead(q2, r, k)
<1>1. Len(q) \in Nat /\ \A i \in DOMAIN q : i \in Nat /\ i <= Len(q) /\ i \in DOMAIN q2 /\ q2[i] = q[i]
  BY DEF Extended
<1>2. \A j \in DOMAIN x : j \in Nat /\ j >= 1 /\ j <= Len(x) /\ Len(q) + j \in DOMAIN q2 /\ q2[Len(q) + j] = x[j]
  BY DEF Extended
<1>3. \A i \in DOMAIN q2 : \/ i \in DOMAIN q
                           \/ i \in Nat /\ i > Len(q) /\ i - Len(q) \in DOMAIN x /\ q2[i] = x[i - Len(q)]
  BY DEF Extended
<1>4. Len(x) \in Nat
  OBVIOUS
<1>5. ASSUME NEW i \in Ahead(q, r, k) PROVE i \in Ahead(q2, r, k)
  <2>1. i \in DOMAIN q /\ i \in Nat /\ i <= Len(q) /\ i \in DOMAIN q2 /\ IsCopy(q2[i], r)
    BY <1>1 DEF Ahead
  <2>2. ASSUME NEW j \in DOMAIN q2, q2[j].kind = k PROVE i < j
    <3>1. CASE j \in DOMAIN q
      BY <1>1, <2>2, <3>1 DEF Ahead
    <3>2. CASE j \notin DOMAIN q
      BY <1>1, <1>3, <2>1, <2>2, <3>2
    <3> QED BY <3>1, <3>2
  <2> QED BY <2>1, <2>2 DEF Ahead
<1>6. ASSUME NEW i \in Ahead(q2, r, k), i \in DOMAIN q PROVE i \in Ahead(q, r, k)
  BY <1>1, <1>6 DEF Ahead
<1>7. ASSUME Marked(q, k), NEW i \in Ahead(q2, r, k) PROVE i \in DOMAIN q
  <2>1. PICK j \in DOMAIN q : q[j].kind = k
    BY <1>7 DEF Marked
  <2>2. i < j /\ i \in DOMAIN q2
    BY <1>1, <2>1 DEF Ahead
  <2> QED BY <1>1, <1>3, <2>1, <2>2
<1>8. ASSUME ~Marked(q, k), \A i \in DOMAIN x : x[i].kind = k => i = Len(x), k # "Data",
             NEW i \in DOMAIN x, IsCopy(x[i], r)
      PROVE  Len(q) + i \in Ahead(q2, r, k)
  <2>1. Len(q) + i \in DOMAIN q2 /\ q2[Len(q) + i] = x[i] /\ i \in Nat /\ i <= Len(x)
    BY <1>2
  <2>2. ASSUME NEW j \in DOMAIN q2, q2[j].kind = k PROVE Len(q) + i < j
    <3>1. j \notin DOMAIN q
      BY <1>1, <1>8, <2>2 DEF Marked
    <3>2. j \in Nat /\ j > Len(q) /\ j - Len(q) \in DOMAIN x /\ q2[j] = x[j - Len(q)]
      BY <1>3, <3>1
    <3>3. j - Len(q) = Len(x)
      BY <1>8, <2>2, <3>2
    <3>4. i # Len(x)
      BY <1>8, <2>2, <3>2, <3>3 DEF IsCopy
    <3> QED BY <1>1, <1>4, <2>1, <3>2, <3>3, <3>4
  <2> QED BY <1>8, <2>1, <2>2 DEF Ahead
<1>9. ASSUME NEW i \in Ahead(q2, r, k), i \notin DOMAIN q
      PROVE  i \in Nat /\ i > Len(q) /\ i - Len(q) \in DOMAIN x /\ IsCopy(x[i - Len(q)], r)
  BY <1>3, <1>9 DEF Ahead
<1> DEFINE A == Ahead(q, r, k)
           B == Ahead(q2, r, k)
<1> HIDE DEF A, B
<1>10. A \subseteq B
  BY <1>5 DEF A, B
<1>11. Marked(q, k) => B = A
  BY <1>6, <1>7, <1>10 DEF A, B
<1>12. (\A i \in DOMAIN x : ~IsCopy(x[i], r)) => B = A
  BY <1>6, <1>9, <1>10 DEF A, B
<1>13. ASSUME A = {}, \A i, j \in DOMAIN x : IsCopy(x[i], r) /\ IsCopy(x[j], r) => i = j
       PROVE  OnlyOne(B)
  <2> SUFFICES ASSUME NEW i \in B, NEW j \in B PROVE i = j
    BY DEF OnlyOne
  <2>1. i \notin DOMAIN q /\ j \notin DOMAIN q
    BY <1>6, <1>13 DEF A, B
  <2>2. i - Len(q) = j - Len(q) /\ i \in Nat /\ j \in Nat
    BY <1>9, <1>13, <2>1 DEF B
  <2> QED BY <1>1, <2>2
<1> QED BY <1>8, <1>10, <1>11, <1>12, <1>13 DEF A, B

----------------------------------------------------------------------------
(* Views: the operators of D are as they were when the marker k passed     *)
(* them, the others as they are now.                                       *)

Cutting(D, k) ==
  /\ D \in SUBSET Ops
  /\ k = "AbsBarrier" \/ (k = "none" /\ D = {})
  /\ \A p, c \in Ops : \A e \in Edges : IsOutput(e, p) /\ IsInput(e, Inputs[c]) =>
       /\ p \notin D => c \notin D /\ ~Marked(chan[e], k)
       /\ p \in D /\ c \notin D => Marked(chan[e], k)

\* The copies of r on an edge that belong to the view.
Beyond(D, e) == \E c \in D : IsInput(e, Inputs[c])
Carries(D, k, r, e) == IF Beyond(D, e) THEN {} ELSE Ahead(chan[e], r, k)

\* Who is passed after a step of op that has received m.
Passing(D, op, m, k) == IF IsKind(m, k) THEN D \cup {op} ELSE D

Received(m, r) == IsKind(m, "Data") /\ m.id = r

LEMMA HeadsTaken ==
  ASSUME Queues, NEW op \in Ops, NEW T, NEW m \in Message \cup {None}, NEW up, Reception(op, T, m, up), NEW r
  PROVE  /\ \A e \in T : /\ e \in Edges /\ IsInput(e, Inputs[op]) /\ 1 \in DOMAIN chan[e]
                         /\ IsCopy(chan[e][1], r) <=> Received(m, r)
                         /\ chan[e][1].kind = "AbsBarrier" <=> IsKind(m, "AbsBarrier")
                         /\ chan[e][1].kind # "none"
         /\ IsKind(m, "Data") => \E e \in T : T = {e} /\ chan[e][1] = m
         /\ IsKind(m, "AbsBarrier") => T = {e \in Edges : IsInput(e, Inputs[op])}
         /\ ~IsKind(m, "none")
<1>1. \A e \in T : e \in Edges /\ IsInput(e, Inputs[op]) /\ 1 \in DOMAIN chan[e] /\ Head(chan[e]) = chan[e][1] /\ chan[e][1] \in Message
  BY DEF Reception, Queues
<1>2. \A x \in Message : x # None /\ x.kind # "none"
  BY MessageKinds DEF MarkerKinds
<1>3. \A t : Epoch(t).kind = "Epoch"
  BY DEF Epoch
<1>4. \A x : Marker(x).kind = x
  BY DEF Marker
<1>5. CASE ReceivesNothing(T, m, up)
  BY <1>5 DEF ReceivesNothing, IsKind
<1>6. CASE ReceivesOne(op, T, m, up)
  <2>1. PICK e \in Edges :
          /\ T = {e} /\ ~NeedsAlignment(Head(chan[e]))
          /\ IF Head(chan[e]).kind # "Epoch" THEN m = Head(chan[e])
             ELSE MergedFrom(op, m, up)
    BY <1>6 DEF ReceivesOne
  <2>2. e \in T /\ Head(chan[e]) = chan[e][1] /\ chan[e][1] \in Message /\ chan[e][1].kind # "AbsBarrier"
    BY <1>1, <2>1 DEF NeedsAlignment
  <2>3. CASE chan[e][1].kind = "Epoch"
    <3>1. m = None \/ m.kind = "Epoch"
      BY <1>3, <2>1, <2>2, <2>3 DEF MergedFrom
    <3> QED BY <1>1, <1>2, <2>1, <2>2, <2>3, <3>1 DEF IsCopy, Received, IsKind
  <2>4. CASE chan[e][1].kind # "Epoch"
    <3>1. m = chan[e][1] /\ m # None /\ m.kind # "none"
      BY <1>2, <2>1, <2>2, <2>4
    <3> QED BY <1>1, <2>1, <2>2, <3>1 DEF IsCopy, Received, IsKind
  <2> QED BY <2>3, <2>4
<1>7. CASE ReceivesAligned(op, T, m, up)
  <2>1. PICK x \in {"AbsBarrier", "SuspendMarker"} : m = Marker(x) /\ \A e \in T : Head(chan[e]) = Marker(x)
    BY <1>7 DEF ReceivesAligned
  <2>2. m.kind = x /\ m # None /\ \A e \in T : chan[e][1] = m
    <3>1. m \in Message
      BY <2>1 DEF Marker, Message
    <3> QED BY <1>1, <1>2, <1>4, <2>1, <3>1
  <2>3. T = {e \in Edges : IsInput(e, Inputs[op])}
    BY <1>7 DEF ReceivesAligned
  <2> QED BY <1>1, <2>1, <2>2, <2>3 DEF IsCopy, Received, IsKind
<1> QED BY <1>5, <1>6, <1>7 DEF Reception

\* What a step does to the copies of a record on an edge: it takes one, it adds
\* what it sends, or they are what they were.
EdgeEffect(out, taken, given, once, A, B) ==
  /\ taken => A # {} /\ (OnlyOne(A) => B = {})
  /\ given => B # {} /\ (A = {} /\ once => OnlyOne(B))
  /\ ~taken /\ ~given => (B = {} <=> A = {}) /\ (OnlyOne(A) => OnlyOne(B))
  /\ out => ~taken /\ ~given

SendsCopy(outs, r)    == \E i \in DOMAIN outs : IsCopy(outs[i], r)
SendsOneCopy(outs, r) == \A i, j \in DOMAIN outs : IsCopy(outs[i], r) /\ IsCopy(outs[j], r) => i = j

LEMMA EdgeCounts ==
  ASSUME Queues, NEW op \in Ops, NEW T, NEW m \in Message \cup {None}, NEW outs, NEW newSt,
         Reception(op, T, m, upEpoch'), MovesMessages(op, T, outs), OutShape(op, m, outs, newSt),
         NEW D, NEW k, Cutting(D, k), IsKind(m, k) => op \notin D,
         NEW D2, D2 = Passing(D, op, m, k), NEW r, NEW e \in Edges
  PROVE  EdgeEffect(op \in D, op \notin D /\ e \in T /\ Received(m, r),
                    op \notin D /\ SentTo(op, e, outs) /\ SendsCopy(outs, r), SendsOneCopy(outs, r),
                    Carries(D, k, r, e), Carries(D2, k, r, e)')
<1> DEFINE A == Carries(D, k, r, e)
           B == Carries(D2, k, r, e)'
<1>1. outs \in Seq(Message) /\ chan[e] \in Seq(Message) /\ chan'[e] \in Seq(Message)
      /\ (Takes(op, T, e) \/ Appends(op, T, outs, e) \/ Leaves(op, T, outs, e))
  BY EdgeStep DEF OutShape, Queues
<1>2. PICK p \in Streams, c \in Ops : IsOutput(e, p) /\ IsInput(e, Inputs[c])
  BY EdgeEnds
<1>3. D \subseteq Ops /\ D2 \subseteq Ops /\ (k = "AbsBarrier" \/ k = "none") /\ k # "Data"
  BY DEF Cutting, Passing
<1>4. \A X \in SUBSET Ops : Beyond(X, e) <=> c \in X
  BY <1>2, EdgeEnds DEF Beyond
<1>5. /\ A = IF c \in D THEN {} ELSE Ahead(chan[e], r, k)
      /\ B = IF c \in D2 THEN {} ELSE Ahead(chan'[e], r, k)
  BY <1>3, <1>4 DEF Carries
<1>6. /\ e \in T => /\ IsInput(e, Inputs[op]) /\ 1 \in DOMAIN chan[e]
                    /\ IsCopy(chan[e][1], r) <=> Received(m, r)
                    /\ chan[e][1].kind = k <=> IsKind(m, k)
      /\ IsKind(m, k) => k = "AbsBarrier" /\ T = {d \in Edges : IsInput(d, Inputs[op])}
  BY <1>3, HeadsTaken
<1> HIDE DEF A, B
<1>7. CASE Takes(op, T, e)
  <2>1. c = op /\ e \in T /\ ~SentTo(op, e, outs) /\ Shifted(chan[e], chan'[e])
    <3>1. c = op /\ e \in T /\ Shifted(chan[e], chan'[e])
      BY <1>2, <1>7, EdgeEnds DEF Takes
    <3>2. ~IsOutput(e, op)
      BY <1>2, <3>1, EdgesOfOperators
    <3> QED BY <3>1, <3>2 DEF SentTo, Flags, IsOutput, IsInput
  <2>2. CASE op \in D
    BY <1>5, <2>1, <2>2 DEF EdgeEffect, Passing, OnlyOne, A, B
  <2>3. CASE op \notin D /\ IsKind(m, k)
    <3>1. A = {}
      <4> SUFFICES ASSUME NEW i \in Ahead(chan[e], r, k) PROVE FALSE
        BY <1>5
      <4>1. i < 1 /\ i \in 1..Len(chan[e])
        BY <1>1, <1>6, <2>1, <2>3 DEF Ahead
      <4> QED BY <4>1
    <3>2. B = {}
      BY <1>5, <2>1, <2>3 DEF Passing
    <3>3. ~Received(m, r)
      BY <1>3, <2>3 DEF Received, IsKind
    <3> QED BY <2>1, <2>3, <3>1, <3>2, <3>3 DEF EdgeEffect, OnlyOne, A, B
  <2>4. CASE op \notin D /\ ~IsKind(m, k)
    <3>1. A = Ahead(chan[e], r, k) /\ B = Ahead(chan'[e], r, k)
      BY <1>5, <2>1, <2>4 DEF Passing
    <3>2. /\ Received(m, r) => A # {} /\ (OnlyOne(A) => B = {})
          /\ ~Received(m, r) => (B = {} <=> A = {}) /\ (OnlyOne(A) => OnlyOne(B))
      BY <1>1, <1>6, <2>1, <2>4, <3>1, AheadTaken
    <3> QED BY <2>1, <2>4, <3>2 DEF EdgeEffect, A, B
  <2> QED BY <2>2, <2>3, <2>4
<1>8. CASE Appends(op, T, outs, e)
  <2>1. p = op /\ c # op /\ e \notin T /\ SentTo(op, e, outs) /\ Extended(chan[e], outs, chan'[e])
    BY <1>2, <1>8, EdgeEnds, EdgesOfOperators, GraphTypes DEF Appends
  <2>2. (c \in D2 <=> c \in D) /\ (op \in D => D2 = D)
    BY <2>1 DEF Passing
  <2>3. CASE op \in D
    <3>1. c \notin D => Marked(chan[e], k)
      BY <1>2, <2>1, <2>3 DEF Cutting
    <3>2. A = B
      BY <1>1, <1>5, <2>1, <2>2, <3>1, AheadSent
    <3> QED BY <2>3, <3>2 DEF EdgeEffect, A, B
  <2>4. CASE op \notin D
    <3>1. c \notin D /\ ~Marked(chan[e], k)
      BY <1>2, <2>1, <2>4 DEF Cutting
    <3>2. \A i \in DOMAIN outs : outs[i].kind = k => i = Len(outs)
      <4> SUFFICES ASSUME NEW i \in DOMAIN outs, outs[i].kind = k PROVE i = Len(outs)
        OBVIOUS
      <4>1. outs[i] \in Message /\ outs[i].kind \in {"Data", "Epoch"} \cup MarkerKinds
        BY <1>1, MessageKinds
      <4>2. IsMarker(outs[i])
        BY <1>3, <4>1 DEF IsMarker, MarkerKinds
      <4> QED BY <4>2 DEF OutShape
    <3>3. A = Ahead(chan[e], r, k) /\ B = Ahead(chan'[e], r, k)
      BY <1>5, <2>2, <3>1
    <3>4. /\ (\A i \in DOMAIN outs : ~IsCopy(outs[i], r)) => B = A
          /\ (\E i \in DOMAIN outs : IsCopy(outs[i], r)) => B # {}
          /\ A = {} /\ SendsOneCopy(outs, r) => OnlyOne(B)
      BY <1>1, <1>3, <2>1, <3>1, <3>2, <3>3, AheadSent DEF SendsOneCopy
    <3> QED BY <2>1, <2>4, <3>4 DEF EdgeEffect, SendsCopy, A, B
  <2> QED BY <2>3, <2>4
<1>9. CASE Leaves(op, T, outs, e)
  <2>1. e \notin T /\ ~SentTo(op, e, outs) /\ chan'[e] = chan[e]
    BY <1>9 DEF Leaves
  <2>2. c \in D2 <=> c \in D
    BY <1>2, <1>6, <2>1 DEF Passing
  <2>3. A = B
    BY <1>5, <2>1, <2>2
  <2> QED BY <2>1, <2>3 DEF EdgeEffect, A, B
<1> QED BY <1>1, <1>7, <1>8, <1>9

----------------------------------------------------------------------------
(* What an operator makes of a record.                                     *)

\* Nobody changes the identity of a record; who does not drop or double it
\* sends it on once.
LEMMA RecordAnswer ==
  ASSUME NEW op \in Ops, Kind[op] \in OtherKinds, NEW s, StType(op, s), stamp \in StampFunctions,
         NEW m \in Message, m.kind = "Data", Kind[op] = "generate_epochs" => m.ts \in Bound..(MAX - 1)
  PROVE  LET outs == Handle(op, s, m).outs
         IN  /\ \A i \in DOMAIN outs : outs[i].kind = "Data" => outs[i].id = m.id
             /\ Kind[op] \notin {"filter", "sink"} => \E i \in DOMAIN outs : outs[i].kind = "Data"
             /\ Kind[op] \notin {"filter", "sink", "flatten"} =>
                  \A i, j \in DOMAIN outs : outs[i].kind = "Data" /\ outs[j].kind = "Data" => i = j
             /\ Kind[op] = "split" => outs = <<m>>
             /\ Kind[op] = "stateful_map" => Handle(op, s, m).st = [s EXCEPT ![m.id] = @ + 1]
<1> DEFINE outs == Handle(op, s, m).outs
<1>0. m = [kind |-> "Data", id |-> m.id, ts |-> m.ts, late |-> m.late]
  BY AnswerTypes
<1>1. \A t : [m EXCEPT !.ts = t].kind = "Data" /\ [m EXCEPT !.ts = t].id = m.id
  BY <1>0
<1>2. \A b : [m EXCEPT !.late = b].kind = "Data" /\ [m EXCEPT !.late = b].id = m.id
  BY <1>0
<1>3. ASSUME NEW d, d.kind = "Data", d.id = m.id, outs = <<d>>
      PROVE  /\ \A i \in DOMAIN outs : outs[i].kind = "Data" => outs[i].id = m.id
             /\ \E i \in DOMAIN outs : outs[i].kind = "Data"
             /\ \A i, j \in DOMAIN outs : outs[i].kind = "Data" /\ outs[j].kind = "Data" => i = j
  <2>1. DOMAIN <<d>> = {1} /\ <<d>>[1] = d
    OBVIOUS
  <2> QED BY <1>3, <2>1
<1>4. CASE Kind[op] = "assign_timestamps"
  <2>1. outs = <<[m EXCEPT !.ts = stamp[m.id]]>>
    BY <1>4 DEF Handle, OnAssignTimestamps, Result
  <2> DEFINE d == [m EXCEPT !.ts = stamp[m.id]]
  <2>2. d.kind = "Data" /\ d.id = m.id /\ outs = <<d>>
    BY <1>1, <2>1
  <2> HIDE DEF outs, d
  <2>3. /\ \A i \in DOMAIN outs : outs[i].kind = "Data" => outs[i].id = m.id
        /\ \E i \in DOMAIN outs : outs[i].kind = "Data"
        /\ \A i, j \in DOMAIN outs : outs[i].kind = "Data" /\ outs[j].kind = "Data" => i = j
    BY <1>3, <2>2
  <2> QED BY <1>4, <2>3 DEF outs
<1>5. CASE Kind[op] = "generate_epochs"
  <2> DEFINE d == [m EXCEPT !.late = ~OnTime(s, m)]
             x == Epoch(m.ts - Bound)
  <2>1. d \in Message /\ x \in Message /\ (outs = <<d, x>> \/ outs = <<d>>)
    <3>1. s \in Times \cup {None}
      BY <1>5 DEF StType
    <3>2. /\ m.ts - Bound \in Times /\ d \in Message
          /\ Handle(op, s, m) = IF s = None \/ m.ts - Bound > s
                                THEN Result(<<d, x>>, m.ts - Bound) ELSE Result(<<d>>, s)
      BY <1>5, <3>1, GenerateAnswer
    <3>3. x \in Message
      BY <3>2, AnswerTypes
    <3> HIDE DEF d, x
    <3> QED BY <3>2, <3>3 DEF Result
  <2>2. d.kind = "Data" /\ d.id = m.id /\ x.kind = "Epoch"
    BY <1>2 DEF Epoch
  <2> HIDE DEF outs, d, x
  <2>3. /\ \A i \in DOMAIN outs : outs[i].kind = "Data" => outs[i].id = m.id
        /\ \E i \in DOMAIN outs : outs[i].kind = "Data"
        /\ \A i, j \in DOMAIN outs : outs[i].kind = "Data" /\ outs[j].kind = "Data" => i = j
    <3>1. CASE outs = <<d>>
      BY <1>3, <2>2, <3>1
    <3>2. CASE outs = <<d, x>>
      <4>1. DOMAIN outs = {1, 2} /\ outs[1] = d /\ outs[2] = x
        BY <2>1, <3>2, Pairs
      <4> QED BY <2>2, <4>1
    <3> QED BY <2>1, <3>1, <3>2
  <2> QED BY <1>5, <2>3 DEF outs
<1>6. CASE Kind[op] = "map"
  <2> DEFINE d == [m EXCEPT !.late = FALSE]
  <2>1. d.kind = "Data" /\ d.id = m.id /\ outs = <<d>>
    BY <1>2, <1>6 DEF Handle, OnStateless, Mapped, OnMap, Result
  <2> HIDE DEF outs, d
  <2>2. /\ \A i \in DOMAIN outs : outs[i].kind = "Data" => outs[i].id = m.id
        /\ \E i \in DOMAIN outs : outs[i].kind = "Data"
        /\ \A i, j \in DOMAIN outs : outs[i].kind = "Data" /\ outs[j].kind = "Data" => i = j
    BY <1>3, <2>1
  <2> QED BY <1>6, <2>2 DEF outs
<1>7. CASE Kind[op] \in {"split", "stateful_map", "ttl_map"}
  <2>1. outs = <<m>> /\ (Kind[op] = "stateful_map" => Handle(op, s, m).st = [s EXCEPT ![m.id] = @ + 1])
    <3>1. CASE Kind[op] = "split"
      BY <3>1 DEF Handle, Forward
    <3>2. CASE Kind[op] = "stateful_map"
      <4>1. Handle(op, s, m) = Result(<<m>>, [s EXCEPT ![m.id] = @ + 1])
        BY <3>2 DEF Handle, OnStateful, OnStatefulMap
      <4> QED BY <4>1 DEF Result
    <3>3. CASE Kind[op] = "ttl_map"
      <4>1. Handle(op, s, m) = Result(<<m>>, s \cup {[id |-> m.id, ts |-> m.ts]})
        BY <3>3 DEF Handle, OnStateful, OnTtlMap
      <4> QED BY <3>3, <4>1 DEF Result
    <3> QED BY <1>7, <3>1, <3>2, <3>3
  <2>2. /\ \A i \in DOMAIN outs : outs[i].kind = "Data" => outs[i].id = m.id
        /\ \E i \in DOMAIN outs : outs[i].kind = "Data"
        /\ \A i, j \in DOMAIN outs : outs[i].kind = "Data" /\ outs[j].kind = "Data" => i = j
    BY <1>3, <2>1
  <2> HIDE DEF outs
  <2> QED BY <1>7, <2>1, <2>2 DEF outs
<1>8. CASE Kind[op] = "flatten"
  <2>1. outs = <<m, m>>
    BY <1>8 DEF Handle, OnStateless, Mapped, OnFlatten, Result
  <2>2. DOMAIN outs = {1, 2} /\ outs[1] = m /\ outs[2] = m
    BY <2>1, Pairs
  <2> HIDE DEF outs
  <2> QED BY <1>8, <2>2 DEF outs
<1>9. CASE Kind[op] = "filter"
  <2>1. outs = IF m.id \in Kept THEN <<m>> ELSE <<>>
    BY <1>9 DEF Handle, OnStateless, Mapped, OnFilter, Result
  <2>2. \A i \in DOMAIN outs : outs[i] = m
    BY <2>1
  <2> QED BY <1>9, <2>2
<1>10. CASE Kind[op] = "sink"
  <2>1. outs = <<>>
    BY <1>10 DEF Handle, Result
  <2> QED BY <1>10, <2>1
<1> QED BY <1>4, <1>5, <1>6, <1>7, <1>8, <1>9, <1>10 DEF OtherKinds

LEMMA StepAnswers ==
  ASSUME Types, Stamped, NEW op \in Ops, op \notin Sources,
         NEW T, NEW m \in Message \cup {None}, NEW outs, NEW s, NEW newSt, Summary(op, T, m, outs, s, newSt), NEW r
  PROVE  /\ ~Received(m, r) => ~SendsCopy(outs, r)
         /\ Received(m, r) =>
              /\ Kind[op] \notin {"filter", "sink"} => SendsCopy(outs, r)
              /\ Kind[op] \notin {"filter", "sink", "flatten"} => SendsOneCopy(outs, r)
              /\ Kind[op] = "split" => outs = <<m>>
         /\ Kind[op] = "stateful_map" =>
              newSt = IF IsKind(m, "Data") THEN [st[op] EXCEPT ![m.id] = @ + 1] ELSE st[op]
<1>1. /\ Kind[op] \in OtherKinds /\ s = st[op] /\ StType(op, st[op]) /\ stamp \in StampFunctions
      /\ outs = Handled(op, st[op], m).outs /\ newSt = Handled(op, st[op], m).st
  BY StTypes DEF Summary, Types, TypeOK
<1>2. CASE m = None
  <2>1. outs = <<>> /\ newSt = st[op]
    BY <1>1, <1>2 DEF Handled, Result
  <2> QED BY <1>2, <2>1 DEF SendsCopy, Received, IsKind
<1>3. CASE m # None /\ IsMarker(m)
  <2>1. newSt = st[op] /\ outs = IF Kind[op] = "sink" THEN <<>> ELSE <<m>>
    BY <1>1, <1>3, MarkerAnswer DEF Handled, Forward, Result
  <2>2. m.kind # "Data"
    BY <1>3 DEF IsMarker, MarkerKinds
  <2>3. \A i \in DOMAIN outs : outs[i] = m
    BY <2>1
  <2> QED BY <1>1, <2>1, <2>2, <2>3 DEF SendsCopy, Received, IsKind, IsCopy
<1>4. CASE IsKind(m, "Epoch")
  <2>1. m \in Message /\ m.kind = "Epoch" /\ Handled(op, st[op], m) = Handle(op, st[op], m)
    BY <1>4 DEF IsKind, Handled
  <2>2. outs \in {<<>>, <<m>>}
    BY <1>1, <2>1, EpochAnswer
  <2>3. \A i \in DOMAIN outs : outs[i] = m
    BY <2>2
  <2>4. Kind[op] = "stateful_map" => newSt = st[op]
    <3>1. Kind[op] = "stateful_map" => Handle(op, st[op], m) = Forward(st[op], m)
      BY <2>1 DEF Handle, OnStateful, OnStatefulMap
    <3> QED BY <1>1, <2>1, <3>1 DEF Forward
  <2> QED BY <2>1, <2>3, <2>4 DEF SendsCopy, Received, IsKind, IsCopy
<1>5. CASE IsKind(m, "Data")
  <2>1. m \in Message /\ m.kind = "Data" /\ Handled(op, st[op], m) = Handle(op, st[op], m)
    BY <1>5 DEF IsKind, Handled
  <2>2. Kind[op] = "generate_epochs" => m.ts \in Bound..(MAX - 1)
    BY <1>5, ReceivesStamped DEF Summary, Types, TypeOK, Queues
  <2>3. /\ \A i \in DOMAIN outs : outs[i].kind = "Data" => outs[i].id = m.id
        /\ Kind[op] \notin {"filter", "sink"} => \E i \in DOMAIN outs : outs[i].kind = "Data"
        /\ Kind[op] \notin {"filter", "sink", "flatten"} =>
             \A i, j \in DOMAIN outs : outs[i].kind = "Data" /\ outs[j].kind = "Data" => i = j
        /\ Kind[op] = "split" => outs = <<m>>
        /\ Kind[op] = "stateful_map" => newSt = [st[op] EXCEPT ![m.id] = @ + 1]
    BY <1>1, <2>1, <2>2, RecordAnswer
  <2> QED BY <1>5, <2>3 DEF SendsCopy, SendsOneCopy, Received, IsCopy
<1>6. m = None \/ (m # None /\ IsMarker(m)) \/ IsKind(m, "Epoch") \/ IsKind(m, "Data")
  BY MessageKinds DEF IsKind, IsMarker
<1> QED BY <1>2, <1>3, <1>4, <1>5, <1>6

\* A split sends what is late to its second output only.
LEMMA SplitSends ==
  ASSUME NEW op \in Ops, Kind[op] = "split", NEW m \in Message, m.kind = "Data", NEW i \in DOMAIN Outputs[op]
  PROVE  i \in Flags(op, <<m>>) <=> ((i = 2) = m.late)
<1>1. DOMAIN <<m>> = {1} /\ <<m>>[1] = m /\ op # 0
  BY GraphTypes
<1> QED BY <1>1 DEF Flags

----------------------------------------------------------------------------
(* Every record is in one place: the invariant.                            *)

CutPos(D)  == [op \in Sources |-> IF op \in D THEN saving[op] ELSE st[op].pos]
CutFold(D) == IF Fold \in D THEN saving[Fold] ELSE st[Fold]

Left(r, pos) == \E op \in Sources : \E i \in DOMAIN Feed[op] : Feed[op][i] = r /\ i > pos[op]
SunkLate(r)  == \E op \in LateSinks : r \in sunk[op]

\* A record is still to be read (left), in a queue on the way to the fold (H[e]
\* are its places on e), or counted in the fold (n); or it was late.
Once(left, n, H, late) ==
  /\ n \in {0, 1}
  /\ \A e \in Upstream : OnlyOne(H[e])
  /\ \A e, f \in Upstream : H[e] # {} /\ H[f] # {} => e = f
  /\ left => n = 0
  /\ left \/ n = 1 => \A e \in Upstream : H[e] = {}
  /\ left \/ n = 1 \/ (\E e \in Upstream \cup LateEdges : H[e] # {}) \/ late

Held(D, k, r) == [e \in Edges |-> Carries(D, k, r, e)]

OnceInView(D, k) ==
  \A r \in Records : Once(Left(r, CutPos(D)), CutFold(D)[r], Held(D, k, r), SunkLate(r))

\* The same of a snapshot: it holds no messages.
OnceInSnapshot(snap) ==
  \A r \in Records : Once(Left(r, snap), snap[Fold][r], [e \in Edges |-> {}], SunkLate(r))

Counted ==
  /\ OnceInView({}, "none")
  /\ ctl = "snapshot" => \E D \in SUBSET Ops :
       Wave(D) /\ OnceInView(D, "AbsBarrier") /\ \A op \in Ops \ D : saving[op] = None
  /\ uncommitted => OnceInSnapshot(saving)
  /\ committed # None => OnceInSnapshot(committed)

----------------------------------------------------------------------------
(* A step of an operator.                                                  *)

\* A view moves from the positions P and the fold F to P2 and F2: as the worker
\* does, if it sees op in the present.
ViewMoves(op, D, newSt, P, P2, F, F2) ==
  /\ \A o \in Sources : P2[o] = IF o = op /\ op \notin D THEN newSt.pos ELSE P[o]
  /\ op \in Sources \ D => P[op] = st[op].pos
  /\ F2 = IF op = Fold /\ op \notin D THEN newSt ELSE F
  /\ Fold \notin D => F = st[Fold]

LEMMA ViewStep ==
  ASSUME Types, Stamped, OnePathToFold, NEW op \in Ops,
         NEW T, NEW m \in Message \cup {None}, NEW outs, NEW s, NEW newSt, Summary(op, T, m, outs, s, newSt),
         NEW D, NEW k, Cutting(D, k), IsKind(m, k) => op \notin D, NEW D2, D2 = Passing(D, op, m, k)
  PROVE  ViewMoves(op, D, newSt, CutPos(D), CutPos(D2)', CutFold(D), CutFold(D2)')
<1>1. /\ st' = [o \in Ops |-> IF o = op THEN newSt ELSE st[o]]
      /\ saving' = [o \in Ops |-> IF o = op /\ Stateful(op) /\ IsKind(m, "AbsBarrier") THEN Persisted(op, s) ELSE saving[o]]
  <2>1. st' = [st EXCEPT ![op] = newSt]
    BY DEF Summary, MovesOperator
  <2>2. saving' = IF Stateful(op) /\ IsKind(m, "AbsBarrier")
                  THEN [saving EXCEPT ![op] = Persisted(op, s)] ELSE saving
    BY DEF Summary, MovesOperator
  <2> QED BY <2>1, <2>2 DEF Types
<1>2. Fold \in Ops /\ Kind[Fold] = "stateful_map" /\ Sources \subseteq Ops /\ \A o \in Sources : Kind[o] = "source"
  BY FoldIsMap DEF Sources
<1>3. IsKind(m, k) => k = "AbsBarrier" /\ D2 = D \cup {op} /\ op \notin D
  <2>1. ~IsKind(m, "none")
    BY HeadsTaken DEF Summary, Types, TypeOK, Queues
  <2> QED BY <2>1 DEF Cutting, Passing
<1>4. ~IsKind(m, k) => D2 = D /\ (D = {} \/ ~IsKind(m, "AbsBarrier"))
  BY DEF Cutting, Passing
<1>5. ASSUME NEW o \in Sources
      PROVE  CutPos(D2)'[o] = IF o = op /\ op \notin D THEN newSt.pos ELSE CutPos(D)[o]
  <2>1. CutPos(D2)'[o] = IF o \in D2 THEN saving'[o] ELSE st'[o].pos
    BY DEF CutPos
  <2>2. CutPos(D)[o] = IF o \in D THEN saving[o] ELSE st[o].pos
    BY DEF CutPos
  <2>3. o \in Ops /\ Kind[o] = "source"
    BY <1>2
  <2>4. CASE IsKind(m, k)
    <3>1. CASE o = op
      <4>1. saving'[op] = newSt.pos
        BY <1>1, <1>3, <2>3, <2>4, <3>1 DEF Stateful, Persisted, Summary
      <4> QED BY <1>3, <2>1, <2>4, <3>1, <4>1
    <3>2. CASE o # op
      BY <1>1, <1>3, <2>1, <2>2, <2>3, <2>4, <3>2
    <3> QED BY <3>1, <3>2
  <2>5. CASE ~IsKind(m, k)
    <3>1. o \in D => saving'[o] = saving[o]
      BY <1>1, <1>4, <2>3, <2>5
    <3> QED BY <1>1, <1>4, <2>1, <2>2, <2>3, <2>5, <3>1
  <2> QED BY <2>4, <2>5
<1>6. CutFold(D2)' = IF op = Fold /\ op \notin D THEN newSt ELSE CutFold(D)
  <2>1. CutFold(D2)' = IF Fold \in D2 THEN saving'[Fold] ELSE st'[Fold]
    BY DEF CutFold
  <2>2. CASE IsKind(m, k)
    <3>1. CASE op = Fold
      <4>1. op \notin Sources
        BY <1>2, <3>1
      <4>2. newSt = st[op]
        BY <1>2, <1>3, <2>2, <3>1, <4>1, StepAnswers DEF IsKind
      <4>3. saving'[op] = st[op]
        BY <1>1, <1>2, <1>3, <2>2, <3>1, <4>1 DEF Stateful, Persisted, Summary
      <4> QED BY <1>3, <2>1, <2>2, <3>1, <4>2, <4>3
    <3>2. CASE op # Fold
      BY <1>1, <1>2, <1>3, <2>1, <2>2, <3>2 DEF CutFold
    <3> QED BY <3>1, <3>2
  <2>3. CASE ~IsKind(m, k)
    <3>1. Fold \in D => saving'[Fold] = saving[Fold]
      BY <1>1, <1>2, <1>4, <2>3
    <3> QED BY <1>1, <1>2, <1>4, <2>1, <2>3, <3>1 DEF CutFold
  <2> QED BY <2>2, <2>3
<1>7. op \in Sources \ D => CutPos(D)[op] = st[op].pos
  BY DEF CutPos
<1>8. Fold \notin D => CutFold(D) = st[Fold]
  BY DEF CutFold
<1> QED BY <1>5, <1>6, <1>7, <1>8 DEF ViewMoves

\* The ways in which a step moves a record; P are the positions of the sources.
Unmoved(A, B) == (B = {} <=> A = {}) /\ (OnlyOne(A) => OnlyOne(B))

LEMMA NotMoved ==
  ASSUME NEW r, NEW P, NEW P2, NEW n, NEW H, NEW H2,
         Once(Left(r, P), n, H, SunkLate(r)), Left(r, P2) <=> Left(r, P),
         \A e \in Upstream : Unmoved(H[e], H2[e]),
         (\E e \in LateEdges : H[e] # {}) => (\E e \in LateEdges : H2[e] # {}) \/ SunkLate(r)',
         SunkLate(r) => SunkLate(r)'
  PROVE  Once(Left(r, P2), n, H2, SunkLate(r)')
<1> USE DEF Once, Unmoved
<1>1. \A e, f \in Upstream : H2[e] # {} /\ H2[f] # {} => e = f
  OBVIOUS
<1>2. Left(r, P2) \/ n = 1 => \A e \in Upstream : H2[e] = {}
  OBVIOUS
<1>3. Left(r, P2) \/ n = 1 \/ (\E e \in Upstream \cup LateEdges : H2[e] # {}) \/ SunkLate(r)'
  OBVIOUS
<1> QED BY <1>1, <1>2, <1>3

\* It goes from one edge to the next, to the late stream, or into the fold.
LEMMA Moved ==
  ASSUME NEW r, NEW P, NEW P2, NEW n, NEW n2, NEW H, NEW H2,
         Once(Left(r, P), n, H, SunkLate(r)), Left(r, P2) <=> Left(r, P),
         NEW e \in Upstream, H[e] # {}, H2[e] = {},
         \/ /\ n2 = n
            /\ \E g \in Upstream :
                 /\ g # e /\ H2[g] # {} /\ (H[g] = {} => OnlyOne(H2[g]))
                 /\ \A f \in Upstream \ {e, g} : Unmoved(H[f], H2[f])
         \/ /\ n2 = n /\ \E g \in LateEdges : H2[g] # {}
            /\ \A f \in Upstream \ {e} : Unmoved(H[f], H2[f])
         \/ /\ n2 = n + 1
            /\ \A f \in Upstream \ {e} : Unmoved(H[f], H2[f])
  PROVE  Once(Left(r, P2), n2, H2, SunkLate(r)')
<1>1. /\ ~Left(r, P2) /\ n = 0
      /\ \A f \in Upstream \ {e} : H[f] = {}
  BY DEF Once
<1>2. OnlyOne(H2[e]) /\ \A f \in Upstream : Unmoved(H[f], H2[f]) /\ H[f] = {} => H2[f] = {} /\ OnlyOne(H2[f])
  BY DEF Unmoved, OnlyOne
<1>3. ASSUME n2 = n,
             NEW g \in Upstream, g # e, H2[g] # {}, H[g] = {} => OnlyOne(H2[g]),
             \A f \in Upstream \ {e, g} : Unmoved(H[f], H2[f])
      PROVE  Once(Left(r, P2), n2, H2, SunkLate(r)')
  <2>1. \A f \in Upstream \ {g} : H2[f] = {} /\ OnlyOne(H2[f])
    BY <1>1, <1>2, <1>3
  <2>2. OnlyOne(H2[g])
    BY <1>1, <1>3
  <2>3. n2 = 0
    BY <1>1, <1>3
  <2>4. g \in Upstream \cup LateEdges /\ H2[g] # {}
    BY <1>3
  <2>5. \A d, f \in Upstream : H2[d] # {} /\ H2[f] # {} => d = f
    BY <2>1
  <2>6. \A d \in Upstream : OnlyOne(H2[d])
    BY <2>1, <2>2
  <2> QED BY <1>1, <2>3, <2>4, <2>5, <2>6 DEF Once
<1>4. ASSUME \A f \in Upstream \ {e} : Unmoved(H[f], H2[f])
      PROVE  \A f \in Upstream : H2[f] = {} /\ OnlyOne(H2[f])
  BY <1>1, <1>2, <1>4
<1>5. ASSUME n2 = n, NEW g \in LateEdges, H2[g] # {}, \A f \in Upstream \ {e} : Unmoved(H[f], H2[f])
      PROVE  Once(Left(r, P2), n2, H2, SunkLate(r)')
  <2>1. n2 = 0 /\ g \in Upstream \cup LateEdges
    BY <1>1, <1>5
  <2>2. \A f \in Upstream : H2[f] = {} /\ OnlyOne(H2[f])
    BY <1>4, <1>5
  <2> QED BY <1>1, <1>5, <2>1, <2>2 DEF Once
<1>6. ASSUME n2 = n + 1, \A f \in Upstream \ {e} : Unmoved(H[f], H2[f])
      PROVE  Once(Left(r, P2), n2, H2, SunkLate(r)')
  <2>1. n2 = 1
    BY <1>1, <1>6
  <2>2. \A f \in Upstream : H2[f] = {} /\ OnlyOne(H2[f])
    BY <1>4, <1>6
  <2> QED BY <1>1, <2>1, <2>2 DEF Once
<1> QED BY <1>3, <1>5, <1>6

\* A source reads it and sends it on its way.
LEMMA MovedIn ==
  ASSUME NEW r, NEW P, NEW P2, NEW n, NEW H, NEW H2,
         Once(Left(r, P), n, H, SunkLate(r)), Left(r, P), ~Left(r, P2),
         NEW g \in Upstream, H2[g] # {}, H[g] = {} => OnlyOne(H2[g]),
         \A f \in Upstream \ {g} : Unmoved(H[f], H2[f])
  PROVE  Once(Left(r, P2), n, H2, SunkLate(r)')
<1>1. n = 0 /\ \A f \in Upstream : H[f] = {}
  BY DEF Once
<1>2. \A f \in Upstream \ {g} : H2[f] = {} /\ OnlyOne(H2[f])
  BY <1>1 DEF Unmoved, OnlyOne
<1>3. OnlyOne(H2[g])
  BY <1>1
<1>4. \A d, f \in Upstream : H2[d] # {} /\ H2[f] # {} => d = f
  BY <1>2
<1>5. \A d \in Upstream : OnlyOne(H2[d])
  BY <1>2, <1>3
<1>6. g \in Upstream \cup LateEdges
  OBVIOUS
<1> QED BY <1>1, <1>4, <1>5, <1>6 DEF Once

\* Where the record is that a step moves, and to whom it goes.
LEMMA SentOnlyByOutputs ==
  ASSUME NEW op \in Ops, NEW e, NEW outs, SentTo(op, e, outs)
  PROVE  IsOutput(e, op) /\ e \in Edges
<1>1. IsOutput(e, op)
  BY DEF SentTo, Flags, IsOutput, IsInput
<1> QED BY <1>1, EdgesOfOperators, GraphTypes

LEMMA LateIsApart == Upstream \cap LateEdges = {} /\ Upstream \subseteq Edges /\ LateEdges \subseteq Edges
<1>1. ASSUME NEW e \in Upstream, e \in LateEdges PROVE FALSE
  <2>1. PICK c \in Ops : IsInput(e, Inputs[c]) /\ BeforeFold[c]
    BY DEF Upstream
  <2> QED BY <1>1, <2>1, EdgesByReceiver
<1> QED BY <1>1 DEF Upstream, LateEdges

\* An operator on the way to the fold sends a record over the one edge that leads
\* there, or it is late.
LEMMA OnItsWay ==
  ASSUME OnePathToFold, NEW op \in Ops, BeforeFold[op], op # Fold, NEW m \in Message, m.kind = "Data", NEW outs,
         Kind[op] = "split" => outs = <<m>>
  PROVE  \/ \E g \in Upstream : /\ SentTo(op, g, outs)
                                /\ \A f \in Upstream \ {g} : ~SentTo(op, f, outs)
         \/ (\E g \in LateEdges : SentTo(op, g, outs)) /\ \A f \in Upstream : ~SentTo(op, f, outs)
<1>1. PICK i \in DOMAIN Outputs[op] : Outputs[op][i] \in Upstream
  BY WayToFold
<1>2. IsOutput(Outputs[op][i], op)
  BY DEF IsOutput, IsInput
<1>3. \A f \in Upstream \ {Outputs[op][i]} : ~SentTo(op, f, outs)
  BY <1>1, <1>2, WayToFold, SentOnlyByOutputs
<1>4. CASE Kind[op] # "split"
  <2>1. SentTo(op, Outputs[op][i], outs)
    BY <1>2, <1>4, SendsToAll
  <2> QED BY <1>1, <1>3, <2>1
<1>5. CASE Kind[op] = "split"
  <2>1. outs = <<m>> /\ m.late \in BOOLEAN
    BY <1>5, MessageKinds
  <2>2. 2 \in DOMAIN Outputs[op] /\ Outputs[op][2] \in LateEdges
    BY <1>5 DEF OnePathToFold
  <2>3. \A j \in DOMAIN Outputs[op] : j \in Flags(op, outs) <=> ((j = 2) = m.late)
    BY <1>5, <2>1, SplitSends
  <2>4. CASE m.late
    <3>1. 2 \in Flags(op, outs) /\ \A j \in Flags(op, outs) : j = 2
      <4>1. Flags(op, outs) \subseteq DOMAIN Outputs[op]
        BY DEF Flags
      <4> QED BY <2>2, <2>3, <2>4, <4>1
    <3>2. SentTo(op, Outputs[op][2], outs)
      BY <3>1 DEF SentTo
    <3>3. \A f \in Upstream : ~SentTo(op, f, outs)
      BY <2>2, <3>1, LateIsApart DEF SentTo
    <3> QED BY <2>2, <3>2, <3>3
  <2>5. CASE ~m.late
    <3>1. i # 2
      BY <1>1, <2>2, LateIsApart
    <3>2. i \in Flags(op, outs)
      BY <2>1, <2>3, <2>5, <3>1
    <3>3. SentTo(op, Outputs[op][i], outs)
      BY <3>2 DEF SentTo
    <3> QED BY <1>1, <1>3, <3>3
  <2> QED BY <2>1, <2>4, <2>5
<1> QED BY <1>4, <1>5

\* The positions of the sources tell what is left to read.
LEMMA SamePositions ==
  ASSUME NEW r, NEW P, NEW P2, \A o \in Sources : P2[o] = P[o]
  PROVE  Left(r, P2) <=> Left(r, P)
  BY DEF Left

LEMMA NextPosition ==
  ASSUME OnePathToFold, NEW r \in Records, NEW P, NEW P2, NEW op \in Sources, NEW pos \in DOMAIN Feed[op],
         P[op] \in Nat, pos = P[op] + 1, P2[op] = pos, \A o \in Sources \ {op} : P2[o] = P[o]
  PROVE  /\ Feed[op][pos] # r => (Left(r, P2) <=> Left(r, P))
         /\ Feed[op][pos] = r => Left(r, P) /\ ~Left(r, P2) /\ BeforeFold[op]
<1>0. \A o \in Sources : \A i \in DOMAIN Feed[o] : i \in Nat
  BY GraphAssumption
<1>1. ASSUME Feed[op][pos] # r PROVE Left(r, P2) <=> Left(r, P)
  <2>1. \A i \in DOMAIN Feed[op] : Feed[op][i] = r => (i > P2[op] <=> i > P[op])
    BY <1>0, <1>1
  <2> QED BY <2>1 DEF Left
<1>2. ASSUME Feed[op][pos] = r PROVE Left(r, P) /\ ~Left(r, P2) /\ BeforeFold[op]
  <2>1. \A o \in Sources : \A i \in DOMAIN Feed[o] : Feed[o][i] = r => o = op /\ i = pos
    BY <1>2 DEF OnePathToFold
  <2>2. BeforeFold[op]
    BY <2>1 DEF OnePathToFold
  <2>3. pos > P[op] /\ ~(pos > P2[op])
    BY <1>0
  <2> QED BY <1>2, <2>1, <2>2, <2>3 DEF Left
<1> QED BY <1>1, <1>2

LEMMA StepCounts ==
  ASSUME Types, Stamped, OnePathToFold, LateStreamKept, NEW op \in Ops,
         NEW T, NEW m \in Message \cup {None}, NEW outs, NEW s, NEW newSt, Summary(op, T, m, outs, s, newSt),
         NEW D, NEW k, Cutting(D, k), IsKind(m, k) => op \notin D, NEW D2, D2 = Passing(D, op, m, k),
         NEW r \in Records, Once(Left(r, CutPos(D)), CutFold(D)[r], Held(D, k, r), SunkLate(r))
  PROVE  Once(Left(r, CutPos(D2)'), CutFold(D2)'[r], Held(D2, k, r)', SunkLate(r)')
<1>0. ViewMoves(op, D, newSt, CutPos(D), CutPos(D2)', CutFold(D), CutFold(D2)')
  BY ViewStep
<1> DEFINE P == CutPos(D)
           P2 == CutPos(D2)'
           n == CutFold(D)[r]
           n2 == CutFold(D2)'[r]
           H == Held(D, k, r)
           H2 == Held(D2, k, r)'
<1>1. /\ Queues /\ Reception(op, T, m, upEpoch') /\ MovesMessages(op, T, outs) /\ OutShape(op, m, outs, newSt)
      /\ \A o \in Ops : StType(o, st[o])
  BY StTypes DEF Summary, Types, TypeOK, Queues
<1>2. \A e \in Edges : EdgeEffect(op \in D, op \notin D /\ e \in T /\ Received(m, r),
                    op \notin D /\ SentTo(op, e, outs) /\ SendsCopy(outs, r), SendsOneCopy(outs, r), H[e], H2[e])
  <2> SUFFICES ASSUME NEW e \in Edges
               PROVE  EdgeEffect(op \in D, op \notin D /\ e \in T /\ Received(m, r),
                        op \notin D /\ SentTo(op, e, outs) /\ SendsCopy(outs, r), SendsOneCopy(outs, r), H[e], H2[e])
    OBVIOUS
  <2>1. H[e] = Carries(D, k, r, e) /\ H2[e] = Carries(D2, k, r, e)'
    BY DEF Held
  <2>2. EdgeEffect(op \in D, op \notin D /\ e \in T /\ Received(m, r),
                    op \notin D /\ SentTo(op, e, outs) /\ SendsCopy(outs, r), SendsOneCopy(outs, r),
                    Carries(D, k, r, e), Carries(D2, k, r, e)')
    BY <1>1, EdgeCounts
  <2> HIDE DEF H, H2
  <2> QED BY <2>1, <2>2
<1>3. /\ \A o \in Sources : P2[o] = IF o = op /\ op \notin D THEN newSt.pos ELSE P[o]
      /\ op \in Sources \ D => P[op] = st[op].pos
      /\ n2 = IF op = Fold /\ op \notin D THEN newSt[r] ELSE n
      /\ Fold \notin D => n = st[Fold][r]
  BY <1>0 DEF ViewMoves
<1>4. (SunkLate(r) => SunkLate(r)') /\ (op \in LateSinks /\ Received(m, r) => SunkLate(r)')
  <2>1. sunk' = IF op \in Sinks /\ IsKind(m, "Data") THEN [sunk EXCEPT ![op] = @ \cup {m.id}] ELSE sunk
    BY DEF Summary, MovesOperator
  <2>2. sunk \in [Sinks -> SUBSET Records] /\ LateSinks \subseteq Sinks
    BY DEF Types, TypeOK, LateSinks
  <2>3. \A o \in Sinks : sunk[o] \subseteq sunk'[o]
    BY <2>1, <2>2
  <2>4. op \in Sinks /\ Received(m, r) => r \in sunk'[op]
    BY <2>1, <2>2 DEF Received
  <2> QED BY <2>2, <2>3, <2>4 DEF SunkLate
<1>5. Once(Left(r, P), n, H, SunkLate(r)) /\ Upstream \subseteq Edges /\ LateEdges \subseteq Edges
  BY LateIsApart
<1>6. Fold \in Ops /\ Kind[Fold] = "stateful_map"
  BY FoldIsMap
<1> HIDE DEF P, P2, n, n2, H, H2
<1>7. ASSUME \A e \in Edges : Unmoved(H[e], H2[e]), Left(r, P2) <=> Left(r, P), n2 = n
      PROVE  Once(Left(r, P2), n2, H2, SunkLate(r)')
  <2>1. (\E e \in LateEdges : H[e] # {}) => (\E e \in LateEdges : H2[e] # {})
    BY <1>5, <1>7 DEF Unmoved
  <2>2. \A e \in Upstream : Unmoved(H[e], H2[e])
    BY <1>5, <1>7
  <2> QED BY <1>4, <1>5, <1>7, <2>1, <2>2, NotMoved
<1>8. CASE op \in D
  <2>1. \A e \in Edges : Unmoved(H[e], H2[e])
    BY <1>2, <1>8 DEF EdgeEffect, Unmoved
  <2>2. Left(r, P2) <=> Left(r, P)
    BY <1>3, <1>8, SamePositions
  <2> QED BY <1>3, <1>7, <1>8, <2>1, <2>2 DEF P2, n2, H2
<1>9. CASE op \notin D /\ op \in Sources
  <2>1. ~Received(m, r) /\ Reads(op, outs, newSt.pos) /\ Kind[op] = "source"
    BY <1>9 DEF Summary, Received, IsKind, IsMarker, MarkerKinds, Sources
  <2>2. n2 = n
    BY <1>3, <1>6, <2>1
  <2>3. ASSUME ~SendsCopy(outs, r) PROVE \A e \in Edges : Unmoved(H[e], H2[e])
    BY <1>2, <2>1, <2>3 DEF EdgeEffect, Unmoved
  <2>4. CASE newSt.pos = st[op].pos
    <3>1. ~SendsCopy(outs, r)
      BY <2>1, <2>4 DEF Reads, SendsCopy, IsCopy
    <3>2. Left(r, P2) <=> Left(r, P)
      BY <1>3, <1>9, <2>4, SamePositions
    <3> QED BY <1>7, <2>2, <2>3, <3>1, <3>2 DEF P2, n2, H2
  <2>5. CASE newSt.pos # st[op].pos
    <3> DEFINE pos == newSt.pos
    <3>1. /\ pos = P[op] + 1 /\ pos \in DOMAIN Feed[op] /\ P[op] \in Nat /\ P2[op] = pos
          /\ \A o \in Sources \ {op} : P2[o] = P[o]
      BY <1>1, <1>3, <1>9, <2>1, <2>5 DEF Reads, StType
    <3>2. PICK i \in DOMAIN outs :
            /\ outs[i].kind = "Data" /\ outs[i].id = Feed[op][pos]
            /\ \A j \in DOMAIN outs : outs[j].kind = "Data" => i = j
      BY <2>1, <2>5 DEF Reads
    <3> HIDE DEF pos
    <3>3. /\ Feed[op][pos] # r => (Left(r, P2) <=> Left(r, P))
          /\ Feed[op][pos] = r => Left(r, P) /\ ~Left(r, P2) /\ BeforeFold[op]
      BY <1>9, <3>1, NextPosition
    <3>4. CASE Feed[op][pos] # r
      <4>1. ~SendsCopy(outs, r)
        BY <3>2, <3>4 DEF SendsCopy, IsCopy
      <4> QED BY <1>7, <2>2, <2>3, <3>3, <3>4, <4>1 DEF P2, n2, H2
    <3>5. CASE Feed[op][pos] = r
      <4>1. SendsCopy(outs, r) /\ SendsOneCopy(outs, r)
        BY <3>2, <3>5 DEF SendsCopy, SendsOneCopy, IsCopy
      <4>2. PICK g \in Upstream : SentTo(op, g, outs) /\ \A f \in Upstream \ {g} : ~SentTo(op, f, outs)
        <5>1. op # Fold /\ Kind[op] # "split"
          BY <1>6, <2>1
        <5>2. PICK i0 \in DOMAIN Outputs[op] : Outputs[op][i0] \in Upstream
          BY <3>3, <3>5, <5>1, WayToFold
        <5>3. SentTo(op, Outputs[op][i0], outs)
          BY <5>1, SendsToAll DEF IsOutput, IsInput
        <5>4. \A f \in Upstream : SentTo(op, f, outs) => f = Outputs[op][i0]
          BY <3>3, <3>5, <5>1, <5>2, <5>3, WayToFold, SentOnlyByOutputs
        <5> QED BY <5>2, <5>3, <5>4
      <4>3. H2[g] # {} /\ (H[g] = {} => OnlyOne(H2[g]))
        BY <1>2, <1>5, <1>9, <4>1, <4>2 DEF EdgeEffect
      <4>4. \A f \in Upstream \ {g} : Unmoved(H[f], H2[f])
        BY <1>2, <1>5, <2>1, <4>2 DEF EdgeEffect, Unmoved
      <4>5. Once(Left(r, P2), n, H2, SunkLate(r)')
        BY <1>5, <3>3, <3>5, <4>3, <4>4, MovedIn
      <4> QED BY <2>2, <4>5 DEF P2, n2, H2
    <3> QED BY <3>4, <3>5
  <2> QED BY <2>4, <2>5
<1>10. CASE op \notin D /\ op \notin Sources
  <2>1. Left(r, P2) <=> Left(r, P)
    BY <1>3, <1>10, SamePositions
  <2>2. /\ ~Received(m, r) => ~SendsCopy(outs, r)
        /\ Received(m, r) =>
             /\ Kind[op] \notin {"filter", "sink"} => SendsCopy(outs, r)
             /\ Kind[op] \notin {"filter", "sink", "flatten"} => SendsOneCopy(outs, r)
             /\ Kind[op] = "split" => outs = <<m>>
        /\ Kind[op] = "stateful_map" =>
             newSt = IF IsKind(m, "Data") THEN [st[op] EXCEPT ![m.id] = @ + 1] ELSE st[op]
    BY <1>10, StepAnswers
  <2>3. op = Fold => newSt[r] = IF Received(m, r) THEN st[op][r] + 1 ELSE st[op][r]
    <3> SUFFICES ASSUME op = Fold PROVE newSt[r] = IF Received(m, r) THEN st[op][r] + 1 ELSE st[op][r]
      OBVIOUS
    <3>1. st[op] \in [Records -> Nat]
      BY <1>1, <1>6 DEF StType
    <3> QED BY <1>6, <2>2, <3>1 DEF Received
  <2>4. n2 = IF op = Fold /\ Received(m, r) THEN n + 1 ELSE n
    BY <1>3, <1>10, <2>3
  <2>5. CASE ~Received(m, r)
    <3>1. \A e \in Edges : Unmoved(H[e], H2[e])
      BY <1>2, <2>2, <2>5 DEF EdgeEffect, Unmoved
    <3> QED BY <1>7, <2>1, <2>4, <2>5, <3>1 DEF P2, n2, H2
  <2>6. CASE Received(m, r)
    <3>1. PICK e \in T : T = {e} /\ e \in Edges /\ IsInput(e, Inputs[op])
      <4>1. IsKind(m, "Data") /\ Queues /\ Reception(op, T, m, upEpoch')
        BY <1>1, <2>6 DEF Received
      <4>2. /\ \E e \in T : T = {e}
            /\ \A e \in T : e \in Edges /\ IsInput(e, Inputs[op])
        BY <4>1, HeadsTaken
      <4> QED BY <4>2
    <3>2. m \in Message /\ m.kind = "Data"
      BY <2>6 DEF Received, IsKind
    <3>3. H[e] # {} /\ (OnlyOne(H[e]) => H2[e] = {})
      BY <1>2, <1>10, <2>6, <3>1 DEF EdgeEffect
    <3>4. \A f \in Edges \ {e} : ~SentTo(op, f, outs) => Unmoved(H[f], H2[f])
      BY <1>2, <3>1 DEF EdgeEffect, Unmoved
    <3>5. \A f \in Edges : SentTo(op, f, outs) /\ SendsCopy(outs, r) =>
            /\ f # e /\ H2[f] # {}
            /\ SendsOneCopy(outs, r) /\ H[f] = {} => OnlyOne(H2[f])
      <4>1. \A f : SentTo(op, f, outs) => f # e
        BY <3>1, SentOnlyByOutputs, EdgesOfOperators
      <4> QED BY <1>2, <1>10, <4>1 DEF EdgeEffect
    <3>6. CASE BeforeFold[op] /\ op # Fold
      <4>1. e \in Upstream /\ H2[e] = {} /\ n2 = n
        BY <1>5, <2>4, <3>1, <3>3, <3>6, EdgesByReceiver DEF Once
      <4>2. SendsCopy(outs, r) /\ SendsOneCopy(outs, r)
        <5>1. Kind[op] \notin {"filter", "flatten"}
          BY <3>6 DEF OnePathToFold
        <5>2. Kind[op] # "sink"
          <6>1. PICK i \in DOMAIN Outputs[op] : Outputs[op][i] \in Upstream
            BY <3>6, WayToFold
          <6>2. IsOutput(Outputs[op][i], op)
            BY DEF IsOutput, IsInput
          <6> QED BY <6>2, EdgesOfOperators
        <5> QED BY <2>2, <2>6, <5>1, <5>2
      <4>3. \/ \E g \in Upstream : SentTo(op, g, outs) /\ \A f \in Upstream \ {g} : ~SentTo(op, f, outs)
            \/ (\E g \in LateEdges : SentTo(op, g, outs)) /\ \A f \in Upstream : ~SentTo(op, f, outs)
        BY <2>2, <2>6, <3>2, <3>6, OnItsWay
      <4>4. ASSUME NEW g \in Upstream, SentTo(op, g, outs), \A f \in Upstream \ {g} : ~SentTo(op, f, outs)
            PROVE  Once(Left(r, P2), n2, H2, SunkLate(r)')
        <5>1. g # e /\ H2[g] # {} /\ (H[g] = {} => OnlyOne(H2[g]))
          BY <1>5, <3>5, <4>2, <4>4
        <5>2. \A f \in Upstream \ {e, g} : Unmoved(H[f], H2[f])
          BY <1>5, <3>4, <4>4
        <5> QED BY <1>5, <2>1, <3>3, <4>1, <5>1, <5>2, Moved
      <4>5. ASSUME NEW g \in LateEdges, SentTo(op, g, outs), \A f \in Upstream : ~SentTo(op, f, outs)
            PROVE  Once(Left(r, P2), n2, H2, SunkLate(r)')
        <5>1. H2[g] # {}
          BY <1>5, <3>5, <4>2, <4>5
        <5>2. \A f \in Upstream \ {e} : Unmoved(H[f], H2[f])
          BY <1>5, <3>4, <4>5
        <5> QED BY <1>5, <2>1, <3>3, <4>1, <5>1, <5>2, Moved
      <4> QED BY <4>3, <4>4, <4>5 DEF P2, n2, H2
    <3>7. CASE op = Fold
      <4>1. BeforeFold[op]
        BY <1>6, <3>7, BeforeFoldStep
      <4>2. e \in Upstream /\ H2[e] = {} /\ n2 = n + 1
        BY <1>5, <2>4, <2>6, <3>1, <3>3, <3>7, <4>1, EdgesByReceiver DEF Once
      <4>3. \A f \in Upstream \ {e} : Unmoved(H[f], H2[f])
        <5>1. \A f \in Upstream : ~SentTo(op, f, outs)
          BY <3>7, SentOnlyByOutputs, UpstreamSender
        <5> QED BY <1>5, <3>4, <5>1
      <4>4. Once(Left(r, P2), n2, H2, SunkLate(r)')
        BY <1>5, <2>1, <3>3, <4>2, <4>3, Moved
      <4> QED BY <4>4 DEF P2, n2, H2
    <3>8. CASE ~BeforeFold[op]
      <4>1. e \notin Upstream /\ op # Fold /\ n2 = n
        BY <1>6, <2>4, <3>1, <3>8, EdgesByReceiver, BeforeFoldStep
      <4>2. \A f \in Upstream : Unmoved(H[f], H2[f])
        <5>1. \A f \in Upstream : ~SentTo(op, f, outs)
          BY <3>8, SentOnlyByOutputs, UpstreamSender
        <5> QED BY <1>5, <3>4, <4>1, <5>1
      <4>3. ASSUME NEW d \in LateEdges, H[d] # {}
            PROVE  (\E f \in LateEdges : H2[f] # {}) \/ SunkLate(r)'
        <5>1. CASE d # e
          <6>1. H2[d] # {}
            BY <1>2, <1>5, <3>1, <4>3, <5>1 DEF EdgeEffect
          <6> QED BY <6>1
        <5>2. CASE d = e
          <6>1. ~AfterFold[op]
            BY <3>1, <4>3, <5>2, EdgesByReceiver
          <6>2. CASE Kind[op] = "sink"
            <7>1. op \in LateSinks
              BY <6>1, <6>2 DEF LateSinks, Sinks
            <7> QED BY <1>4, <2>6, <7>1
          <6>3. CASE Kind[op] # "sink"
            <7>1. Kind[op] # "source"
              BY <1>10 DEF Sources
            <7>2. Kind[op] \notin {"filter", "split"} /\ \E i \in DOMAIN Outputs[op] : Outputs[op][i] \in LateEdges
              BY <3>8, <6>1, <6>3, <7>1 DEF LateStreamKept
            <7>3. PICK i \in DOMAIN Outputs[op] : Outputs[op][i] \in LateEdges
              BY <7>2
            <7>4. SentTo(op, Outputs[op][i], outs)
              BY <7>2, SendsToAll DEF IsOutput, IsInput
            <7>5. SendsCopy(outs, r)
              BY <2>2, <2>6, <6>3, <7>2
            <7> QED BY <1>5, <3>5, <7>3, <7>4, <7>5
          <6> QED BY <6>2, <6>3
        <5> QED BY <5>1, <5>2
      <4>4. Once(Left(r, P2), n, H2, SunkLate(r)')
        BY <1>4, <1>5, <2>1, <4>2, <4>3, NotMoved
      <4> QED BY <4>1, <4>4 DEF P2, n2, H2
    <3> QED BY <3>6, <3>7, <3>8
  <2> QED BY <2>5, <2>6
<1> QED BY <1>8, <1>9, <1>10

LEMMA WaveCuts ==
  ASSUME NEW D \in SUBSET Ops, Wave(D)
  PROVE  Cutting(D, "AbsBarrier")
<1> SUFFICES ASSUME NEW p \in Ops, NEW c \in Ops, NEW e \in Edges, IsOutput(e, p), IsInput(e, Inputs[c])
             PROVE  /\ p \notin D => c \notin D /\ ~Marked(chan[e], "AbsBarrier")
                    /\ p \in D /\ c \notin D => Marked(chan[e], "AbsBarrier")
  BY DEF Cutting
<1>1. EdgeWave(D, p, c, chan[e]) /\ p # 0
  BY GraphTypes DEF Wave
<1> QED BY <1>1 DEF EdgeWave, Marked, IsBarrier

LEMMA PresentCuts ==
  ASSUME Queues
  PROVE  Cutting({}, "none")
<1>1. \A e \in Edges : ~Marked(chan[e], "none")
  BY MessageKinds DEF Queues, Marked, MarkerKinds
<1> QED BY <1>1 DEF Cutting

\* A record that was late stays so.
LEMMA SnapshotStays ==
  ASSUME NEW snap, OnceInSnapshot(snap), \A r \in Records : SunkLate(r) => SunkLate(r)'
  PROVE  \A r \in Records : Once(Left(r, snap), snap[Fold][r], [e \in Edges |-> {}], SunkLate(r)')
  BY DEF OnceInSnapshot, Once

LEMMA ViewCounts ==
  ASSUME Types, Stamped, OnePathToFold, LateStreamKept, NEW op \in Ops,
         NEW T, NEW m \in Message \cup {None}, NEW outs, NEW s, NEW newSt, Summary(op, T, m, outs, s, newSt),
         NEW D, NEW k, Cutting(D, k), IsKind(m, k) => op \notin D, NEW D2, D2 = Passing(D, op, m, k),
         OnceInView(D, k)
  PROVE  OnceInView(D2, k)'
<1>1. \A r \in Records : Once(Left(r, CutPos(D)), CutFold(D)[r], Held(D, k, r), SunkLate(r))
  BY DEF OnceInView
<1>2. \A r \in Records : Once(Left(r, CutPos(D2)'), CutFold(D2)'[r], Held(D2, k, r)', SunkLate(r)')
  BY <1>1, StepCounts, Zenon
<1> QED BY <1>2 DEF OnceInView

LEMMA OperatorCounts ==
  ASSUME IInv, Counted, OnePathToFold, LateStreamKept, NEW op \in Ops, OperatorStep(op)
  PROVE  Counted'
<1>1. TypeOK /\ Stamped /\ RootCarriesMarkers /\ SourcesEnd /\ Types /\ Queues /\ OwnMarkers
  BY DEF IInv, EndInv, Types, TypeOK, Queues
<1>2. PICK T \in SUBSET Edges, m \in Message \cup {None} : \E outs, s, newSt : Summary(op, T, m, outs, s, newSt)
  BY <1>1, StepSummary
<1>3. PICK outs, s, newSt : Summary(op, T, m, outs, s, newSt)
  BY <1>2
<1>4. /\ ctl' = ctl /\ uncommitted' = uncommitted /\ committed' = committed
      /\ saving' = IF Stateful(op) /\ IsKind(m, "AbsBarrier")
                   THEN [saving EXCEPT ![op] = Persisted(op, s)] ELSE saving
      /\ sunk' = IF op \in Sinks /\ IsKind(m, "Data") THEN [sunk EXCEPT ![op] = @ \cup {m.id}] ELSE sunk
  BY <1>3 DEF Summary, MovesOperator
<1>5. \A r : SunkLate(r) => SunkLate(r)'
  <2>1. sunk \in [Sinks -> SUBSET Records] /\ LateSinks \subseteq Sinks
    BY <1>1 DEF TypeOK, LateSinks
  <2>2. \A o \in Sinks : sunk[o] \subseteq sunk'[o]
    BY <1>4, <2>1
  <2> QED BY <2>1, <2>2 DEF SunkLate
<1>6. ~IsKind(m, "none") /\ (IsKind(m, "AbsBarrier") => ctl = "snapshot")
  BY <1>1, <1>3, HeadsTaken, BarrierReceived DEF Summary
<1>7. OnceInView({}, "none")'
  <2> DEFINE D == {}
  <2>1. D = Passing(D, op, m, "none") /\ (IsKind(m, "none") => op \notin D)
    BY <1>6 DEF Passing
  <2>2. Cutting(D, "none") /\ OnceInView(D, "none")
    BY <1>1, PresentCuts DEF Counted
  <2> HIDE DEF D
  <2>3. OnceInView(D, "none")'
    BY <1>1, <1>3, <2>1, <2>2, ViewCounts
  <2> QED BY <2>3 DEF D
<1>8. ctl = "snapshot" =>
        (\E D \in SUBSET Ops : Wave(D) /\ OnceInView(D, "AbsBarrier") /\ \A o \in Ops \ D : saving[o] = None)'
  <2> SUFFICES ASSUME ctl = "snapshot"
               PROVE  (\E D \in SUBSET Ops : Wave(D) /\ OnceInView(D, "AbsBarrier") /\ \A o \in Ops \ D : saving[o] = None)'
    OBVIOUS
  <2>1. PICK D \in SUBSET Ops : Wave(D) /\ OnceInView(D, "AbsBarrier") /\ \A o \in Ops \ D : saving[o] = None
    BY DEF Counted
  <2> DEFINE D2 == Passing(D, op, m, "AbsBarrier")
  <2>2. IF IsKind(m, "AbsBarrier") THEN op \notin D /\ Wave(D \cup {op})' ELSE Wave(D)'
    BY <1>1, <1>3, <2>1, WaveStep
  <2>3. D2 \in SUBSET Ops /\ D2 = Passing(D, op, m, "AbsBarrier") /\ (IsKind(m, "AbsBarrier") => op \notin D)
    BY <2>2 DEF Passing
  <2>4. Wave(D2)'
    BY <2>2 DEF Passing
  <2>5. Cutting(D, "AbsBarrier")
    BY <2>1, WaveCuts
  <2>6. \A o \in Ops \ D2 : saving'[o] = None
    BY <1>4, <2>1 DEF Passing
  <2> HIDE DEF D2
  <2>7. OnceInView(D2, "AbsBarrier")'
    BY <1>1, <1>3, <2>1, <2>3, <2>5, ViewCounts
  <2> QED BY <2>3, <2>4, <2>6, <2>7
<1>9. uncommitted => OnceInSnapshot(saving)'
  <2> SUFFICES ASSUME uncommitted PROVE OnceInSnapshot(saving)'
    OBVIOUS
  <2>1. saving' = saving
    BY <1>4, <1>6 DEF IInv, ReportedIsComplete
  <2>2. OnceInSnapshot(saving)
    BY DEF Counted
  <2>3. \A r \in Records : Once(Left(r, saving), saving[Fold][r], [e \in Edges |-> {}], SunkLate(r)')
    BY <1>5, <2>2, SnapshotStays
  <2> QED BY <2>1, <2>3 DEF OnceInSnapshot
<1>10. committed # None => OnceInSnapshot(committed)'
  <2> SUFFICES ASSUME committed # None PROVE OnceInSnapshot(committed)'
    OBVIOUS
  <2>1. OnceInSnapshot(committed)
    BY DEF Counted
  <2>2. \A r \in Records : Once(Left(r, committed), committed[Fold][r], [e \in Edges |-> {}], SunkLate(r)')
    BY <1>5, <2>1, SnapshotStays
  <2> QED BY <1>4, <2>2 DEF OnceInSnapshot
<1> QED BY <1>4, <1>7, <1>8, <1>9, <1>10 DEF Counted

----------------------------------------------------------------------------
(* The other actions.                                                      *)

\* What a view is made of has not changed.
LEMMA SameView ==
  ASSUME NEW D, NEW k, UNCHANGED <<chan, st, sunk>>, \A op \in D : saving'[op] = saving[op], OnceInView(D, k)
  PROVE  OnceInView(D, k)'
<1>1. CutPos(D)' = CutPos(D) /\ CutFold(D)' = CutFold(D)
  BY DEF CutPos, CutFold
<1>2. \A r : Held(D, k, r)' = Held(D, k, r)
  BY DEF Held, Carries, Beyond, Ahead, IsCopy, IsInput
<1>3. \A r : SunkLate(r)' <=> SunkLate(r)
  BY DEF SunkLate
<1>4. \A r \in Records : Once(Left(r, CutPos(D)), CutFold(D)[r], Held(D, k, r), SunkLate(r))
  BY DEF OnceInView
<1>5. \A r : Left(r, CutPos(D)') <=> Left(r, CutPos(D))
  BY <1>1
<1>6. \A r \in Records : Once(Left(r, CutPos(D)'), CutFold(D)'[r], Held(D, k, r)', SunkLate(r)')
  BY <1>1, <1>2, <1>3, <1>4, Zenon
<1> QED BY <1>6 DEF OnceInView

\* Nothing but the worker's loop has moved.
LEMMA LoopCounts ==
  ASSUME Counted, UNCHANGED <<ioVars, st, snapVars, sunk>>, ctl' = "snapshot" => ctl = "snapshot"
  PROVE  Counted'
<1>1. UNCHANGED <<chan, st, sunk>> /\ saving' = saving /\ uncommitted' = uncommitted /\ committed' = committed
  BY DEF ioVars, snapVars
<1>2. OnceInView({}, "none")'
  BY <1>1, SameView DEF Counted
<1>3. ASSUME ctl = "snapshot"
      PROVE  (\E D \in SUBSET Ops : Wave(D) /\ OnceInView(D, "AbsBarrier") /\ \A op \in Ops \ D : saving[op] = None)'
  <2>1. PICK D \in SUBSET Ops : Wave(D) /\ OnceInView(D, "AbsBarrier") /\ \A op \in Ops \ D : saving[op] = None
    BY <1>3 DEF Counted
  <2>2. Wave(D)'
    BY <1>1, <2>1 DEF Wave
  <2>3. OnceInView(D, "AbsBarrier")'
    BY <1>1, <2>1, SameView
  <2> QED BY <1>1, <2>1, <2>2, <2>3
<1>4. uncommitted => OnceInSnapshot(saving)'
  <2>1. uncommitted => OnceInSnapshot(saving)
    BY DEF Counted
  <2>2. \A r \in Records : SunkLate(r) => SunkLate(r)'
    BY <1>1 DEF SunkLate
  <2>3. uncommitted => \A r \in Records : Once(Left(r, saving), saving[Fold][r], [e \in Edges |-> {}], SunkLate(r)')
    BY <2>1, <2>2, SnapshotStays
  <2> QED BY <1>1, <2>3 DEF OnceInSnapshot
<1>5. committed # None => OnceInSnapshot(committed)'
  <2>1. committed # None => OnceInSnapshot(committed)
    BY DEF Counted
  <2>2. \A r \in Records : SunkLate(r) => SunkLate(r)'
    BY <1>1 DEF SunkLate
  <2>3. committed # None => \A r \in Records : Once(Left(r, committed), committed[Fold][r], [e \in Edges |-> {}], SunkLate(r)')
    BY <2>1, <2>2, SnapshotStays
  <2> QED BY <1>1, <2>3 DEF OnceInSnapshot
<1> QED BY <1>1, <1>2, <1>3, <1>4, <1>5 DEF Counted

\* The barrier has passed everybody and no message is left in the view: the
\* snapshot is what the operators persisted.
LEMMA MarkerDoneCounts ==
  ASSUME IInv, Counted, OnePathToFold, MarkerDone
  PROVE  Counted'
<1>1. /\ ctl \in DOMAIN Markers /\ ~InFlight(chan, Markers[ctl]) /\ ctl' \in {"suspended", "execute"}
      /\ uncommitted' = (ctl = "snapshot")
      /\ UNCHANGED <<chan, st, sunk>> /\ saving' = saving /\ committed' = committed
  BY DEF MarkerDone, ioVars
<1>2. OnceInView({}, "none")'
  BY <1>1, SameView DEF Counted
<1>3. \A r \in Records : SunkLate(r) => SunkLate(r)'
  BY <1>1 DEF SunkLate
<1>4. ASSUME ctl = "snapshot" PROVE OnceInSnapshot(saving)
  <2>1. PICK D \in SUBSET Ops : Wave(D) /\ OnceInView(D, "AbsBarrier")
    BY <1>4 DEF Counted
  <2>2. \A e \in Edges : \A i \in DOMAIN chan[e] : ~IsBarrier(chan[e][i])
    <3>1. chan \in [Edges -> Seq(Message)]
      BY DEF IInv, Types, TypeOK
    <3> QED BY <1>1, <1>4, <3>1 DEF InFlight, Markers, IsBarrier
  <2>3. D = Ops
    BY <2>1, <2>2, WaveOver
  <2>4. CutFold(D) = saving[Fold]
    BY <2>3, FoldIsMap DEF CutFold
  <2>5. \A op \in Sources : CutPos(D)[op] = saving[op]
    BY <2>3 DEF CutPos, Sources
  <2>6. \A r : Held(D, "AbsBarrier", r) = [e \in Edges |-> {}]
    <3>1. \A e \in Edges : Beyond(D, e)
      BY <2>3, EdgeEnds DEF Beyond
    <3> QED BY <3>1 DEF Held, Carries
  <2> QED BY <2>1, <2>4, <2>5, <2>6 DEF OnceInView, OnceInSnapshot, Left
<1>5. uncommitted' => OnceInSnapshot(saving)'
  <2>1. ctl = "snapshot" =>
          \A r \in Records : Once(Left(r, saving), saving[Fold][r], [e \in Edges |-> {}], SunkLate(r)')
    BY <1>3, <1>4, SnapshotStays
  <2> QED BY <1>1, <2>1 DEF OnceInSnapshot
<1>6. committed # None => OnceInSnapshot(committed)'
  <2>1. committed # None =>
          \A r \in Records : Once(Left(r, committed), committed[Fold][r], [e \in Edges |-> {}], SunkLate(r)')
    BY <1>3, SnapshotStays DEF Counted
  <2> QED BY <1>1, <2>1 DEF OnceInSnapshot
<1> QED BY <1>1, <1>2, <1>5, <1>6 DEF Counted

LEMMA CommitCounts ==
  ASSUME IInv, Counted, CommitSnapshot
  PROVE  Counted'
<1>1. /\ uncommitted /\ committed' = saving /\ uncommitted' = FALSE /\ ctl' = ctl /\ saving' = saving
      /\ UNCHANGED <<chan, st, sunk>>
  BY DEF CommitSnapshot, ioVars, execVars
<1>2. ctl # "snapshot"
  BY <1>1 DEF IInv, ReportedIsComplete
<1>3. OnceInView({}, "none")'
  BY <1>1, SameView DEF Counted
<1>4. \A r \in Records : SunkLate(r) => SunkLate(r)'
  BY <1>1 DEF SunkLate
<1>5. OnceInSnapshot(committed)'
  <2>1. \A r \in Records : Once(Left(r, saving), saving[Fold][r], [e \in Edges |-> {}], SunkLate(r)')
    BY <1>1, <1>4, SnapshotStays DEF Counted
  <2> QED BY <1>1, <2>1 DEF OnceInSnapshot
<1> QED BY <1>1, <1>2, <1>3, <1>5 DEF Counted

\* With the marker no record enters the graph, and it is in front of nothing.
LEMMA SendMarkerCounts ==
  ASSUME IInv, Counted, NEW what \in DOMAIN Markers, SendMarker(what)
  PROVE  Counted'
<1>1. /\ ctl' = what /\ ~uncommitted /\ uncommitted' = uncommitted /\ committed' = committed
      /\ st' = st /\ sunk' = sunk /\ saving' = [op \in Ops |-> None]
  BY DEF SendMarker
<1>2. /\ \A e \in Edges : \A i \in DOMAIN chan[e] : ~IsMarker(chan[e][i])
      /\ \A e \in Edges : IsOutput(e, 0) =>
           DOMAIN chan[e] = {} /\ DOMAIN chan'[e] = {1} /\ chan'[e][1].kind \in MarkerKinds
      /\ \A e \in Edges : ~IsOutput(e, 0) => chan'[e] = chan[e]
  <2>1. \A x \in DOMAIN Markers : Marker(Markers[x]).kind \in MarkerKinds
    BY DEF Marker, Markers, MarkerKinds
  <2> QED BY <2>1, MarkerSent
<1>3. ASSUME NEW k, k \in {"none", "AbsBarrier"}, NEW e \in Edges, NEW r
      PROVE  Ahead(chan'[e], r, k) = Ahead(chan[e], r, "none")
  <2>1. CASE IsOutput(e, 0)
    <3>1. \A i \in DOMAIN chan'[e] : chan'[e][i].kind # "Data"
      BY <1>2, <2>1 DEF MarkerKinds
    <3> QED BY <1>2, <2>1, <3>1 DEF Ahead, IsCopy
  <2>2. CASE ~IsOutput(e, 0)
    <3>1. \A i \in DOMAIN chan[e] : chan[e][i].kind \notin {"none", "AbsBarrier"}
      <4>1. chan[e] \in Seq(Message)
        BY DEF IInv, Types, TypeOK
      <4>2. \A i \in DOMAIN chan[e] : chan[e][i].kind # "none"
        BY <4>1, MessageKinds DEF MarkerKinds
      <4> QED BY <1>2, <4>2 DEF IsMarker, MarkerKinds
    <3> QED BY <1>2, <1>3, <2>2, <3>1 DEF Ahead
  <2> QED BY <2>1, <2>2
<1>4. \A k \in {"none", "AbsBarrier"} : \A r : Held({}, k, r)' = Held({}, "none", r)
  BY <1>3 DEF Held, Carries, Beyond
<1>5. CutPos({})' = CutPos({}) /\ CutFold({})' = CutFold({}) /\ \A r : SunkLate(r)' <=> SunkLate(r)
  BY <1>1 DEF CutPos, CutFold, SunkLate
<1>6. \A k \in {"none", "AbsBarrier"} : OnceInView({}, k)'
  <2> SUFFICES ASSUME NEW k \in {"none", "AbsBarrier"}, NEW r \in Records
               PROVE  Once(Left(r, CutPos({})'), CutFold({})'[r], Held({}, k, r)', SunkLate(r)')
    BY DEF OnceInView
  <2>1. Once(Left(r, CutPos({})), CutFold({})[r], Held({}, "none", r), SunkLate(r))
    BY DEF Counted, OnceInView
  <2>2. Left(r, CutPos({})') <=> Left(r, CutPos({}))
    BY <1>5
  <2>3. Held({}, k, r)' = Held({}, "none", r)
    BY <1>4
  <2> QED BY <1>5, <2>1, <2>2, <2>3, Zenon
<1>7. what = "snapshot" =>
        (\E D \in SUBSET Ops : Wave(D) /\ OnceInView(D, "AbsBarrier") /\ \A op \in Ops \ D : saving[op] = None)'
  <2>1. what = "snapshot" => Wave({})'
    BY BarrierSent
  <2> QED BY <1>1, <1>6, <2>1
<1>8. committed # None => OnceInSnapshot(committed)'
  <2>1. committed # None =>
          \A r \in Records : Once(Left(r, committed), committed[Fold][r], [e \in Edges |-> {}], SunkLate(r)')
    BY <1>5, SnapshotStays DEF Counted
  <2> QED BY <1>1, <2>1 DEF OnceInSnapshot
<1> QED BY <1>1, <1>6, <1>7, <1>8 DEF Counted

\* At the start every record is still to be read.
LEMMA NothingRead ==
  ASSUME OnePathToFold, NEW r \in Records, NEW P, \A op \in Sources : P[op] = 0, NEW late
  PROVE  Once(Left(r, P), 0, [e \in Edges |-> {}], late)
<1>1. Left(r, P)
  <2>1. PICK op \in Sources : \E i \in DOMAIN Feed[op] : Feed[op][i] = r
    BY DEF OnePathToFold
  <2>2. PICK i \in DOMAIN Feed[op] : Feed[op][i] = r
    BY <2>1
  <2>3. i > P[op]
    BY GraphAssumption
  <2> QED BY <2>2, <2>3 DEF Left
<1>2. Upstream \subseteq Edges /\ LateEdges \subseteq Edges
  BY LateIsApart
<1>3. \A e \in Edges : [f \in Edges |-> {}][e] = {}
  OBVIOUS
<1> QED BY <1>1, <1>2, <1>3 DEF Once, OnlyOne

\* Empty queues hold nothing.
LEMMA NothingHeld ==
  ASSUME NEW chans, chans = Unbounded(Edges), NEW k, NEW r
  PROVE  [e \in Edges |-> IF Beyond({}, e) THEN {} ELSE Ahead(chans[e], r, k)] = [e \in Edges |-> {}]
<1>1. \A e \in Edges : DOMAIN chans[e] = {}
  BY DEF Unbounded
<1> QED BY <1>1 DEF Ahead

LEMMA InitCounts ==
  ASSUME OnePathToFold, Init
  PROVE  Counted
<1>1. /\ chan = Unbounded(Edges) /\ ctl = "execute" /\ uncommitted = FALSE /\ committed = None
      /\ st = [op \in Ops |-> Fresh(op)]
  BY DEF Init
<1>2. \A op \in Sources : CutPos({})[op] = 0
  BY <1>1 DEF CutPos, Sources, Fresh
<1>3. CutFold({}) = [r \in Records |-> 0]
  BY <1>1, FoldIsMap DEF CutFold, Fresh
<1>4. \A r : Held({}, "none", r) = [e \in Edges |-> {}]
  BY <1>1, NothingHeld DEF Held, Carries
<1>5. OnceInView({}, "none")
  <2> SUFFICES ASSUME NEW r \in Records
               PROVE  Once(Left(r, CutPos({})), CutFold({})[r], Held({}, "none", r), SunkLate(r))
    BY DEF OnceInView
  <2>1. CutFold({})[r] = 0 /\ Held({}, "none", r) = [e \in Edges |-> {}]
    BY <1>3, <1>4
  <2>2. Once(Left(r, CutPos({})), 0, [e \in Edges |-> {}], SunkLate(r))
    BY <1>2, NothingRead
  <2> QED BY <2>1, <2>2
<1> QED BY <1>1, <1>5 DEF Counted

\* What is read again is what the committed snapshot had not counted.
LEMMA RestartCounts ==
  ASSUME IInv, Counted, OnePathToFold, Restart
  PROVE  Counted'
<1> DEFINE new(op) == IF committed = None \/ ~Stateful(op) THEN Fresh(op) ELSE Loaded(op, committed[op])
<1>1. /\ chan' = Unbounded(Edges) /\ ctl' \in {"execute", "panicked"} /\ uncommitted' = FALSE
      /\ committed' = committed /\ sunk' = sunk /\ st' = [op \in Ops |-> new(op)]
  BY DEF Restart, Build
<1>2. Fold \in Ops /\ Kind[Fold] = "stateful_map"
  BY FoldIsMap
<1>3. \A op \in Sources : st'[op].pos = IF committed = None THEN 0 ELSE committed[op]
  BY <1>1 DEF Sources, Stateful, Fresh, Loaded
<1>4. st'[Fold] = IF committed = None THEN [r \in Records |-> 0] ELSE committed[Fold]
  BY <1>1, <1>2 DEF Stateful, Fresh, Loaded
<1> HIDE DEF new
<1>5. \A op \in Sources : CutPos({})'[op] = IF committed = None THEN 0 ELSE committed[op]
  BY <1>3 DEF CutPos
<1>6. CutFold({})' = IF committed = None THEN [r \in Records |-> 0] ELSE committed[Fold]
  BY <1>4 DEF CutFold
<1>7. \A r : Held({}, "none", r)' = [e \in Edges |-> {}]
  BY <1>1, NothingHeld DEF Held, Carries, Beyond
<1>8. \A r : SunkLate(r)' <=> SunkLate(r)
  BY <1>1 DEF SunkLate
<1>9. OnceInView({}, "none")'
  <2> SUFFICES ASSUME NEW r \in Records
               PROVE  Once(Left(r, CutPos({})'), CutFold({})'[r], Held({}, "none", r)', SunkLate(r)')
    BY DEF OnceInView
  <2>1. CASE committed = None
    <3>1. CutFold({})'[r] = 0 /\ Held({}, "none", r)' = [e \in Edges |-> {}]
      BY <1>6, <1>7, <2>1
    <3>2. Once(Left(r, CutPos({})'), 0, [e \in Edges |-> {}], SunkLate(r)')
      <4>1. \A op \in Sources : CutPos({})'[op] = 0
        BY <1>5, <2>1
      <4> QED BY <4>1, NothingRead
    <3> QED BY <3>1, <3>2
  <2>2. CASE committed # None
    <3>1. CutFold({})'[r] = committed[Fold][r] /\ Held({}, "none", r)' = [e \in Edges |-> {}]
      BY <1>6, <1>7, <2>2
    <3>2. Once(Left(r, committed), committed[Fold][r], [e \in Edges |-> {}], SunkLate(r))
      BY <2>2 DEF Counted, OnceInSnapshot
    <3>3. Left(r, CutPos({})') <=> Left(r, committed)
      BY <1>5, <2>2 DEF Left
    <3> QED BY <1>8, <3>1, <3>2, <3>3 DEF Once
  <2> QED BY <2>1, <2>2
<1>10. committed # None => OnceInSnapshot(committed)'
  <2>1. committed # None =>
          \A r \in Records : Once(Left(r, committed), committed[Fold][r], [e \in Edges |-> {}], SunkLate(r)')
    BY <1>8, SnapshotStays DEF Counted
  <2> QED BY <1>1, <2>1 DEF OnceInSnapshot
<1> QED BY <1>1, <1>9, <1>10 DEF Counted

LEMMA NextCounts ==
  ASSUME OnePathToFold, LateStreamKept
  PROVE  IInv /\ Counted /\ [Next]_vars => Counted'
<1> SUFFICES ASSUME IInv, Counted, [Next]_vars PROVE Counted'
  OBVIOUS
<1>1. ASSUME UNCHANGED vars PROVE Counted'
  BY <1>1, LoopCounts DEF vars, execVars
<1>2. ASSUME NEW op \in Ops, SkipSuspended(op) PROVE Counted'
  BY <1>2, LoopCounts DEF SkipSuspended
<1>3. ASSUME ContinueExecution \/ AwaitMarker \/ CompleteExecution PROVE Counted'
  BY <1>3, LoopCounts DEF ContinueExecution, AwaitMarker, CompleteExecution
<1> QED BY <1>1, <1>2, <1>3, NextCases, OperatorCounts, MarkerDoneCounts, SendMarkerCounts, CommitCounts, RestartCounts

LEMMA CountingInductive ==
  ASSUME OnePathToFold, LateStreamKept
  PROVE  Spec => [](IInv /\ Counted)
  BY InitCounts, InitKeeps, NextCounts, InductiveInvariant, PTL DEF Spec

----------------------------------------------------------------------------
(* What the invariant says in numbers.                                     *)

\* What a function takes a finite set to is finite.
LEMMA FiniteImage ==
  ASSUME NEW S, IsFiniteSet(S), NEW f, DOMAIN f = S, f = [x \in S |-> f[x]],
         NEW T, \A t \in T : \E x \in S : f[x] = t
  PROVE  IsFiniteSet(T)
<1> DEFINE image == {f[x] : x \in S}
<1>1. f \in Surjection(S, image)
  BY DEF Surjection
<1>2. IsFiniteSet(image)
  BY <1>1, FS_Surjection
<1>3. T \in SUBSET image
  OBVIOUS
<1> HIDE DEF image
<1> QED BY <1>2, <1>3, FS_Subset

LEMMA FiniteGraph == IsFiniteSet(Edges)
<1>1. \A p \in Streams : IsFiniteSet({Outputs[p][i] : i \in DOMAIN Outputs[p]})
  <2> SUFFICES ASSUME NEW p \in Streams PROVE IsFiniteSet({Outputs[p][i] : i \in DOMAIN Outputs[p]})
    OBVIOUS
  <2> DEFINE f == Outputs[p]
             T == {f[i] : i \in DOMAIN f}
  <2>1. f \in Seq(Edges)
    BY GraphTypes DEF Streams
  <2>2. DOMAIN f = 1..Len(f) /\ Len(f) \in Nat /\ f = [i \in DOMAIN f |-> f[i]]
    BY <2>1
  <2>3. IsFiniteSet(DOMAIN f)
    BY <2>2, FS_Interval
  <2>4. \A t \in T : \E i \in DOMAIN f : f[i] = t
    OBVIOUS
  <2> HIDE DEF f, T
  <2>5. IsFiniteSet(T)
    BY <2>2, <2>3, <2>4, FiniteImage
  <2> QED BY <2>5 DEF f, T
<1> DEFINE g == [p \in Streams |-> {Outputs[p][i] : i \in DOMAIN Outputs[p]}]
           U == {g[p] : p \in Streams}
<1>2. IsFiniteSet(Streams)
  BY GraphTypes, FS_Interval DEF Streams
<1>3. IsFiniteSet(U)
  <2>1. DOMAIN g = Streams /\ g = [p \in Streams |-> g[p]] /\ \A t \in U : \E p \in Streams : g[p] = t
    OBVIOUS
  <2> HIDE DEF g, U
  <2> QED BY <1>2, <2>1, FiniteImage
<1>4. \A T \in U : IsFiniteSet(T)
  BY <1>1
<1>5. Edges \in SUBSET UNION U
  <2> SUFFICES ASSUME NEW e \in Edges PROVE \E p \in Streams : e \in g[p]
    OBVIOUS
  <2>1. PICK p \in Streams : IsOutput(e, p)
    BY EdgeEnds
  <2> QED BY <2>1 DEF IsOutput, IsInput
<1> HIDE DEF U
<1> QED BY <1>3, <1>4, <1>5, FS_UNION, FS_Subset

LEMMA FiniteCopies ==
  ASSUME Queues, NEW r, NEW edges \in SUBSET Edges
  PROVE  IsFiniteSet(UNION {{e} \X Queued(r, e) : e \in edges})
<1> DEFINE g == [e \in edges |-> {e} \X Queued(r, e)]
           U == {{e} \X Queued(r, e) : e \in edges}
<1>1. IsFiniteSet(edges)
  BY FiniteGraph, FS_Subset
<1>2. \A e \in edges : IsFiniteSet({e} \X Queued(r, e))
  <2> SUFFICES ASSUME NEW e \in edges PROVE IsFiniteSet({e} \X Queued(r, e))
    OBVIOUS
  <2>1. Queued(r, e) \in SUBSET (1..Len(chan[e])) /\ Len(chan[e]) \in Nat
    BY DEF Queued, Queues
  <2>2. IsFiniteSet(Queued(r, e))
    <3>1. IsFiniteSet(1..Len(chan[e]))
      BY <2>1, FS_Interval
    <3> QED BY <2>1, <3>1, FS_Subset
  <2>3. IsFiniteSet({e})
    BY FS_Singleton
  <2> QED BY <2>2, <2>3, FS_Product
<1>3. DOMAIN g = edges /\ g = [e \in edges |-> g[e]] /\ \A t \in U : \E e \in edges : g[e] = t
  OBVIOUS
<1>4. \A t \in U : IsFiniteSet(t)
  BY <1>2
<1> HIDE DEF g, U
<1>5. IsFiniteSet(U)
  BY <1>1, <1>3, FiniteImage
<1>6. IsFiniteSet(UNION U)
  BY <1>4, <1>5, FS_UNION
<1> QED BY <1>6 DEF U

\* None, one, or at least one.
LEMMA CopiesCount ==
  ASSUME Queues, NEW r, NEW edges \in SUBSET Edges
  PROVE  /\ (\A e \in edges : Queued(r, e) = {}) => Copies(r, edges) = 0
         /\ (\E e \in edges : /\ Queued(r, e) # {} /\ OnlyOne(Queued(r, e))
                              /\ \A f \in edges \ {e} : Queued(r, f) = {}) => Copies(r, edges) = 1
         /\ (\E e \in edges : Queued(r, e) # {}) => Copies(r, edges) > 0
<1> DEFINE all == UNION {{e} \X Queued(r, e) : e \in edges}
<1>1. IsFiniteSet(all) /\ Copies(r, edges) = Cardinality(all)
  BY FiniteCopies DEF Copies
<1>2. ASSUME \A e \in edges : Queued(r, e) = {} PROVE Copies(r, edges) = 0
  <2>1. all = {}
    BY <1>2
  <2> QED BY <1>1, <2>1, FS_EmptySet
<1>3. ASSUME NEW e \in edges, Queued(r, e) # {}, OnlyOne(Queued(r, e)), \A f \in edges \ {e} : Queued(r, f) = {}
      PROVE  Copies(r, edges) = 1
  <2>1. PICK i : Queued(r, e) = {i}
    BY <1>3 DEF OnlyOne
  <2>2. all = {<<e, i>>}
    BY <1>3, <2>1
  <2> QED BY <1>1, <2>2, FS_Singleton
<1>4. ASSUME NEW e \in edges, Queued(r, e) # {} PROVE Copies(r, edges) > 0
  <2>1. PICK i : i \in Queued(r, e)
    BY <1>4
  <2>2. <<e, i>> \in all
    BY <2>1
  <2> HIDE DEF all
  <2>3. Cardinality(all) # 0 /\ Cardinality(all) \in Nat
    BY <1>1, <2>2, FS_EmptySet, FS_CardinalityType
  <2> QED BY <1>1, <2>3
<1> QED BY <1>2, <1>3, <1>4

LEMMA CountedOnce ==
  ASSUME IInv, Counted
  PROVE  EveryRecordCountsOnce
<1> SUFFICES ASSUME NEW r \in Records
             PROVE  LET places == (IF Unread(r) THEN 1 ELSE 0) + Copies(r, Upstream) + st[Fold][r]
                    IN  places = 1 \/ (places = 0 /\ WentLate(r))
  BY DEF EveryRecordCountsOnce
<1> DEFINE H == Held({}, "none", r)
           left == Left(r, CutPos({}))
           n == st[Fold][r]
<1>1. Queues /\ Upstream \subseteq Edges /\ LateEdges \subseteq Edges
  BY LateIsApart DEF IInv, Types, TypeOK, Queues
<1>2. left <=> Unread(r)
  BY DEF Left, CutPos, Unread
<1>3. \A e \in Edges : H[e] = Queued(r, e)
  <2> SUFFICES ASSUME NEW e \in Edges PROVE H[e] = Queued(r, e)
    OBVIOUS
  <2>1. H[e] = Ahead(chan[e], r, "none")
    BY DEF Held, Carries, Beyond
  <2>2. chan[e] \in Seq(Message)
    BY <1>1 DEF Queues
  <2>3. \A j \in DOMAIN chan[e] : chan[e][j].kind # "none"
    BY <2>2, MessageKinds DEF MarkerKinds
  <2> QED BY <2>1, <2>3 DEF Ahead, IsCopy, Queued
<1>4. Once(left, n, H, SunkLate(r))
  BY DEF Counted, OnceInView, CutFold
<1> HIDE DEF H, left, n
<1>5. CASE left \/ n = 1
  <2>1. \A e \in Upstream : Queued(r, e) = {}
    BY <1>1, <1>3, <1>4, <1>5 DEF Once
  <2>2. Copies(r, Upstream) = 0
    BY <1>1, <2>1, CopiesCount
  <2>3. left => n = 0
    BY <1>4 DEF Once
  <2> QED BY <1>2, <1>5, <2>2, <2>3 DEF n
<1>6. CASE ~left /\ n # 1 /\ \E e \in Upstream : H[e] # {}
  <2>1. PICK e \in Upstream : H[e] # {}
    BY <1>6
  <2>2. n = 0 /\ OnlyOne(H[e]) /\ \A f \in Upstream \ {e} : H[f] = {}
    BY <1>4, <1>6, <2>1 DEF Once
  <2>3. Queued(r, e) # {} /\ OnlyOne(Queued(r, e)) /\ \A f \in Upstream \ {e} : Queued(r, f) = {}
    BY <1>1, <1>3, <2>1, <2>2
  <2>4. Copies(r, Upstream) = 1
    BY <1>1, <2>3, CopiesCount
  <2> QED BY <1>2, <1>6, <2>2, <2>4 DEF n
<1>7. CASE ~left /\ n # 1 /\ \A e \in Upstream : H[e] = {}
  <2>1. n = 0 /\ ((\E e \in LateEdges : H[e] # {}) \/ SunkLate(r))
    BY <1>4, <1>7 DEF Once
  <2>2. Copies(r, Upstream) = 0
    BY <1>1, <1>3, <1>7, CopiesCount
  <2>3. WentLate(r)
    <3>1. CASE SunkLate(r)
      BY <3>1 DEF WentLate, SunkLate
    <3>2. CASE \E e \in LateEdges : H[e] # {}
      <4>1. \E e \in LateEdges : Queued(r, e) # {}
        BY <1>1, <1>3, <3>2
      <4>2. Copies(r, LateEdges) > 0
        BY <1>1, <4>1, CopiesCount
      <4> QED BY <4>2 DEF WentLate
    <3> QED BY <2>1, <3>1, <3>2
  <2> QED BY <1>2, <1>7, <2>1, <2>2, <2>3 DEF n
<1> QED BY <1>5, <1>6, <1>7

\* Whatever the graph in which a record has one way to the fold, with unions, splits
\* and late streams, and whatever snapshots, reconfigurations and restarts: every
\* record is in exactly one place, or it was late.  The barriers line up at a union
\* (operator_io.rs:155), the snapshot is reported when its barrier has left the
\* graph (worker/mod.rs:294), and a restart reads again what the snapshot has not
\* counted.
THEOREM RecordsCountOnce ==
  ASSUME OnePathToFold, LateStreamKept
  PROVE  Spec => []EveryRecordCountsOnce
<1>1. IInv /\ Counted => EveryRecordCountsOnce
  BY CountedOnce
<1> QED BY <1>1, CountingInductive, PTL

----------------------------------------------------------------------------
(* The worker implements ExactlyOnce.                                      *)

\* An operator without state leaves nothing in a snapshot.
OnlyStatesSaved == \A op \in Ops : ~Stateful(op) => saving[op] = None

LEMMA NextSaves ==
  ASSUME IInv, OnlyStatesSaved, [Next]_vars
  PROVE  OnlyStatesSaved'
<1>1. ASSUME saving' = saving \/ saving' = [op \in Ops |-> None] PROVE OnlyStatesSaved'
  BY <1>1 DEF OnlyStatesSaved, Stateful
<1>2. ASSUME NEW op \in Ops, OperatorStep(op) PROVE OnlyStatesSaved'
  <2>1. PICK T \in SUBSET Edges, m \in Message \cup {None} : \E outs, s, newSt : Summary(op, T, m, outs, s, newSt)
    BY <1>2, StepSummary DEF IInv, EndInv, Types
  <2>2. PICK outs, s, newSt : Summary(op, T, m, outs, s, newSt)
    BY <2>1
  <2>3. saving' = IF Stateful(op) /\ IsKind(m, "AbsBarrier")
                  THEN [saving EXCEPT ![op] = Persisted(op, s)] ELSE saving
    BY <2>2 DEF Summary, MovesOperator
  <2>4. saving = [o \in Ops |-> saving[o]]
    BY DEF IInv, Types
  <2>5. \A o \in Ops : ~Stateful(o) => saving'[o] = saving[o]
    BY <2>3, <2>4
  <2> QED BY <2>5 DEF OnlyStatesSaved, Stateful
<1>3. ASSUME UNCHANGED vars PROVE OnlyStatesSaved'
  BY <1>1, <1>3 DEF vars, snapVars
<1>4. ASSUME Next PROVE OnlyStatesSaved'
  <2>1. ASSUME NEW op \in Ops, SkipSuspended(op) PROVE OnlyStatesSaved'
    BY <1>1, <2>1 DEF SkipSuspended, snapVars
  <2>2. ASSUME ContinueExecution \/ AwaitMarker \/ CompleteExecution \/ MarkerDone \/ CommitSnapshot
        PROVE  OnlyStatesSaved'
    BY <1>1, <2>2 DEF ContinueExecution, AwaitMarker, CompleteExecution, MarkerDone, CommitSnapshot, snapVars
  <2>3. ASSUME Restart \/ \E what \in DOMAIN Markers : SendMarker(what) PROVE OnlyStatesSaved'
    BY <1>1, <2>3 DEF Restart, SendMarker
  <2> QED BY <1>2, <1>3, <1>4, <2>1, <2>2, <2>3, NextCases
<1> QED BY <1>3, <1>4

LEMMA SavingInductive ==
  ASSUME OnePathToFold, LateStreamKept
  PROVE  Spec => [](IInv /\ Counted /\ OnlyStatesSaved)
<1>1. Init => OnlyStatesSaved
  BY DEF Init, OnlyStatesSaved
<1>2. IInv /\ OnlyStatesSaved /\ [Next]_vars => OnlyStatesSaved'
  BY NextSaves
<1> QED BY <1>1, <1>2, CountingInductive, PTL DEF Spec

\* A complete snapshot is one, and holds the state of the fold.
LEMMA SnapshotsExist ==
  ASSUME OnePathToFold, NEW snap, SnapshotComplete(snap), \A op \in Ops : ~Stateful(op) => snap[op] = None
  PROVE  snap # None /\ snap[Fold] \in [Records -> Nat] /\ snap[Fold] # None
<1>1. \A op \in Ops : snap[op] \in Values
  <2> SUFFICES ASSUME NEW op \in Ops PROVE snap[op] \in Values
    OBVIOUS
  <2>1. Complete(op, snap[op]) /\ (~Stateful(op) => snap[op] = None)
    BY DEF SnapshotComplete
  <2>2. CASE Kind[op] = "source"
    <3>1. snap[op] \in 0..Len(Feed[op]) /\ Len(Feed[op]) \in Nat
      BY <2>1, <2>2, GraphAssumption DEF Complete, Sources
    <3> QED BY <3>1 DEF Values
  <2>3. CASE Kind[op] = "generate_epochs"
    <3>1. snap[op] \in Times \cup {None} /\ Times \subseteq Nat
      BY <2>1, <2>3, TimeAssumption DEF Complete, Times
    <3> QED BY <3>1 DEF Values
  <2>4. CASE Kind[op] = "stateful_map"
    BY <2>1, <2>4 DEF Complete, Values
  <2>5. CASE Kind[op] = "ttl_map"
    BY <2>1, <2>5 DEF Complete, Values
  <2> QED BY <2>1, <2>2, <2>3, <2>4, <2>5 DEF Stateful, Values
<1>2. snap \in [Ops -> Values]
  BY <1>1 DEF SnapshotComplete
<1>3. Fold \in Ops /\ Complete(Fold, snap[Fold]) /\ Kind[Fold] = "stateful_map"
  BY FoldIsMap DEF SnapshotComplete
<1>4. snap[Fold] \in [Records -> Nat]
  BY <1>3 DEF Complete
<1> QED BY <1>2, <1>4, AbsentAssumption

\* The fold takes in a record that it has not counted yet.
LEMMA FoldApplies ==
  ASSUME IInv, Counted, OnePathToFold,
         NEW T, NEW m \in Message \cup {None}, Reception(Fold, T, m, upEpoch'), IsKind(m, "Data")
  PROVE  m.id \in Records /\ st[Fold][m.id] = 0
<1>1. Fold \in Ops /\ Queues /\ BeforeFold[Fold]
  BY FoldIsMap, BeforeFoldStep DEF IInv, Types, TypeOK, Queues
<1>2. m \in Message /\ m.id \in Records
  BY MessageKinds DEF IsKind
<1> DEFINE r == m.id
<1>3. PICK e \in T : e \in Edges /\ IsInput(e, Inputs[Fold]) /\ 1 \in DOMAIN chan[e] /\ chan[e][1] = m
  <2>1. Fold \in Ops /\ Queues
    BY <1>1
  <2>2. /\ \E e \in T : T = {e} /\ chan[e][1] = m
        /\ \A e \in T : e \in Edges /\ IsInput(e, Inputs[Fold]) /\ 1 \in DOMAIN chan[e]
    BY <2>1, HeadsTaken
  <2> QED BY <2>2
<1>4. e \in Upstream
  BY <1>1, <1>3 DEF Upstream
<1>5. 1 \in Ahead(chan[e], r, "none")
  <2>1. chan[e] \in Seq(Message)
    BY <1>1, <1>3 DEF Queues
  <2>2. \A j \in DOMAIN chan[e] : chan[e][j].kind # "none"
    BY <2>1, MessageKinds DEF MarkerKinds
  <2> QED BY <1>3, <2>2 DEF Ahead, IsCopy, IsKind
<1>6. Held({}, "none", r)[e] # {}
  <2>1. Held({}, "none", r)[e] = Ahead(chan[e], r, "none")
    BY <1>3 DEF Held, Carries, Beyond
  <2> QED BY <1>5, <2>1
<1>7. Once(Left(r, CutPos({})), st[Fold][r], Held({}, "none", r), SunkLate(r))
  BY <1>2 DEF Counted, OnceInView, CutFold
<1> QED BY <1>2, <1>4, <1>6, <1>7 DEF Once

\* The state of the fold that a restart goes back to.
SavedFold == IF committed = None THEN [r \in Records |-> 0] ELSE committed[Fold]

\* The fold takes a record in, or copies its state when the barrier reaches it; the
\* other operators do nothing that ExactlyOnce speaks of.
LEMMA OperatorPromises ==
  ASSUME IInv, Counted, OnePathToFold, NEW op \in Ops, OperatorStep(op)
  PROVE  [Promise!Next]_(Promise!vars)
<1>1. TypeOK /\ Stamped /\ RootCarriesMarkers /\ SourcesEnd /\ Types /\ Queues /\ OwnMarkers
  BY DEF IInv, EndInv, Types, TypeOK, Queues
<1>2. PICK T \in SUBSET Edges, m \in Message \cup {None} : \E outs, s, newSt : Summary(op, T, m, outs, s, newSt)
  BY <1>1, StepSummary
<1>3. PICK outs, s, newSt : Summary(op, T, m, outs, s, newSt)
  BY <1>2
<1>4. /\ st' = [o \in Ops |-> IF o = op THEN newSt ELSE st[o]]
      /\ saving' = [o \in Ops |-> IF o = op /\ Stateful(op) /\ IsKind(m, "AbsBarrier") THEN Persisted(op, s) ELSE saving[o]]
      /\ committed' = committed
  <2>1. /\ st' = [st EXCEPT ![op] = newSt] /\ committed' = committed
        /\ saving' = IF Stateful(op) /\ IsKind(m, "AbsBarrier")
                     THEN [saving EXCEPT ![op] = Persisted(op, s)] ELSE saving
    BY <1>3 DEF Summary, MovesOperator
  <2> QED BY <1>1, <2>1 DEF Types
<1>5. Fold \in Ops /\ Kind[Fold] = "stateful_map" /\ st[Fold] \in [Records -> Nat]
  BY <1>1, FoldIsMap, StTypes DEF StType
<1>6. SavedFold' = SavedFold
  BY <1>4 DEF SavedFold
<1>7. ASSUME st'[Fold] = st[Fold], saving'[Fold] = saving[Fold] PROVE UNCHANGED Promise!vars
  BY <1>6, <1>7 DEF Promise!vars, SavedFold
<1>8. CASE op # Fold
  BY <1>4, <1>5, <1>7, <1>8
<1>9. CASE op = Fold
  <2>1. /\ s = st[Fold] /\ Reception(Fold, T, m, upEpoch') /\ Fold \notin Sources
        /\ Summary(Fold, T, m, outs, s, newSt)
    BY <1>3, <1>5, <1>9 DEF Summary, Sources
  <2>2. newSt = IF IsKind(m, "Data") THEN [st[Fold] EXCEPT ![m.id] = @ + 1] ELSE st[Fold]
    BY <1>1, <1>5, <2>1, StepAnswers
  <2>3. st'[Fold] = newSt
    BY <1>4, <1>5, <1>9
  <2>4. saving'[Fold] = IF IsKind(m, "AbsBarrier") THEN st[Fold] ELSE saving[Fold]
    BY <1>4, <1>5, <1>9, <2>1 DEF Stateful, Persisted
  <2>5. CASE IsKind(m, "Data")
    <3>1. m.id \in Records /\ st[Fold][m.id] = 0
      BY <2>1, <2>5, FoldApplies
    <3>2. st'[Fold] = [st[Fold] EXCEPT ![m.id] = 1]
      BY <1>5, <2>2, <2>3, <2>5, <3>1
    <3>3. saving'[Fold] = saving[Fold]
      BY <2>4, <2>5 DEF IsKind
    <3>4. Promise!Apply(m.id)
      BY <1>6, <3>1, <3>2, <3>3 DEF Promise!Apply, SavedFold
    <3> QED BY <3>1, <3>4 DEF Promise!Next
  <2>6. CASE IsKind(m, "AbsBarrier")
    <3>1. PICK D \in SUBSET Ops : Wave(D) /\ \A o \in Ops \ D : saving[o] = None
      <4>1. ctl = "snapshot"
        BY <1>1, <1>5, <2>1, <2>6, BarrierReceived
      <4> QED BY <4>1 DEF Counted
    <3>2. Fold \notin D
      BY <1>1, <1>5, <2>1, <2>6, <3>1, WaveStep
    <3>3. saving[Fold] = None /\ saving'[Fold] = st[Fold] /\ st'[Fold] = st[Fold]
      BY <1>5, <2>2, <2>3, <2>4, <2>6, <3>1, <3>2 DEF IsKind
    <3>4. Promise!Copy
      BY <1>6, <3>3 DEF Promise!Copy, SavedFold
    <3> QED BY <3>4 DEF Promise!Next
  <2>7. CASE ~IsKind(m, "Data") /\ ~IsKind(m, "AbsBarrier")
    BY <1>7, <2>2, <2>3, <2>4, <2>7
  <2> QED BY <2>5, <2>6, <2>7
<1> QED BY <1>8, <1>9

LEMMA NextPromises ==
  ASSUME OnePathToFold
  PROVE  IInv /\ Counted /\ OnlyStatesSaved /\ [Next]_vars => [Promise!Next]_(Promise!vars)
<1> SUFFICES ASSUME IInv, Counted, OnlyStatesSaved, [Next]_vars PROVE [Promise!Next]_(Promise!vars)
  OBVIOUS
<1>1. Fold \in Ops /\ Kind[Fold] = "stateful_map"
  BY FoldIsMap
<1>2. ASSUME st' = st, saving' = saving, committed' = committed PROVE UNCHANGED Promise!vars
  BY <1>2 DEF Promise!vars
<1>3. ASSUME NEW op \in Ops, SkipSuspended(op) PROVE UNCHANGED Promise!vars
  BY <1>2, <1>3 DEF SkipSuspended, snapVars
<1>4. ASSUME ContinueExecution \/ AwaitMarker \/ CompleteExecution PROVE UNCHANGED Promise!vars
  BY <1>2, <1>4 DEF ContinueExecution, AwaitMarker, CompleteExecution, snapVars
<1>5. ASSUME MarkerDone PROVE UNCHANGED Promise!vars
  BY <1>2, <1>5 DEF MarkerDone
<1>6. ASSUME UNCHANGED vars PROVE UNCHANGED Promise!vars
  BY <1>2, <1>6 DEF vars, snapVars
<1>7. ASSUME NEW what \in DOMAIN Markers, SendMarker(what) PROVE Promise!Next
  <2>1. st' = st /\ committed' = committed /\ saving'[Fold] = None
    BY <1>1, <1>7 DEF SendMarker
  <2>2. Promise!Discard
    BY <2>1 DEF Promise!Discard
  <2> QED BY <2>2 DEF Promise!Next
<1>8. ASSUME CommitSnapshot PROVE Promise!Next
  <2>1. st' = st /\ saving' = saving /\ committed' = saving /\ SnapshotComplete(saving)
    BY <1>8 DEF CommitSnapshot, IInv, ReportedIsComplete
  <2>2. saving # None /\ saving[Fold] # None
    BY <2>1, SnapshotsExist DEF OnlyStatesSaved
  <2>3. Promise!Commit
    BY <2>1, <2>2 DEF Promise!Commit
  <2> QED BY <2>3 DEF Promise!Next
<1>9. ASSUME Restart PROVE Promise!Next
  <2> DEFINE new(op) == IF committed = None \/ ~Stateful(op) THEN Fresh(op) ELSE Loaded(op, committed[op])
  <2>1. st' = [op \in Ops |-> new(op)] /\ saving' = [op \in Ops |-> None] /\ committed' = committed
    BY <1>9 DEF Restart, Build
  <2>2. new(Fold) = SavedFold
    BY <1>1 DEF Stateful, Fresh, Loaded, SavedFold
  <2> HIDE DEF new
  <2>3. st'[Fold] = SavedFold /\ saving'[Fold] = None /\ SavedFold' = SavedFold
    BY <1>1, <2>1, <2>2 DEF SavedFold
  <2>4. Promise!Recover
    BY <2>3 DEF Promise!Recover, SavedFold
  <2> QED BY <2>4 DEF Promise!Next
<1> QED BY <1>3, <1>4, <1>5, <1>6, <1>7, <1>8, <1>9, NextCases, OperatorPromises

LEMMA InitPromises ==
  ASSUME OnePathToFold
  PROVE  Init => Promise!Init
<1> SUFFICES ASSUME Init PROVE Promise!Init
  OBVIOUS
<1>1. Fold \in Ops /\ Kind[Fold] = "stateful_map"
  BY FoldIsMap
<1>2. st[Fold] = [r \in Records |-> 0] /\ saving[Fold] = None /\ committed = None
  BY <1>1 DEF Init, Fresh
<1> QED BY <1>2 DEF Promise!Init, Promise!Nothing

\* Every step of the worker, of the coordinator and of a crash is a step of
\* ExactlyOnce or changes nothing it speaks of: the fold takes in a record once, the
\* copy a snapshot takes of it is of one moment, and a restart goes back to the last
\* one that was committed (README.md: "every message affects the state exactly once").
THEOREM WorkerImplementsExactlyOnce ==
  ASSUME OnePathToFold, LateStreamKept
  PROVE  Spec => ImplementsExactlyOnce
  BY SavingInductive, InitPromises, NextPromises, PTL DEF Spec, ImplementsExactlyOnce, Promise!Spec
=============================================================================
