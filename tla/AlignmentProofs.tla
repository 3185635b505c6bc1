-------------------------- MODULE AlignmentProofs --------------------------
(***************************************************************************)
(* Epochs and barriers across the workers of a cluster that keeps its      *)
(* workers: no distributor lets data pass behind an epoch, and what the    *)
(* workers persist for a snapshot is a consistent cut.                     *)
(***************************************************************************)
EXTENDS DistributorProofs

\* Reconfigurations keep the workers (a restart begins with one of these).
\* While workers join or leave, messages that are sent on may be overtaken by
\* epochs and barriers (the TODO at keyed/distributed.rs:138).
Steady == \A i \in DOMAIN Scales : Scales[i] = InitWorkers

Owner(k)  == Target[InitWorkers][k]
Others(w) == InitWorkers \ {w}

\* No key moves, so nothing is collected and nothing is sent on: links lead to
\* the owner of the key.
LeadsTo(q, w) ==
  \A n \in DOMAIN q : q[n].kind # "Acquire" /\ (q[n].kind = "Data" => Owner(q[n].data.key) = w)
NoMove(q) == \A n \in DOMAIN q : q[n].kind \notin {"Collect", "Acquire"}

Settled ==
  /\ alive = InitWorkers
  /\ \A w \in InitWorkers :
       /\ remotes[w] = Others(w)
       /\ oldSet[w] = InitWorkers /\ newSet[w] = InitWorkers
       /\ whitelist[w] = {} /\ collecting[w] = NoKey
       /\ NoMove(out[w])
       /\ \A r \in Others(w) : LeadsTo(chan[<<r, w>>], w)
  /\ turn.poll \subseteq Others(turn.worker)

----------------------------------------------------------------------------
\* Epochs.

\* A link q, the last epoch its reader took from it (f) and the last its writer
\* has sent (s): data is newer than the epochs before it, epochs grow.
InOrder(q, f, s) ==
  /\ f <= s
  /\ \A n \in DOMAIN q :
       /\ q[n].kind = "Data" => q[n].data.ts > f
       /\ q[n].kind = "Epoch" => q[n].ts > f /\ q[n].ts <= s
  /\ \A m, n \in DOMAIN q : m < n /\ q[m].kind = "Epoch" =>
       /\ q[n].kind = "Data" => q[n].data.ts > q[m].ts
       /\ q[n].kind = "Epoch" => q[n].ts > q[m].ts

LinksInOrder ==
  \A w \in InitWorkers : \A r \in Others(w) :
     InOrder(chan[<<r, w>>], frontier[w][r], localFrontier[r])

\* What the distributor has let through is behind all its inputs.
Behind(w, t) == t <= localFrontier[w] /\ \A r \in Others(w) : t <= frontier[w][r]

EpochsMerged ==
  \A w \in InitWorkers :
     /\ Behind(w, opFrontier[w])
     /\ \A n \in DOMAIN out[w] : out[w][n].kind = "Epoch" => Behind(w, out[w][n].ts)

EpochInv == LinksInOrder /\ EpochsMerged /\ NoLateData

----------------------------------------------------------------------------
\* Barriers.

IsMark(m)  == m.kind \in {"BarrierMarker", "AbsBarrier"}
Marked(q)  == \E n \in DOMAIN q : IsMark(q[n])
OneMark(q) == \A m, n \in DOMAIN q : IsMark(q[m]) /\ IsMark(q[n]) => m = n

\* w has not passed on the barrier of the present snapshot.
Waits(w) == taken[w] < barrierRound \/ localBarrier[w]

Rounds ==
  \A w \in InitWorkers :
     /\ persisted[w] <= taken[w] /\ taken[w] <= barrierRound /\ persisted[w] + 1 >= barrierRound
     /\ localBarrier[w] => taken[w] = barrierRound /\ persisted[w] < barrierRound
     /\ ~Waits(w) => \A r \in Others(w) : taken[r] = barrierRound

\* A barrier is on its way from where it was emitted to where it is awaited.
MarksOnWay ==
  \A w \in InitWorkers :
     /\ OneMark(out[w]) /\ (Marked(out[w]) <=> ~Waits(w) /\ persisted[w] < barrierRound)
     /\ \A r \in Others(w) :
          /\ OneMark(chan[<<r, w>>])
          /\ Marked(chan[<<r, w>>]) <=> taken[r] = barrierRound /\ Waits(w) /\ ~barred[w][r]
          /\ barred[w][r] => taken[r] = barrierRound /\ Waits(w)

\* A run receives nothing from a remote whose barrier it has.
PolledUnbarred == \A r \in turn.poll : ~barred[turn.worker][r]

\* The job is suspended only when its snapshots are done.
Silent(q) == \A n \in DOMAIN q : q[n].kind # "SuspendMarker"
NoSuspends ==
  \A w \in InitWorkers : \A r \in Others(w) : ~sentSuspend[w][r] /\ Silent(chan[<<r, w>>])
SuspendedLater ==
  /\ suspending => \A w \in InitWorkers : taken[w] = barrierRound /\ persisted[w] = barrierRound
  /\ ~suspending => NoSuspends

BarrierInv == Rounds /\ MarksOnWay /\ PolledUnbarred /\ SuspendedLater

----------------------------------------------------------------------------
\* The cut.

\* In the queue q the messages of the rounds before B are those before the mark,
\* or all of them (early); none is from an older round than the last one.
CutAt(q, c, B, early) ==
  \A n \in DOMAIN q : q[n].kind = "Data" =>
     /\ c[q[n].data.id] + 1 >= B /\ c[q[n].data.id] <= B
     /\ c[q[n].data.id] < B <=> (early \/ \E m \in DOMAIN q : m > n /\ IsMark(q[m]))

Folded(w) == UNION {opState[w][k] : k \in Keys}

QueuesAreCut ==
  \A w \in InitWorkers :
     /\ CutAt(out[w], cut, barrierRound, Waits(w))
     /\ \A r \in Others(w) : CutAt(chan[<<r, w>>], cut, barrierRound, taken[r] < barrierRound)

StatesAreCut ==
  \A w \in InitWorkers :
     /\ \A i \in Folded(w) :
          cut[i] <= barrierRound /\ (persisted[w] < barrierRound => cut[i] < barrierRound)
     /\ \A n \in 1..persisted[w] : snapshot[n][w] = {i \in Folded(w) : cut[i] < n}

\* Message i has reached w or is on its way to it; it stays with one worker.
At(w, i) == i \in Folded(w) \/ Has(out[w], i) \/ \E r \in Others(w) : Has(chan[<<r, w>>], i)

Found ==
  /\ \A i \in Accepted : \E w \in InitWorkers : At(w, i)
  /\ \A i \in Ids : \A w \in InitWorkers : At(w, i) => i < nextId

OneHome == \E home \in [Ids -> Workers] : \A i \in Ids, w \in InitWorkers : At(w, i) => home[i] = w

CutInv == QueuesAreCut /\ StatesAreCut /\ Found /\ OneHome

----------------------------------------------------------------------------
\* The times in a queue.
LEMMA LinkTimes ==
  ASSUME NEW q \in Seq(NetworkMessage)
  PROVE  \A n \in DOMAIN q : /\ q[n] \in NetworkMessage
                             /\ q[n].kind = "Data" => q[n].data.ts \in Nat /\ q[n].data.id \in Ids
                             /\ q[n].kind = "Epoch" => q[n].ts \in Nat
<1> SUFFICES ASSUME NEW n \in DOMAIN q
             PROVE  /\ q[n] \in NetworkMessage
                    /\ q[n].kind = "Data" => q[n].data.ts \in Nat /\ q[n].data.id \in Ids
                    /\ q[n].kind = "Epoch" => q[n].ts \in Nat
  OBVIOUS
<1>1. q[n] \in NetworkMessage
  OBVIOUS
<1> QED BY <1>1, NetworkFields DEF DataMessage

LEMMA QueueTimes ==
  ASSUME NEW q \in Seq(OperatorMessage)
  PROVE  \A n \in DOMAIN q : /\ q[n] \in OperatorMessage
                             /\ q[n].kind = "Data" => q[n].data.ts \in Nat /\ q[n].data.id \in Ids
                             /\ q[n].kind = "Epoch" => q[n].ts \in Nat
<1> SUFFICES ASSUME NEW n \in DOMAIN q
             PROVE  /\ q[n] \in OperatorMessage
                    /\ q[n].kind = "Data" => q[n].data.ts \in Nat /\ q[n].data.id \in Ids
                    /\ q[n].kind = "Epoch" => q[n].ts \in Nat
  OBVIOUS
<1>1. q[n] \in OperatorMessage
  OBVIOUS
<1> QED BY <1>1, OperatorFields DEF DataMessage

\* The reader takes a message off an ordered link.
LEMMA OrderTaken ==
  ASSUME NEW q \in Seq(NetworkMessage), q # <<>>, NEW f \in Nat, NEW s \in Nat, InOrder(q, f, s)
  PROVE  /\ InOrder(Tail(q), IF Head(q).kind = "Epoch" THEN Head(q).ts ELSE f, s)
         /\ Head(q).kind = "Data" => Head(q).data.ts > f
         /\ Head(q).kind = "Epoch" => Head(q).ts > f /\ Head(q).ts <= s
<1> DEFINE t == Tail(q)
           h == Head(q)
           g == IF h.kind = "Epoch" THEN h.ts ELSE f
<1>1. /\ 1 \in DOMAIN q /\ h = q[1]
      /\ \A n \in DOMAIN t : n \in Nat /\ n >= 1 /\ n + 1 \in DOMAIN q /\ t[n] = q[n + 1]
  BY TailAt
<1> HIDE DEF t, h
<1>2. /\ h.kind = "Data" => h.data.ts > f
      /\ h.kind = "Epoch" => h.ts > f /\ h.ts <= s
  BY <1>1 DEF InOrder
<1>3. \A n \in DOMAIN t : /\ t[n].kind = "Data" => t[n].data.ts > g
                          /\ t[n].kind = "Epoch" => t[n].ts > g /\ t[n].ts <= s
  BY <1>1 DEF InOrder
<1>4. \A m, n \in DOMAIN t : m < n /\ t[m].kind = "Epoch" =>
        /\ t[n].kind = "Data" => t[n].data.ts > t[m].ts
        /\ t[n].kind = "Epoch" => t[n].ts > t[m].ts
  <2> SUFFICES ASSUME NEW m \in DOMAIN t, NEW n \in DOMAIN t, m < n, t[m].kind = "Epoch"
               PROVE  /\ t[n].kind = "Data" => t[n].data.ts > t[m].ts
                      /\ t[n].kind = "Epoch" => t[n].ts > t[m].ts
    OBVIOUS
  <2>1. m + 1 \in DOMAIN q /\ n + 1 \in DOMAIN q /\ m + 1 < n + 1 /\ t[m] = q[m + 1] /\ t[n] = q[n + 1]
    BY <1>1
  <2> QED BY <2>1 DEF InOrder
<1>5. g <= s
  BY <1>2 DEF InOrder
<1>6. InOrder(t, g, s)
  BY <1>3, <1>4, <1>5 DEF InOrder
<1> QED BY <1>2, <1>6 DEF t, h

\* The writer sends on an ordered link; s2 is its frontier after that.
LEMMA OrderSent ==
  ASSUME NEW q \in Seq(NetworkMessage), NEW m \in NetworkMessage, NEW f \in Nat, NEW s \in Nat,
         NEW s2 \in Nat, InOrder(q, f, s), s <= s2, m.kind = "Data" => m.data.ts > s,
         m.kind = "Epoch" => m.ts > s /\ m.ts <= s2
  PROVE  InOrder(Append(q, m), f, s2)
<1> DEFINE t == Append(q, m)
           e == Len(q) + 1
<1>1. /\ t \in Seq(NetworkMessage) /\ e \in DOMAIN t /\ t[e] = m /\ e \in Nat
      /\ \A n \in DOMAIN q : n \in Nat /\ n < e /\ n \in DOMAIN t /\ t[n] = q[n]
      /\ \A n \in DOMAIN t : n \in DOMAIN q \/ n = e
  BY AppendAt
<1> HIDE DEF t, e
<1>2. /\ \A n \in DOMAIN q : /\ q[n].kind = "Data" => q[n].data.ts \in Nat
                             /\ q[n].kind = "Epoch" => q[n].ts \in Nat
      /\ m.kind = "Data" => m.data.ts \in Nat
      /\ m.kind = "Epoch" => m.ts \in Nat
  BY <1>1, LinkTimes
<1>3. \A n \in DOMAIN t : /\ t[n].kind = "Data" => t[n].data.ts > f
                          /\ t[n].kind = "Epoch" => t[n].ts > f /\ t[n].ts <= s2
  BY <1>1, <1>2 DEF InOrder
<1>4. ASSUME NEW k \in DOMAIN t, NEW n \in DOMAIN t, k < n, t[k].kind = "Epoch"
      PROVE  /\ t[n].kind = "Data" => t[n].data.ts > t[k].ts
             /\ t[n].kind = "Epoch" => t[n].ts > t[k].ts
  <2>1. k \in DOMAIN q /\ t[k] = q[k]
    BY <1>1, <1>4
  <2>2. CASE n \in DOMAIN q
    BY <1>1, <1>4, <2>1, <2>2 DEF InOrder
  <2>3. CASE n = e
    <3>1. q[k].ts <= s /\ q[k].ts \in Nat
      BY <1>2, <1>4, <2>1 DEF InOrder
    <3> QED BY <1>1, <1>2, <2>1, <2>3, <3>1
  <2> QED BY <1>1, <2>2, <2>3
<1>5. InOrder(t, f, s2)
  BY <1>3, <1>4 DEF InOrder
<1> QED BY <1>5 DEF t

\* Data in the operator's queue is newer than the epochs before it.
InTime(q, f) ==
  \A n \in DOMAIN q : q[n].kind = "Data" =>
     /\ q[n].data.ts > f
     /\ \A m \in 1..(n - 1) : q[m].kind = "Epoch" => q[n].data.ts > q[m].ts

LEMMA InTimeTaken ==
  ASSUME NEW q \in Seq(OperatorMessage), q # <<>>, NEW f \in Nat, InTime(q, f)
  PROVE  /\ InTime(Tail(q), f)
         /\ Head(q).kind = "Epoch" => InTime(Tail(q), Head(q).ts)
<1> DEFINE t == Tail(q)
           h == Head(q)
<1>1. /\ 1 \in DOMAIN q /\ h = q[1]
      /\ \A n \in DOMAIN t : n \in Nat /\ n >= 1 /\ n + 1 \in DOMAIN q /\ t[n] = q[n + 1]
      /\ \A n \in DOMAIN t : \A m \in 1..(n - 1) : m \in DOMAIN t
  BY TailAt
<1> HIDE DEF t, h
<1>2. ASSUME NEW n \in DOMAIN t, t[n].kind = "Data"
      PROVE  /\ t[n].data.ts > f
             /\ h.kind = "Epoch" => t[n].data.ts > h.ts
             /\ \A m \in 1..(n - 1) : t[m].kind = "Epoch" => t[n].data.ts > t[m].ts
  <2>1. n \in Nat /\ n >= 1 /\ n + 1 \in DOMAIN q /\ t[n] = q[n + 1] /\ 1 \in 1..((n + 1) - 1)
    BY <1>1
  <2>2. \A m \in 1..(n - 1) : t[m] = q[m + 1] /\ m + 1 \in 1..((n + 1) - 1)
    BY <1>1, <2>1, SMTT(30)
  <2> QED BY <1>1, <1>2, <2>1, <2>2 DEF InTime
<1> QED BY <1>2 DEF t, h, InTime

LEMMA InTimeSent ==
  ASSUME NEW q \in Seq(OperatorMessage), NEW m \in OperatorMessage, NEW f \in Nat, InTime(q, f),
         m.kind = "Data" => /\ m.data.ts > f
                            /\ \A n \in DOMAIN q : q[n].kind = "Epoch" => m.data.ts > q[n].ts
  PROVE  InTime(Append(q, m), f)
<1> DEFINE t == Append(q, m)
           e == Len(q) + 1
<1>1. /\ t \in Seq(OperatorMessage) /\ e \in DOMAIN t /\ t[e] = m /\ e \in Nat
      /\ \A n \in DOMAIN q : n \in Nat /\ n < e /\ n \in DOMAIN t /\ t[n] = q[n]
      /\ \A n \in DOMAIN t : n \in DOMAIN q \/ n = e
  BY AppendAt
<1>2. \A n \in 1..(e - 1) : n \in DOMAIN q
  OBVIOUS
<1> HIDE DEF t, e
<1>3. \A n \in DOMAIN q : \A k \in 1..(n - 1) : k \in DOMAIN q
  BY <1>1, <1>2
<1>4. ASSUME NEW n \in DOMAIN t, t[n].kind = "Data"
      PROVE  /\ t[n].data.ts > f
             /\ \A k \in 1..(n - 1) : t[k].kind = "Epoch" => t[n].data.ts > t[k].ts
  <2>1. CASE n \in DOMAIN q
    BY <1>1, <1>3, <1>4, <2>1 DEF InTime
  <2>2. CASE n = e
    BY <1>1, <1>2, <1>4, <2>2
  <2> QED BY <1>1, <2>1, <2>2
<1> QED BY <1>4 DEF t, InTime

\* Marks.
LEMMA MarksTaken ==
  ASSUME NEW S, NEW q \in Seq(S), q # <<>>, OneMark(q)
  PROVE  /\ OneMark(Tail(q))
         /\ Marked(Tail(q)) <=> Marked(q) /\ ~IsMark(Head(q))
<1> DEFINE t == Tail(q)
           h == Head(q)
<1>1. /\ 1 \in DOMAIN q /\ h = q[1]
      /\ \A n \in DOMAIN t : n \in Nat /\ n >= 1 /\ n + 1 \in DOMAIN q /\ t[n] = q[n + 1]
      /\ \A n \in DOMAIN q : n \in Nat /\ n >= 1 /\ (n # 1 => n - 1 \in DOMAIN t /\ t[n - 1] = q[n])
  BY TailAt
<1> HIDE DEF t, h
<1>2. OneMark(t)
  <2> SUFFICES ASSUME NEW m \in DOMAIN t, NEW n \in DOMAIN t, IsMark(t[m]), IsMark(t[n]) PROVE m = n
    BY DEF OneMark
  <2>1. m + 1 \in DOMAIN q /\ n + 1 \in DOMAIN q /\ IsMark(q[m + 1]) /\ IsMark(q[n + 1])
    BY <1>1
  <2>2. m + 1 = n + 1
    BY <2>1 DEF OneMark
  <2> QED BY <1>1, <2>2
<1>3. ASSUME Marked(t) PROVE Marked(q) /\ ~IsMark(h)
  <2>1. PICK n \in DOMAIN t : IsMark(t[n])
    BY <1>3 DEF Marked
  <2>2. n + 1 \in DOMAIN q /\ IsMark(q[n + 1]) /\ n + 1 # 1
    BY <1>1, <2>1
  <2> QED BY <1>1, <2>2 DEF Marked, OneMark
<1>4. ASSUME Marked(q), ~IsMark(h) PROVE Marked(t)
  BY <1>1, <1>4 DEF Marked
<1> QED BY <1>2, <1>3, <1>4 DEF t, h

LEMMA MarksSent ==
  ASSUME NEW S, NEW q \in Seq(S), NEW m \in S
  PROVE  /\ Marked(Append(q, m)) <=> Marked(q) \/ IsMark(m)
         /\ OneMark(q) /\ ~(IsMark(m) /\ Marked(q)) => OneMark(Append(q, m))
<1> DEFINE t == Append(q, m)
           e == Len(q) + 1
<1>1. /\ t \in Seq(S) /\ e \in DOMAIN t /\ t[e] = m /\ e \in Nat
      /\ \A n \in DOMAIN q : n \in Nat /\ n < e /\ n \in DOMAIN t /\ t[n] = q[n]
      /\ \A n \in DOMAIN t : n \in DOMAIN q \/ n = e
  BY AppendAt
<1> HIDE DEF t, e
<1>2. Marked(t) <=> Marked(q) \/ IsMark(m)
  BY <1>1 DEF Marked
<1>3. OneMark(q) /\ ~(IsMark(m) /\ Marked(q)) => OneMark(t)
  BY <1>1 DEF Marked, OneMark
<1> QED BY <1>2, <1>3 DEF t

\* The cut in a queue whose head is taken, ...
LEMMA CutTaken ==
  ASSUME NEW S, NEW q \in Seq(S), q # <<>>, NEW c, NEW B, NEW early, CutAt(q, c, B, early)
  PROVE  CutAt(Tail(q), c, B, early)
<1> DEFINE t == Tail(q)
<1>1. /\ \A n \in DOMAIN t : n \in Nat /\ n >= 1 /\ n + 1 \in DOMAIN q /\ t[n] = q[n + 1]
      /\ \A n \in DOMAIN q : n \in Nat /\ n >= 1 /\ (n # 1 => n - 1 \in DOMAIN t /\ t[n - 1] = q[n])
  BY TailAt
<1> HIDE DEF t
<1>2. ASSUME NEW n \in DOMAIN t
      PROVE  (\E m \in DOMAIN t : m > n /\ IsMark(t[m])) <=> (\E m \in DOMAIN q : m > n + 1 /\ IsMark(q[m]))
  <2>1. ASSUME NEW m \in DOMAIN t, m > n, IsMark(t[m]) PROVE \E k \in DOMAIN q : k > n + 1 /\ IsMark(q[k])
    <3>1. m + 1 \in DOMAIN q /\ m + 1 > n + 1 /\ IsMark(q[m + 1])
      BY <1>1, <2>1
    <3> QED BY <3>1
  <2>2. ASSUME NEW m \in DOMAIN q, m > n + 1, IsMark(q[m]) PROVE \E k \in DOMAIN t : k > n /\ IsMark(t[k])
    <3>1. m - 1 \in DOMAIN t /\ m - 1 > n /\ IsMark(t[m - 1])
      BY <1>1, <2>2
    <3> QED BY <3>1
  <2> QED BY <2>1, <2>2
<1>3. ASSUME NEW n \in DOMAIN t, t[n].kind = "Data"
      PROVE  /\ c[t[n].data.id] + 1 >= B /\ c[t[n].data.id] <= B
             /\ c[t[n].data.id] < B <=> (early \/ \E m \in DOMAIN t : m > n /\ IsMark(t[m]))
  <2>1. n + 1 \in DOMAIN q /\ t[n] = q[n + 1]
    BY <1>1
  <2> QED BY <1>2, <1>3, <2>1 DEF CutAt
<1> QED BY <1>3 DEF CutAt, t

\* ... to which something is added that is no mark, ...
LEMMA CutSent ==
  ASSUME NEW S, NEW q \in Seq(S), NEW m \in S, NEW c, NEW B, NEW early \in BOOLEAN, CutAt(q, c, B, early),
         ~IsMark(m),
         m.kind = "Data" => /\ c[m.data.id] + 1 >= B /\ c[m.data.id] <= B
                            /\ c[m.data.id] < B <=> early
  PROVE  CutAt(Append(q, m), c, B, early)
<1> DEFINE t == Append(q, m)
           e == Len(q) + 1
<1>1. /\ t \in Seq(S) /\ e \in DOMAIN t /\ t[e] = m /\ e \in Nat
      /\ \A n \in DOMAIN q : n \in Nat /\ n < e /\ n \in DOMAIN t /\ t[n] = q[n]
      /\ \A n \in DOMAIN t : n \in DOMAIN q \/ n = e
  BY AppendAt
<1> HIDE DEF t, e
<1>2. ASSUME NEW n \in DOMAIN q
      PROVE  (\E k \in DOMAIN t : k > n /\ IsMark(t[k])) <=> (\E k \in DOMAIN q : k > n /\ IsMark(q[k]))
  BY <1>1
<1>3. ~\E k \in DOMAIN t : k > e /\ IsMark(t[k])
  BY <1>1
<1>4. ASSUME NEW n \in DOMAIN t, t[n].kind = "Data"
      PROVE  /\ c[t[n].data.id] + 1 >= B /\ c[t[n].data.id] <= B
             /\ c[t[n].data.id] < B <=> (early \/ \E k \in DOMAIN t : k > n /\ IsMark(t[k]))
  <2>1. CASE n \in DOMAIN q
    BY <1>1, <1>2, <1>4, <2>1 DEF CutAt
  <2>2. CASE n = e
    BY <1>1, <1>3, <1>4, <2>2
  <2> QED BY <1>1, <2>1, <2>2
<1> QED BY <1>4 DEF CutAt, t

\* ... to which the mark is added, ...
LEMMA CutMarked ==
  ASSUME NEW S, NEW q \in Seq(S), NEW m \in S, NEW c, NEW B, CutAt(q, c, B, TRUE), IsMark(m)
  PROVE  CutAt(Append(q, m), c, B, FALSE)
<1> DEFINE t == Append(q, m)
           e == Len(q) + 1
<1>1. /\ t \in Seq(S) /\ e \in DOMAIN t /\ t[e] = m /\ e \in Nat
      /\ \A n \in DOMAIN q : n \in Nat /\ n < e /\ n \in DOMAIN t /\ t[n] = q[n]
      /\ \A n \in DOMAIN t : n \in DOMAIN q \/ n = e
  BY AppendAt
<1> HIDE DEF t, e
<1>2. ASSUME NEW n \in DOMAIN t, t[n].kind = "Data"
      PROVE  /\ c[t[n].data.id] + 1 >= B /\ c[t[n].data.id] <= B
             /\ c[t[n].data.id] < B
             /\ \E k \in DOMAIN t : k > n /\ IsMark(t[k])
  <2>1. n \in DOMAIN q
    BY <1>1, <1>2 DEF IsMark
  <2> QED BY <1>1, <1>2, <2>1 DEF CutAt
<1> QED BY <1>2 DEF CutAt, t

\* ... and when the next round begins or a new message gets its round.
LEMMA CutNextRound ==
  ASSUME NEW q, NEW c, NEW B \in Nat, CutAt(q, c, B, FALSE), ~Marked(q),
         \A n \in DOMAIN q : q[n].kind = "Data" => c[q[n].data.id] \in Nat
  PROVE  CutAt(q, c, B + 1, TRUE)
<1> SUFFICES ASSUME NEW n \in DOMAIN q, q[n].kind = "Data"
             PROVE  /\ c[q[n].data.id] + 1 >= B + 1 /\ c[q[n].data.id] <= B + 1
                    /\ c[q[n].data.id] < B + 1
  BY DEF CutAt
<1>1. c[q[n].data.id] <= B /\ ~(c[q[n].data.id] < B) /\ c[q[n].data.id] \in Nat
  BY DEF CutAt, Marked
<1> QED BY <1>1

LEMMA CutOthers ==
  ASSUME NEW q, NEW c, NEW c2, NEW B, NEW early, CutAt(q, c, B, early),
         \A n \in DOMAIN q : q[n].kind = "Data" => c2[q[n].data.id] = c[q[n].data.id]
  PROVE  CutAt(q, c2, B, early)
  BY DEF CutAt

LEMMA HasTaken ==
  ASSUME NEW S, NEW q \in Seq(S), q # <<>>, NEW i
  PROVE  Has(q, i) <=> Has(Tail(q), i) \/ Carries(Head(q), i)
<1> DEFINE t == Tail(q)
           h == Head(q)
<1>1. /\ 1 \in DOMAIN q /\ h = q[1]
      /\ \A n \in DOMAIN t : n \in Nat /\ n >= 1 /\ n + 1 \in DOMAIN q /\ t[n] = q[n + 1]
      /\ \A n \in DOMAIN q : n \in Nat /\ n >= 1 /\ (n # 1 => n - 1 \in DOMAIN t /\ t[n - 1] = q[n])
  BY TailAt
<1> HIDE DEF t, h
<1>2. Has(q, i) <=> Has(t, i) \/ Carries(h, i)
  BY <1>1 DEF Has
<1> QED BY <1>2 DEF t, h

----------------------------------------------------------------------------
\* What a step does to the queues.

\* p is q and after it messages of the kinds K.
Grown(q, p, K) ==
  /\ \A n \in DOMAIN q : n \in DOMAIN p /\ p[n] = q[n]
  /\ \A n \in DOMAIN p : n \notin DOMAIN q => p[n].kind \in K /\ \A m \in DOMAIN q : m < n

\* Neither data nor epoch nor barrier.
Dull == {"Upgrade", "AckUpgrade", "SuspendMarker", "Rescale", "Interrogate"}

LEMMA HasAdded ==
  ASSUME NEW S, NEW q \in Seq(S), NEW m \in S, NEW i
  PROVE  Has(Append(q, m), i) <=> Has(q, i) \/ Carries(m, i)
<1> DEFINE t == Append(q, m)
           e == Len(q) + 1
<1>1. /\ e \in DOMAIN t /\ t[e] = m
      /\ \A n \in DOMAIN q : n \in DOMAIN t /\ t[n] = q[n]
      /\ \A n \in DOMAIN t : n \in DOMAIN q \/ n = e
  BY AppendAt
<1> HIDE DEF t, e
<1>2. Has(t, i) <=> Has(q, i) \/ Carries(m, i)
  BY <1>1 DEF Has
<1> QED BY <1>2 DEF t

LEMMA GrownSame == ASSUME NEW q, NEW K PROVE Grown(q, q, K)
  BY DEF Grown

LEMMA GrownAppend ==
  ASSUME NEW S, NEW q \in Seq(S), NEW m \in S, NEW K, m.kind \in K PROVE Grown(q, Append(q, m), K)
<1> DEFINE t == Append(q, m)
           e == Len(q) + 1
<1>1. /\ t \in Seq(S) /\ e \in DOMAIN t /\ t[e] = m /\ e \in Nat
      /\ \A n \in DOMAIN q : n \in Nat /\ n < e /\ n \in DOMAIN t /\ t[n] = q[n]
      /\ \A n \in DOMAIN t : n \in DOMAIN q \/ n = e
  BY AppendAt
<1> HIDE DEF t, e
<1>2. Grown(q, t, K)
  BY <1>1 DEF Grown
<1> QED BY <1>2 DEF t

LEMMA GrownJoin ==
  ASSUME NEW S, NEW q \in Seq(S), NEW z \in Seq(S), NEW K, \A n \in DOMAIN z : z[n].kind \in K
  PROVE  Grown(q, q \o z, K)
<1> DEFINE t == q \o z
<1>1. /\ Len(q) \in Nat /\ DOMAIN q = 1..Len(q) /\ Len(z) \in Nat /\ DOMAIN z = 1..Len(z)
      /\ DOMAIN t = 1..(Len(q) + Len(z))
      /\ \A n \in 1..(Len(q) + Len(z)) : t[n] = IF n <= Len(q) THEN q[n] ELSE z[n - Len(q)]
  BY ConcatProperties, LenProperties
<1> HIDE DEF t
<1>2. \A n \in DOMAIN q : n \in DOMAIN t /\ t[n] = q[n]
  BY <1>1
<1>3. ASSUME NEW n \in DOMAIN t, n \notin DOMAIN q PROVE t[n].kind \in K /\ \A m \in DOMAIN q : m < n
  <2>1. n - Len(q) \in DOMAIN z /\ t[n] = z[n - Len(q)]
    BY <1>1, <1>3
  <2> QED BY <1>1, <1>3, <2>1
<1>4. Grown(q, t, K)
  BY <1>2, <1>3 DEF Grown
<1> QED BY <1>4 DEF t

LEMMA GrownWider ==
  ASSUME NEW q, NEW p, NEW K, NEW L, K \subseteq L, Grown(q, p, K) PROVE Grown(q, p, L)
  BY DEF Grown

LEMMA GrownFurther ==
  ASSUME NEW S, NEW q \in Seq(S), NEW p \in Seq(S), NEW t \in Seq(S), NEW K, Grown(q, p, K), Grown(p, t, K)
  PROVE  Grown(q, t, K)
  BY DEF Grown

\* Such messages are nothing to epochs and data, ...
LEMMA GrownInOrder ==
  ASSUME NEW S, NEW q \in Seq(S), NEW p \in Seq(S), NEW K, Grown(q, p, K), "Data" \notin K, "Epoch" \notin K
  PROVE  /\ \A f, s : InOrder(q, f, s) => InOrder(p, f, s)
         /\ \A f : InTime(q, f) => InTime(p, f)
         /\ \A n \in DOMAIN p : p[n].kind \in {"Data", "Epoch"} => n \in DOMAIN q /\ q[n] = p[n]
         /\ \A i : Has(p, i) <=> Has(q, i)
<1>1. \A n \in DOMAIN p : p[n].kind \in {"Data", "Epoch"} => n \in DOMAIN q /\ q[n] = p[n]
  BY DEF Grown
<1>2. ASSUME NEW f, NEW s, InOrder(q, f, s) PROVE InOrder(p, f, s)
  BY <1>1, <1>2 DEF InOrder
<1>3. ASSUME NEW f, InTime(q, f) PROVE InTime(p, f)
  <2>1. \A n \in DOMAIN p : \A m \in 1..(n - 1) : m \in DOMAIN p
    OBVIOUS
  <2> QED BY <1>1, <1>3, <2>1 DEF InTime
<1>4. ASSUME NEW i PROVE Has(p, i) <=> Has(q, i)
  BY <1>1 DEF Has, Carries, Grown
<1> QED BY <1>1, <1>2, <1>3, <1>4

\* ... and those that are no marks are nothing to barriers.
MarkSame(q, p) == (Marked(p) <=> Marked(q)) /\ (OneMark(q) => OneMark(p))

LEMMA GrownMarks ==
  ASSUME NEW S, NEW q \in Seq(S), NEW p \in Seq(S), NEW K, Grown(q, p, K),
         "BarrierMarker" \notin K, "AbsBarrier" \notin K
  PROVE  MarkSame(q, p)
<1>1. \A n \in DOMAIN p : p[n].kind \in {"BarrierMarker", "AbsBarrier"} => n \in DOMAIN q /\ q[n] = p[n]
  BY DEF Grown
<1>2. Marked(p) <=> Marked(q)
  BY <1>1 DEF Marked, IsMark, Grown
<1>3. OneMark(q) => OneMark(p)
  BY <1>1 DEF OneMark, IsMark
<1> QED BY <1>2, <1>3 DEF MarkSame

LEMMA GrownCut ==
  ASSUME NEW S, NEW q \in Seq(S), NEW p \in Seq(S), NEW K, Grown(q, p, K),
         "BarrierMarker" \notin K, "AbsBarrier" \notin K, "Data" \notin K
  PROVE  \A c, B, early : CutAt(q, c, B, early) => CutAt(p, c, B, early)
<1>1. \A n \in DOMAIN p : p[n].kind \in {"Data", "BarrierMarker", "AbsBarrier"} => n \in DOMAIN q /\ q[n] = p[n]
  BY DEF Grown
<1>2. ASSUME NEW c, NEW B, NEW early, CutAt(q, c, B, early) PROVE CutAt(p, c, B, early)
  <2>1. \A n \in DOMAIN q : (\E m \in DOMAIN p : m > n /\ IsMark(p[m])) <=> (\E m \in DOMAIN q : m > n /\ IsMark(q[m]))
    BY <1>1 DEF IsMark, Grown
  <2> QED BY <1>1, <1>2, <2>1 DEF CutAt
<1> QED BY <1>2

----------------------------------------------------------------------------
\* The routers of a cluster that keeps its workers.

\* Every router sends a key to its owner, in whatever state it is.
LEMMA SteadyRoute ==
  ASSUME TypeOK, Settled, NEW w \in InitWorkers, NEW k \in Keys, NEW sender, NEW v \in Int,
         v > version[w] => Owner(k) = w
  PROVE  /\ RouteMessage(w, k, sender, v) = Owner(k) /\ Whitelisted(w, k, v) = {}
         /\ Owner(k) \in remotes[w] \cup {w} /\ Owner(k) # Buffer
<1> USE DEF TypeOK
<1>1. /\ w \in Workers /\ InitWorkers \in WorkerSets /\ InitWorkers \subseteq Workers
  BY DistributorAssumption DEF WorkerSets
<1>2. /\ oldSet[w] = InitWorkers /\ newSet[w] = InitWorkers /\ whitelist[w] = {}
      /\ collecting[w] = NoKey /\ remotes[w] = InitWorkers \ {w}
  BY DEF Settled, Others
<1>3. NewTarget(w, k) = Owner(k) /\ OldTarget(w, k) = Owner(k)
  BY <1>2 DEF NewTarget, OldTarget, Owner
<1>4. Owner(k) \in InitWorkers
  BY <1>1, TargetAssumption DEF Owner
<1>5. version[w] \in Nat /\ mode[w] \in {"Normal", "Interrogate", "Collect", "Finished"}
  BY <1>1 DEF RouterTypeOK, Modes
<1>6. collecting[w] # k
  BY <1>2, NoKeyAssumption
<1>7. RouteInterrogate(w, k) = Owner(k) /\ RouteCollect(w, k, sender) = Owner(k) /\ RouteFinished(w, k, sender) = Owner(k)
  BY <1>2, <1>3, <1>6 DEF RouteInterrogate, RouteCollect, RouteFinished
<1>8. RouteMessage(w, k, sender, v) = Owner(k)
  <2>1. CASE v > version[w]
    BY <1>5, <2>1 DEF RouteMessage
  <2>2. CASE v <= version[w] /\ ~(v > version[w])
    BY <1>3, <1>5, <1>7, <2>2 DEF RouteMessage
  <2> QED BY <1>5, <2>1, <2>2
<1>9. Whitelisted(w, k, v) = {}
  BY <1>2, <1>3 DEF Whitelisted
<1> QED BY <1>1, <1>2, <1>4, <1>8, <1>9, NoKeyAssumption DEF Buffer

LEMMA SteadyHandle ==
  ASSUME TypeOK, Settled, NEW w \in InitWorkers, NEW d \in DataMessage, NEW sender, NEW v \in Int,
         NEW c, NEW next, v > version[w] => Owner(d.key) = w, HandleData(w, d, sender, v, c, next)
  PROVE  /\ UNCHANGED <<mode, version, oldSet, newSet, whitelist, collecting, buffered, panicked>>
         /\ turn' = next
         /\ Owner(d.key) = w => chan' = c
         /\ Owner(d.key) = w => out' = [out EXCEPT ![w] = Append(@, [kind |-> "Data", data |-> d])]
         /\ Owner(d.key) # w =>
              /\ Owner(d.key) \in Others(w) /\ out' = out
              /\ chan' = [c EXCEPT ![<<w, Owner(d.key)>>] =
                            Append(@, [kind |-> "Data", data |-> d, version |-> version[w]])]
<1>1. d.key \in Keys
  BY DEF DataMessage
<1>2. /\ RouteMessage(w, d.key, sender, v) = Owner(d.key) /\ Whitelisted(w, d.key, v) = {}
      /\ Owner(d.key) \in remotes[w] \cup {w} /\ Owner(d.key) # Buffer
  BY <1>1, SteadyRoute
<1>3. whitelist[w] = {} /\ remotes[w] = Others(w) /\ w \notin remotes[w]
  BY DEF Settled, Others
<1>4. whitelist' = [whitelist EXCEPT ![w] = {}]
  BY <1>2 DEF HandleData
<1>5. w \in Workers /\ whitelist \in [Workers -> SUBSET Keys]
  BY DistributorAssumption DEF WorkerSets, TypeOK, RouterTypeOK
<1>6. whitelist' = whitelist
  BY <1>3, <1>4, <1>5
<1> HIDE DEF Owner
<1> QED BY <1>2, <1>3, <1>6 DEF HandleData

----------------------------------------------------------------------------
\* The steps, as epochs and barriers see them.

alignVars == <<localFrontier, opFrontier, localBarrier, taken, persisted, barrierRound, opState,
               snapshot, cut, nextId>>

\* Only dull messages are added.
Uneventful ==
  /\ \A l \in Links : Grown(chan[l], chan'[l], Dull)
  /\ \A w \in Workers : Grown(out[w], out'[w], Dull)
  /\ \A w \in InitWorkers : \A r \in Others(w) :
       barred'[w][r] = barred[w][r] /\ frontier'[w][r] = frontier[w][r]
  /\ UNCHANGED alignVars

\* w takes the message m off its link from r.
Takes(w, r, m) ==
  /\ w \in InitWorkers /\ r \in Others(w) /\ r \in turn.poll /\ turn.worker = w
  /\ chan[<<r, w>>] # <<>> /\ m = Head(chan[<<r, w>>])
  /\ m \in NetworkMessage
  /\ chan'[<<r, w>>] = Tail(chan[<<r, w>>])
  /\ \A l \in Links \ {<<r, w>>} : Grown(chan[l], chan'[l], {"AckUpgrade"})
  /\ out' = [out EXCEPT ![w] = CASE m.kind = "Data"  -> Append(@, [kind |-> "Data", data |-> m.data])
                                 [] m.kind = "Epoch" -> @ \o HandleEpoch(w, frontier'[w], localFrontier[w])
                                 [] OTHER -> @]
  /\ frontier' = IF m.kind = "Epoch" THEN [frontier EXCEPT ![w][r] = m.ts] ELSE frontier
  /\ barred' = IF m.kind = "BarrierMarker" THEN [barred EXCEPT ![w][r] = TRUE] ELSE barred
  /\ UNCHANGED alignVars

\* w accepts the message d from its upstream and hands it to its owner.
Emits(w, d) ==
  /\ w \in InitWorkers /\ d \in DataMessage /\ d.id = nextId /\ d.ts > localFrontier[w] /\ ~localBarrier[w]
  /\ \/ /\ out' = [out EXCEPT ![w] = Append(@, [kind |-> "Data", data |-> d])]
        /\ chan' = chan
     \/ /\ \E y \in Others(w) : chan' = [chan EXCEPT ![<<w, y>>] =
                                Append(@, [kind |-> "Data", data |-> d, version |-> version[w]])]
        /\ out' = out
  /\ nextId' = nextId + 1 /\ cut' = [cut EXCEPT ![nextId] = taken[w]]
  /\ UNCHANGED <<barred, frontier, localFrontier, opFrontier, localBarrier, taken, persisted,
                 barrierRound, opState, snapshot>>

\* w passes the barrier on.
Passes(w) ==
  /\ w \in InitWorkers /\ localBarrier[w] /\ \A r \in Others(w) : barred[w][r] \/ sentSuspend[w][r]
  /\ localBarrier' = [localBarrier EXCEPT ![w] = FALSE]
  /\ barred' = [barred EXCEPT ![w] = [r \in Workers |-> FALSE]]
  /\ \A l \in Links : Grown(chan[l], chan'[l], Dull)
  /\ \A x \in Workers \ {w} : out'[x] = out[x]
  /\ Grown(Append(out[w], [kind |-> "AbsBarrier"]), out'[w], Dull)
  /\ UNCHANGED <<frontier, localFrontier, opFrontier, taken, persisted, barrierRound, opState,
                 snapshot, cut, nextId>>

LEMMA SettledWorkers ==
  ASSUME TypeOK, Settled
  PROVE  /\ InitWorkers \subseteq Workers /\ \A w \in InitWorkers : Others(w) \subseteq Workers
         /\ \A w \in InitWorkers : \A r \in Others(w) : <<w, r>> \in Links /\ <<r, w>> \in Links /\ <<w, r>> # <<r, w>>
         /\ chan \in [Links -> Seq(NetworkMessage)] /\ out \in [Workers -> Seq(OperatorMessage)]
  BY DistributorAssumption DEF WorkerSets, Others, Links, TypeOK, LinkTypeOK

LEMMA SettledStays ==
  ASSUME TypeOK, TypeOK', Settled, UNCHANGED <<alive, remotes, oldSet, newSet, whitelist, collecting>>,
         \A w \in InitWorkers : NoMove(out'[w]) /\ \A r \in Others(w) : LeadsTo(chan'[<<r, w>>], w),
         turn'.poll \subseteq Others(turn'.worker)
  PROVE  Settled'
  BY DEF Settled, NoMove, LeadsTo, Others, Owner

\* Links and queues stay what they are in a cluster that keeps its workers.
Harmless == Dull \cup {"Epoch", "BarrierMarker", "AbsBarrier"}

LEMMA TakenSettled ==
  ASSUME NEW S, NEW q \in Seq(S), q # <<>>
  PROVE  (\A w : LeadsTo(q, w) => LeadsTo(Tail(q), w)) /\ (NoMove(q) => NoMove(Tail(q)))
<1>1. \A n \in DOMAIN Tail(q) : n + 1 \in DOMAIN q /\ Tail(q)[n] = q[n + 1]
  BY TailAt
<1> QED BY <1>1 DEF LeadsTo, NoMove

LEMMA GrownSettled ==
  ASSUME NEW q, NEW p, Grown(q, p, Dull) \/ Grown(q, p, Harmless)
  PROVE  (\A w : LeadsTo(q, w) => LeadsTo(p, w)) /\ (NoMove(q) => NoMove(p))
  BY DEF Grown, Dull, Harmless, LeadsTo, NoMove

LEMMA SentSettled ==
  ASSUME NEW S, NEW q \in Seq(S), NEW m \in S, m.kind = "Data"
  PROVE  (\A w : Owner(m.data.key) = w /\ LeadsTo(q, w) => LeadsTo(Append(q, m), w))
         /\ (NoMove(q) => NoMove(Append(q, m)))
<1>1. \A n \in DOMAIN Append(q, m) : (n \in DOMAIN q /\ Append(q, m)[n] = q[n]) \/ Append(q, m)[n] = m
  BY AppendAt
<1> QED BY <1>1 DEF LeadsTo, NoMove

\* handle_epoch emits nothing or an epoch that all inputs have reached.
LEMMA EpochEmitted ==
  ASSUME TypeOK, NEW w \in Workers, NEW f \in [Workers -> Nat], NEW local \in Nat
  PROVE  \/ HandleEpoch(w, f, local) = <<>>
         \/ \E t \in Nat \ {NoTime} :
              /\ HandleEpoch(w, f, local) = <<[kind |-> "Epoch", ts |-> t]>>
              /\ t <= local /\ \A r \in remotes[w] : t <= f[r]
<1> DEFINE all == Frontiers(w, f, local)
<1>1. all \subseteq Nat /\ local \in all /\ \A r \in remotes[w] : f[r] \in all
  BY DEF Frontiers, TypeOK, PeerTypeOK
<1>2. CASE \E t \in all : t # NoTime /\ \A u \in all : t <= u
  <2>1. PICK t \in all : t # NoTime /\ \A u \in all : t <= u
    BY <1>2
  <2>2. MergeTimestamps(all) \in all /\ \A u \in all : MergeTimestamps(all) <= u
    BY <2>1 DEF MergeTimestamps
  <2>3. MergeTimestamps(all) = t
    BY <1>1, <2>1, <2>2
  <2> HIDE DEF all
  <2>4. HandleEpoch(w, f, local) = <<[kind |-> "Epoch", ts |-> t]>>
    BY <1>2, <2>3 DEF HandleEpoch, all
  <2> QED BY <1>1, <2>1, <2>4
<1>3. CASE ~\E t \in all : t # NoTime /\ \A u \in all : t <= u
  BY <1>3 DEF HandleEpoch
<1> QED BY <1>2, <1>3

LEMMA EpochGrows ==
  ASSUME TypeOK, NEW w \in Workers, NEW f \in [Workers -> Nat], NEW local \in Nat,
         NEW q \in Seq(OperatorMessage)
  PROVE  Grown(q, q \o HandleEpoch(w, f, local), Harmless)
<1>1. HandleEpoch(w, f, local) \in Seq(OperatorMessage)
  BY HandleEpochType DEF TypeOK, PeerTypeOK
<1>2. \A n \in DOMAIN HandleEpoch(w, f, local) : HandleEpoch(w, f, local)[n].kind \in Harmless
  BY EpochEmitted DEF Harmless
<1> HIDE DEF HandleEpoch
<1> QED BY <1>1, <1>2, GrownJoin

\* Distributor::run handles a message of a remote.
LEMMA ReceiveSteady ==
  ASSUME IInv, IInv', Settled, NEW w \in Workers, NEW r \in Workers, ReceiveRemote(w, r)
  PROVE  Takes(w, r, Head(chan[<<r, w>>])) /\ Settled' /\ turn' = [turn EXCEPT !.poll = @ \ {r}]
         /\ (sentSuspend' = sentSuspend \/ Head(chan[<<r, w>>]).kind = "SuspendMarker")
<1> USE DEF IInv
<1> DEFINE m == Head(chan[<<r, w>>])
<1>1. turn.worker = w /\ r \in turn.poll /\ chan[<<r, w>>] # <<>>
  BY DEF ReceiveRemote, InRun, RescaleInv, PolledLinksFilled
<1>2. w \in InitWorkers /\ r \in Others(w)
  <2>1. RunStep(w)
    BY DEF RunStep
  <2>2. w \in alive
    BY <2>1, RunningIsAlive DEF RescaleInv
  <2> QED BY <1>1, <2>2 DEF Settled
<1>3. /\ chan \in [Links -> Seq(NetworkMessage)] /\ out \in [Workers -> Seq(OperatorMessage)]
      /\ <<w, r>> \in Links /\ <<r, w>> \in Links /\ <<w, r>> # <<r, w>>
  BY <1>2, SettledWorkers
<1>4. m \in NetworkMessage /\ m = chan[<<r, w>>][1] /\ 1 \in DOMAIN chan[<<r, w>>]
  BY <1>1, <1>3, TailAt
<1>5. m.kind # "Acquire" /\ (m.kind = "Data" => Owner(m.data.key) = w /\ m.data \in DataMessage /\ m.version \in Nat)
  BY <1>2, <1>4, NetworkFields DEF Settled, LeadsTo
<1>6. ReceiveRemote(w, r) <=> 
       /\ InRun(w, "recv") /\ r \in turn.poll
       /\ \/ RemoteData(w, r, m)
          \/ /\ \/ RemoteEpoch(w, r, m)
                \/ RemoteMarker(w, r, m)
                \/ RemoteAcquire(w, r, m)
                \/ RemoteUpgrade(w, r, m)
                \/ RemoteAckUpgrade(w, r, m)
             /\ chan' = IF m.kind = "Upgrade"
                        THEN [Popped(r, w) EXCEPT ![<<w, r>>] =
                                Append(@, [kind |-> "AckUpgrade", version |-> m.version])]
                        ELSE Popped(r, w)
             /\ turn' = [turn EXCEPT !.poll = @ \ {r}]
             /\ UNCHANGED <<routerVars, localVars, suspended, opVars, panicked, envVars, histVars>>
  BY DEF ReceiveRemote
<1> HIDE DEF m
<1>7. /\ Popped(r, w)[<<r, w>>] = Tail(chan[<<r, w>>])
      /\ \A l \in Links \ {<<r, w>>} : Popped(r, w)[l] = chan[l]
      /\ Popped(r, w) \in [Links -> Seq(NetworkMessage)]
  BY <1>1, <1>3, LinkTypes DEF Popped
<1>8. CASE RemoteData(w, r, m)
  <2>1. /\ m.kind = "Data" /\ HandleData(w, m.data, r, m.version, Popped(r, w), [turn EXCEPT !.poll = @ \ {r}])
        /\ UNCHANGED <<peerVars, remoteVars, localVars, suspended, opVars, envVars, histVars>>
    BY <1>8 DEF RemoteData
  <2>2. /\ UNCHANGED <<mode, version, oldSet, newSet, whitelist, collecting, buffered, panicked>>
        /\ turn' = [turn EXCEPT !.poll = @ \ {r}]
        /\ out' = [out EXCEPT ![w] = Append(@, [kind |-> "Data", data |-> m.data])] /\ chan' = Popped(r, w)
    <3>1. m.data \in DataMessage /\ m.version \in Int /\ Owner(m.data.key) = w
      BY <1>5, <2>1
    <3> DEFINE next == [turn EXCEPT !.poll = @ \ {r}]
               c == Popped(r, w)
    <3>2. HandleData(w, m.data, r, m.version, c, next)
      BY <2>1
    <3> HIDE DEF next, c
    <3>4. turn' = next
      BY <1>2, <3>1, <3>2, SteadyHandle
    <3>5. UNCHANGED <<mode, version, oldSet, newSet, whitelist, collecting, buffered, panicked>>
      BY <1>2, <3>1, <3>2, SteadyHandle
    <3>6. chan' = c
      <4>1. m.data.key \in Keys
        BY <3>1 DEF DataMessage
      <4>2. RouteMessage(w, m.data.key, r, m.version) = w
        BY <1>2, <3>1, <4>1, SteadyRoute
      <4>3. w \notin remotes[w]
        BY <1>2 DEF Settled, Others
      <4> QED BY <3>2, <4>2, <4>3 DEF HandleData
    <3>7. out' = [out EXCEPT ![w] = Append(@, [kind |-> "Data", data |-> m.data])]
      BY <1>2, <3>1, <3>2, SteadyHandle
    <3>3. /\ UNCHANGED <<mode, version, oldSet, newSet, whitelist, collecting, buffered, panicked>>
          /\ turn' = next
          /\ out' = [out EXCEPT ![w] = Append(@, [kind |-> "Data", data |-> m.data])] /\ chan' = c
      BY <3>4, <3>5, <3>6, <3>7
    <3> QED BY <3>3 DEF next, c
  <2>3. \A l \in Links \ {<<r, w>>} : Grown(chan[l], chan'[l], {"AckUpgrade"})
    BY <1>7, <2>2, GrownSame
  <2>4. Takes(w, r, m)
    BY <1>1, <1>2, <1>4, <1>7, <2>1, <2>2, <2>3 DEF Takes, m, remoteVars, localVars, opVars, envVars, histVars, alignVars
  <2>5. UNCHANGED <<alive, remotes, oldSet, newSet, whitelist, collecting>>
    BY <2>1, <2>2 DEF peerVars, envVars
  <2>6. [kind |-> "Data", data |-> m.data] \in OperatorMessage
    BY <1>5, <2>1, MessageTypes
  <2>7. \A x \in InitWorkers : NoMove(out'[x])
    <3> SUFFICES ASSUME NEW x \in InitWorkers PROVE NoMove(out'[x])
      OBVIOUS
    <3>1. x \in Workers /\ out[x] \in Seq(OperatorMessage) /\ NoMove(out[x])
      BY <1>3, SettledWorkers DEF Settled
    <3>2. CASE x = w
      <4>1. out'[x] = Append(out[x], [kind |-> "Data", data |-> m.data])
        BY <1>3, <2>2, <3>2
      <4> QED BY <2>6, <3>1, <4>1, SentSettled
    <3>3. CASE x # w
      BY <1>3, <2>2, <3>1, <3>3
    <3> QED BY <3>2, <3>3
  <2>8. \A x \in InitWorkers : \A y \in Others(x) : LeadsTo(chan'[<<y, x>>], x)
    <3> SUFFICES ASSUME NEW x \in InitWorkers, NEW y \in Others(x) PROVE LeadsTo(chan'[<<y, x>>], x)
      OBVIOUS
    <3>1. <<y, x>> \in Links /\ chan[<<y, x>>] \in Seq(NetworkMessage) /\ LeadsTo(chan[<<y, x>>], x)
      BY <1>3, SettledWorkers DEF Settled
    <3>2. CASE <<y, x>> = <<r, w>>
      <4>1. chan[<<y, x>>] # <<>> /\ chan'[<<y, x>>] = Tail(chan[<<y, x>>])
        BY <1>1, <1>7, <2>2, <3>2
      <4> QED BY <3>1, <4>1, TakenSettled
    <3>3. CASE <<y, x>> # <<r, w>>
      BY <1>7, <2>2, <3>1, <3>3
    <3> QED BY <3>2, <3>3
  <2>9. turn'.poll \subseteq Others(turn'.worker)
    BY <2>2 DEF Settled, TypeOK, LocalTypeOK, Turns, Idle
  <2> QED BY <2>1, <2>2, <2>4, <2>5, <2>7, <2>8, <2>9, SettledStays DEF m, remoteVars
<1>9. ASSUME RemoteEpoch(w, r, m) \/ RemoteMarker(w, r, m) \/ RemoteAcquire(w, r, m)
             \/ RemoteUpgrade(w, r, m) \/ RemoteAckUpgrade(w, r, m),
             chan' = IF m.kind = "Upgrade"
                     THEN [Popped(r, w) EXCEPT ![<<w, r>>] =
                             Append(@, [kind |-> "AckUpgrade", version |-> m.version])]
                     ELSE Popped(r, w),
             turn' = [turn EXCEPT !.poll = @ \ {r}],
             UNCHANGED <<routerVars, localVars, suspended, opVars, panicked, envVars, histVars>>
      PROVE  /\ Takes(w, r, m) /\ Settled' /\ turn' = [turn EXCEPT !.poll = @ \ {r}]
             /\ (sentSuspend' = sentSuspend \/ m.kind = "SuspendMarker")
  <2>1. /\ chan'[<<r, w>>] = Tail(chan[<<r, w>>])
        /\ \A l \in Links \ {<<r, w>>} : Grown(chan[l], chan'[l], {"AckUpgrade"})
    <3>1. CASE m.kind # "Upgrade"
      BY <1>7, <1>9, <3>1, GrownSame
    <3>2. CASE m.kind = "Upgrade"
      <4> DEFINE a == [kind |-> "AckUpgrade", version |-> m.version]
      <4>1. a \in NetworkMessage /\ a.kind \in {"AckUpgrade"}
        BY <1>4, <3>2, NetworkFields, MessageTypes
      <4> HIDE DEF a
      <4>2. chan' = [Popped(r, w) EXCEPT ![<<w, r>>] = Append(@, a)]
        BY <1>9, <3>2 DEF a
      <4>3. /\ chan'[<<w, r>>] = Append(chan[<<w, r>>], a)
            /\ chan'[<<r, w>>] = Popped(r, w)[<<r, w>>]
            /\ \A l \in Links \ {<<r, w>>, <<w, r>>} : chan'[l] = chan[l]
        BY <1>3, <1>7, <4>2
      <4>4. Grown(chan[<<w, r>>], chan'[<<w, r>>], {"AckUpgrade"})
        BY <1>3, <4>1, <4>3, GrownAppend
      <4> QED BY <1>7, <4>3, <4>4, GrownSame
    <3> QED BY <3>1, <3>2
  <2>2. /\ out' = [out EXCEPT ![w] = CASE m.kind = "Data"  -> Append(@, [kind |-> "Data", data |-> m.data])
                                     [] m.kind = "Epoch" -> @ \o HandleEpoch(w, frontier'[w], localFrontier[w])
                                     [] OTHER -> @]
        /\ frontier' = IF m.kind = "Epoch" THEN [frontier EXCEPT ![w][r] = m.ts] ELSE frontier
        /\ barred' = IF m.kind = "BarrierMarker" THEN [barred EXCEPT ![w][r] = TRUE] ELSE barred
        /\ (sentSuspend' = sentSuspend \/ m.kind = "SuspendMarker")
        /\ remotes' = remotes
    <3> HIDE DEF HandleEpoch
    <3>1. CASE RemoteEpoch(w, r, m)
      BY <1>3, <3>1 DEF RemoteEpoch, peerVars
    <3>2. CASE RemoteMarker(w, r, m)
      BY <1>3, <3>2 DEF RemoteMarker, peerVars
    <3>3. CASE RemoteUpgrade(w, r, m) \/ RemoteAckUpgrade(w, r, m)
      BY <1>3, <3>3 DEF RemoteUpgrade, RemoteAckUpgrade, peerVars, remoteVars
    <3> QED BY <1>5, <1>9, <3>1, <3>2, <3>3 DEF RemoteAcquire
  <2>3. UNCHANGED alignVars /\ UNCHANGED <<alive, oldSet, newSet, whitelist, collecting>>
    BY <1>9 DEF alignVars, routerVars, localVars, opVars, envVars, histVars
  <2>4. Takes(w, r, m)
    BY <1>1, <1>2, <1>4, <2>1, <2>2, <2>3 DEF Takes, m
  <2>5. \A x \in InitWorkers : NoMove(out'[x])
    <3> SUFFICES ASSUME NEW x \in InitWorkers PROVE NoMove(out'[x])
      OBVIOUS
    <3>1. x \in Workers /\ out[x] \in Seq(OperatorMessage) /\ NoMove(out[x])
      BY <1>3, SettledWorkers DEF Settled
    <3>2. CASE out'[x] = out[x]
      BY <3>1, <3>2
    <3>3. CASE x = w /\ m.kind = "Epoch"
      <4>1. frontier'[w] \in [Workers -> Nat] /\ localFrontier[w] \in Nat
        BY DEF TypeOK, PeerTypeOK, LocalTypeOK
      <4>2. out'[x] = out[x] \o HandleEpoch(w, frontier'[w], localFrontier[w])
        BY <1>3, <2>2, <3>3
      <4>3. Grown(out[x], out'[x], Harmless)
        BY <3>1, <4>1, <4>2, EpochGrows
      <4> QED BY <3>1, <4>3, GrownSettled
    <3> QED BY <1>3, <2>2, <1>9, <3>2, <3>3, SMTT(30) DEF RemoteEpoch, RemoteMarker, RemoteAcquire, RemoteUpgrade, RemoteAckUpgrade
  <2>6. \A x \in InitWorkers : \A y \in Others(x) : LeadsTo(chan'[<<y, x>>], x)
    <3> SUFFICES ASSUME NEW x \in InitWorkers, NEW y \in Others(x) PROVE LeadsTo(chan'[<<y, x>>], x)
      OBVIOUS
    <3>1. <<y, x>> \in Links /\ chan[<<y, x>>] \in Seq(NetworkMessage) /\ LeadsTo(chan[<<y, x>>], x)
          /\ chan'[<<y, x>>] \in Seq(NetworkMessage)
      BY <1>3, SettledWorkers DEF Settled, TypeOK, LinkTypeOK
    <3>2. CASE <<y, x>> = <<r, w>>
      BY <1>1, <2>1, <3>1, <3>2, TakenSettled
    <3>3. CASE <<y, x>> # <<r, w>>
      <4>1. Grown(chan[<<y, x>>], chan'[<<y, x>>], {"AckUpgrade"}) /\ {"AckUpgrade"} \subseteq Dull
        BY <2>1, <3>1, <3>3 DEF Dull
      <4>2. Grown(chan[<<y, x>>], chan'[<<y, x>>], Dull)
        BY <4>1, GrownWider
      <4> QED BY <3>1, <4>2, GrownSettled
    <3> QED BY <3>2, <3>3
  <2>7. turn'.poll \subseteq Others(turn'.worker)
    BY <1>9 DEF Settled, TypeOK, LocalTypeOK, Turns, Idle
  <2> QED BY <1>9, <2>2, <2>3, <2>4, <2>5, <2>6, <2>7, SettledStays
<1> QED BY <1>6, <1>8, <1>9 DEF m

\* A message to all remotes.
LEMMA Broadcasting ==
  ASSUME TypeOK, Settled, NEW w \in InitWorkers, NEW m \in NetworkMessage
  PROVE  /\ \A l \in Links : Grown(chan[l], Broadcast(chan, w, m)[l], {m.kind})
         /\ \A x \in InitWorkers : \A y \in Others(x) : Broadcast(chan, w, m)[<<x, y>>] =
              IF x = w THEN Append(chan[<<x, y>>], m) ELSE chan[<<x, y>>]
<1>1. \A l \in Links : chan[l] \in Seq(NetworkMessage)
  BY DEF TypeOK, LinkTypeOK
<1>2. ASSUME NEW l \in Links PROVE Grown(chan[l], Broadcast(chan, w, m)[l], {m.kind})
  <2>1. Broadcast(chan, w, m)[l] = chan[l] \/ Broadcast(chan, w, m)[l] = Append(chan[l], m)
    BY DEF Broadcast
  <2>2. Grown(chan[l], Append(chan[l], m), {m.kind})
    BY <1>1, GrownAppend
  <2>3. Grown(chan[l], chan[l], {m.kind})
    BY GrownSame
  <2> QED BY <2>1, <2>2, <2>3
<1>3. ASSUME NEW x \in InitWorkers, NEW y \in Others(x)
      PROVE  Broadcast(chan, w, m)[<<x, y>>] = IF x = w THEN Append(chan[<<x, y>>], m) ELSE chan[<<x, y>>]
  <2>1. <<x, y>> \in Links /\ <<x, y>>[1] = x /\ <<x, y>>[2] = y
    BY SettledWorkers
  <2>2. x = w => y \in remotes[w]
    BY DEF Settled
  <2> QED BY <2>1, <2>2 DEF Broadcast
<1> QED BY <1>2, <1>3

\* Steps that only add harmless messages.
LEMMA SettledGrows ==
  ASSUME TypeOK, TypeOK', Settled, UNCHANGED <<alive, remotes, oldSet, newSet, whitelist, collecting>>,
         \A l \in Links : Grown(chan[l], chan'[l], Harmless),
         \A w \in Workers : Grown(out[w], out'[w], Harmless),
         turn'.poll = {}
  PROVE  Settled'
<1>1. ASSUME NEW w \in InitWorkers PROVE NoMove(out'[w]) /\ \A r \in Others(w) : LeadsTo(chan'[<<r, w>>], w)
  <2>1. w \in Workers /\ \A r \in Others(w) : <<r, w>> \in Links
    BY SettledWorkers
  <2> QED BY <2>1, GrownSettled DEF Settled
<1> QED BY <1>1, SettledStays

LEMMA AtLocalTurn ==
  ASSUME TypeOK, NEW w \in Workers, AtLocal(w) PROVE ToTail.poll = {} /\ turn.worker = w /\ turn # Idle
<1>1. turn \in [worker : Workers, stage : {"recv", "tail"}, poll : SUBSET Workers]
  BY DistributorAssumption DEF TypeOK, LocalTypeOK, Turns, Idle, AtLocal, InRun
<1> QED BY <1>1, DistributorAssumption DEF AtLocal, InRun, ToTail, Idle

LEMMA LocalDataSteady ==
  ASSUME IInv, IInv', Settled, NEW w \in InitWorkers, LocalData(w)
  PROVE  (\E d \in DataMessage : Emits(w, d)) /\ Settled' /\ turn'.poll = {}
<1> USE DEF IInv
<1>1. w \in Workers /\ AtLocal(w) /\ ~localBarrier[w]
  BY SettledWorkers DEF LocalData, MayReceiveLocal
<1>2. ToTail.poll = {}
  BY <1>1, AtLocalTurn
<1>3. localFrontier[w] \in Nat /\ MaxEpoch \in Nat /\ nextId \in Ids /\ version[w] \in Nat
  BY <1>1, DistributorAssumption DEF TypeOK, LocalTypeOK, RouterTypeOK, EnvTypeOK, LocalData, Ids
<1>4. PICK k \in Keys, ts \in (localFrontier[w] + 1)..(MaxEpoch + 1) :
        HandleData(w, [key |-> k, id |-> nextId, ts |-> ts], w, NoVersion, chan, ToTail)
  BY DEF LocalData
<1>5. ts \in Nat /\ ts > localFrontier[w]
  BY <1>3, <1>4
<1> DEFINE d == [key |-> k, id |-> nextId, ts |-> ts]
<1>6. d \in DataMessage /\ d.id = nextId /\ d.ts = ts /\ d.key = k
  BY <1>3, <1>5 DEF DataMessage, NoTime
<1>7. NoVersion \in Int /\ ~(NoVersion > version[w]) /\ HandleData(w, d, w, NoVersion, chan, ToTail)
  BY <1>3, <1>4 DEF NoVersion
<1> HIDE DEF d
<1>8. /\ UNCHANGED <<mode, version, oldSet, newSet, whitelist, collecting, buffered, panicked>>
      /\ turn' = ToTail
      /\ Owner(d.key) = w => chan' = chan
      /\ Owner(d.key) = w => out' = [out EXCEPT ![w] = Append(@, [kind |-> "Data", data |-> d])]
      /\ Owner(d.key) # w =>
           /\ Owner(d.key) \in Others(w) /\ out' = out
           /\ chan' = [chan EXCEPT ![<<w, Owner(d.key)>>] =
                         Append(@, [kind |-> "Data", data |-> d, version |-> version[w]])]
  BY <1>6, <1>7, SteadyHandle
<1>9. /\ nextId' = nextId + 1 /\ cut' = [cut EXCEPT ![nextId] = taken[w]]
      /\ UNCHANGED <<peerVars, remoteVars, localVars, suspended, opVars, envVars, consumed>>
  BY DEF LocalData
<1>10. Emits(w, d)
  <2>1. CASE Owner(d.key) = w
    BY <1>1, <1>5, <1>6, <1>8, <1>9, <2>1 DEF Emits, remoteVars, localVars, opVars, envVars
  <2>2. CASE Owner(d.key) # w
    BY <1>1, <1>5, <1>6, <1>8, <1>9, <2>2 DEF Emits, remoteVars, localVars, opVars, envVars
  <2> QED BY <2>1, <2>2
<1>11. /\ [kind |-> "Data", data |-> d] \in OperatorMessage
       /\ [kind |-> "Data", data |-> d, version |-> version[w]] \in NetworkMessage
  BY <1>3, <1>6, MessageTypes
<1>12. /\ chan \in [Links -> Seq(NetworkMessage)] /\ out \in [Workers -> Seq(OperatorMessage)]
  BY SettledWorkers
<1>13. \A x \in InitWorkers : NoMove(out'[x])
  <2> SUFFICES ASSUME NEW x \in InitWorkers PROVE NoMove(out'[x])
    OBVIOUS
  <2>1. x \in Workers /\ out[x] \in Seq(OperatorMessage) /\ NoMove(out[x])
    BY <1>12, SettledWorkers DEF Settled
  <2>2. NoMove(Append(out[x], [kind |-> "Data", data |-> d]))
    BY <1>11, <2>1, SentSettled
  <2> QED BY <1>8, <1>12, <2>1, <2>2
<1>14. \A x \in InitWorkers : \A y \in Others(x) : LeadsTo(chan'[<<y, x>>], x)
  <2> SUFFICES ASSUME NEW x \in InitWorkers, NEW y \in Others(x) PROVE LeadsTo(chan'[<<y, x>>], x)
    OBVIOUS
  <2>1. <<y, x>> \in Links /\ chan[<<y, x>>] \in Seq(NetworkMessage) /\ LeadsTo(chan[<<y, x>>], x)
    BY <1>12, SettledWorkers DEF Settled
  <2>2. CASE chan'[<<y, x>>] = chan[<<y, x>>]
    BY <2>1, <2>2
  <2>3. CASE chan'[<<y, x>>] # chan[<<y, x>>]
    <3>1. /\ <<y, x>> = <<w, Owner(d.key)>>
          /\ chan'[<<y, x>>] = Append(chan[<<y, x>>], [kind |-> "Data", data |-> d, version |-> version[w]])
      BY <1>8, <1>12, <2>1, <2>3
    <3>2. Owner(d.key) = x
      BY <3>1
    <3> QED BY <1>11, <2>1, <3>1, <3>2, SentSettled
  <2> QED BY <2>2, <2>3
<1>15. turn'.poll = {} /\ UNCHANGED <<alive, remotes, oldSet, newSet, whitelist, collecting>>
  BY <1>2, <1>8, <1>9 DEF envVars, peerVars
<1>16. Settled'
  BY <1>13, <1>14, <1>15, SettledStays
<1> QED BY <1>6, <1>10, <1>15, <1>16

\* The other local messages and a run without one.
LEMMA NoLocalSteady ==
  ASSUME IInv, IInv', Settled, NEW w \in InitWorkers, NoLocal(w) \/ LocalSuspend(w)
  PROVE  Uneventful /\ Settled' /\ turn'.poll = {} /\ sentSuspend' = sentSuspend
<1> USE DEF IInv
<1>1. w \in Workers /\ AtLocal(w)
  BY SettledWorkers DEF NoLocal, LocalSuspend, MayReceiveLocal
<1>2. turn'.poll = {}
  BY <1>1, AtLocalTurn DEF NoLocal, LocalSuspend
<1>3. \A l \in Links : Grown(chan[l], chan'[l], Dull)
  <2>1. CASE chan' = chan
    BY <2>1, GrownSame
  <2>2. CASE chan' = Broadcast(chan, w, [kind |-> "SuspendMarker"])
    <3> DEFINE m == [kind |-> "SuspendMarker"]
    <3>1. m \in NetworkMessage /\ {m.kind} \subseteq Dull
      BY MessageTypes DEF Dull
    <3> HIDE DEF m
    <3>2. \A l \in Links : Grown(chan[l], Broadcast(chan, w, m)[l], {m.kind})
      BY <3>1, Broadcasting
    <3> QED BY <2>2, <3>1, <3>2, GrownWider DEF m
  <2> QED BY <2>1, <2>2 DEF NoLocal, LocalSuspend
<1>4. out' = out /\ UNCHANGED alignVars /\ UNCHANGED <<remoteVars, alive, remotes, oldSet, newSet, whitelist, collecting>>
  BY DEF NoLocal, LocalSuspend, alignVars, localVars, opVars, envVars, histVars, routerVars, peerVars
<1>5. \A l \in Links : Grown(chan[l], chan'[l], Harmless)
  BY <1>3, GrownWider DEF Harmless
<1>6. \A x \in Workers : Grown(out[x], out'[x], Dull) /\ Grown(out[x], out'[x], Harmless)
  BY <1>4, GrownSame
<1>7. Settled'
  BY <1>2, <1>4, <1>5, <1>6, SettledGrows
<1> QED BY <1>2, <1>3, <1>4, <1>6, <1>7 DEF Uneventful, remoteVars

LEMMA LocalRescaleSteady ==
  ASSUME Steady, IInv, IInv', Settled, NEW w \in InitWorkers, LocalRescale(w)
  PROVE  /\ Uneventful /\ Settled' /\ turn'.poll = {} /\ chan' = chan
         /\ \A x \in InitWorkers : \A y \in Others(x) : sentSuspend'[x][y] = sentSuspend[x][y]
<1> USE DEF IInv
<1>1. w \in Workers /\ AtLocal(w) /\ delivered[w] < round
  BY SettledWorkers DEF LocalRescale, MayReceiveLocal
<1>2. turn'.poll = {}
  BY <1>1, AtLocalTurn DEF LocalRescale
<1>3. round \in DOMAIN Scales /\ Scales[round] = InitWorkers
  <2>1. round \in 1..Len(Scales)
    BY <1>1, ScalesType DEF TypeOK, EnvTypeOK
  <2>2. DOMAIN Scales = 1..Len(Scales)
    BY DistributorAssumption, LenProperties
  <2> QED BY <2>1, <2>2 DEF Steady
<1>4. remotes[w] = InitWorkers \ {w} /\ newSet[w] = InitWorkers /\ oldSet[w] = InitWorkers /\ whitelist[w] = {}
  BY DEF Settled, Others
<1>5. /\ remotes \in [Workers -> SUBSET Workers] /\ newSet \in [Workers -> WorkerSets]
      /\ oldSet \in [Workers -> WorkerSets] /\ whitelist \in [Workers -> SUBSET Keys]
  BY DEF TypeOK, RouterTypeOK, PeerTypeOK
<1>6. remotes' = remotes
  <2>1. remotes' = [remotes EXCEPT ![w] = @ \cup (InitWorkers \ {w})]
    BY <1>3 DEF LocalRescale
  <2>2. remotes[w] \cup (InitWorkers \ {w}) = remotes[w]
    BY <1>4
  <2> QED BY <1>1, <1>5, <2>1, <2>2
<1>7. oldSet' = oldSet /\ newSet' = newSet /\ whitelist' = whitelist
  <2>1. \/ UNCHANGED <<oldSet, newSet, whitelist>>
        \/ /\ oldSet' = [oldSet EXCEPT ![w] = newSet[w]] /\ newSet' = [newSet EXCEPT ![w] = Scales[round]]
           /\ whitelist' = [whitelist EXCEPT ![w] = {}]
    BY DEF LocalRescale
  <2>2. oldSet' = oldSet
    BY <1>1, <1>4, <1>5, <2>1
  <2>3. newSet' = newSet
    BY <1>1, <1>3, <1>4, <1>5, <2>1
  <2>4. whitelist' = whitelist
    <3>1. whitelist' = whitelist \/ whitelist' = [whitelist EXCEPT ![w] = {}]
      BY <2>1
    <3>2. w \in Workers /\ whitelist[w] = {} /\ whitelist \in [Workers -> SUBSET Keys]
      BY <1>1, <1>4, <1>5
    <3> QED BY <3>1, <3>2
  <2> QED BY <2>2, <2>3, <2>4
<1>8. \A x \in Workers : Grown(out[x], out'[x], Dull)
  <2> DEFINE m == [kind |-> "Interrogate"]
  <2>1. m \in OperatorMessage /\ m.kind \in Dull /\ out \in [Workers -> Seq(OperatorMessage)]
    BY MessageTypes DEF Dull, TypeOK, LinkTypeOK
  <2> HIDE DEF m
  <2>2. out' = out \/ out' = [out EXCEPT ![w] = Append(@, m)]
    BY DEF LocalRescale, m
  <2>3. ASSUME NEW x \in Workers PROVE Grown(out[x], out'[x], Dull)
    <3>1. out'[x] = out[x] \/ out'[x] = Append(out[x], m)
      BY <2>1, <2>2
    <3>2. Grown(out[x], Append(out[x], m), Dull) /\ Grown(out[x], out[x], Dull)
      BY <2>1, GrownAppend, GrownSame
    <3> QED BY <3>1, <3>2
  <2> QED BY <2>3
<1>9. /\ barred \in [Workers -> [Workers -> BOOLEAN]] /\ sentSuspend \in [Workers -> [Workers -> BOOLEAN]]
      /\ frontier \in [Workers -> [Workers -> Nat]]
  BY DEF TypeOK, PeerTypeOK
<1>10. /\ barred' = [barred EXCEPT ![w] = [r \in Workers |-> IF r \in Scales[round] \ remotes[w] THEN FALSE ELSE barred[w][r]]]
       /\ sentSuspend' = [sentSuspend EXCEPT ![w] = [r \in Workers |-> IF r \in Scales[round] \ remotes[w] THEN FALSE ELSE sentSuspend[w][r]]]
       /\ frontier' = [frontier EXCEPT ![w] = [r \in Workers |-> IF r \in Scales[round] \ remotes[w] THEN NoTime ELSE frontier[w][r]]]
  BY DEF LocalRescale, Fresh
<1>11. \A x \in InitWorkers : \A y \in Others(x) :
         /\ barred'[x][y] = barred[x][y] /\ frontier'[x][y] = frontier[x][y]
         /\ sentSuspend'[x][y] = sentSuspend[x][y]
  <2> SUFFICES ASSUME NEW x \in InitWorkers, NEW y \in Others(x)
               PROVE  /\ barred'[x][y] = barred[x][y] /\ frontier'[x][y] = frontier[x][y]
                      /\ sentSuspend'[x][y] = sentSuspend[x][y]
    OBVIOUS
  <2>1. x \in Workers /\ y \in Workers /\ y # x /\ y \in InitWorkers
    BY SettledWorkers DEF Others
  <2>2. x = w => y \notin Scales[round] \ remotes[w]
    BY <1>4, <2>1
  <2>3. barred'[x][y] = barred[x][y]
    BY <1>1, <1>9, <1>10, <2>1, <2>2
  <2>4. frontier'[x][y] = frontier[x][y]
    BY <1>1, <1>9, <1>10, <2>1, <2>2
  <2>5. sentSuspend'[x][y] = sentSuspend[x][y]
    BY <1>1, <1>9, <1>10, <2>1, <2>2
  <2> QED BY <2>3, <2>4, <2>5
<1>12. chan' = chan /\ UNCHANGED alignVars /\ UNCHANGED <<alive, collecting>>
  BY DEF LocalRescale, alignVars, localVars, opVars, histVars
<1>13. \A l \in Links : Grown(chan[l], chan'[l], Dull)
  BY <1>12, GrownSame
<1>14. Settled'
  <2>1. \A l \in Links : Grown(chan[l], chan'[l], Harmless)
    BY <1>13, GrownWider DEF Harmless
  <2>2. \A x \in Workers : Grown(out[x], out'[x], Harmless)
    BY <1>8, GrownWider DEF Harmless
  <2> QED BY <1>2, <1>6, <1>7, <1>12, <2>1, <2>2, SettledGrows
<1> QED BY <1>2, <1>8, <1>11, <1>12, <1>13, <1>14 DEF Uneventful

LEMMA LocalEpochSteady ==
  ASSUME IInv, IInv', Settled, NEW w \in InitWorkers, LocalEpoch(w)
  PROVE  Settled' /\ turn'.poll = {} /\ sentSuspend' = sentSuspend
<1> USE DEF IInv
<1>1. w \in Workers /\ AtLocal(w)
  BY SettledWorkers DEF LocalEpoch, MayReceiveLocal
<1>2. turn'.poll = {}
  BY <1>1, AtLocalTurn DEF LocalEpoch
<1>3. PICK e \in (localFrontier[w] + 1)..MaxEpoch :
        /\ chan' = Broadcast(chan, w, [kind |-> "Epoch", ts |-> e])
        /\ out' = [out EXCEPT ![w] = @ \o HandleEpoch(w, frontier[w], e)]
  BY DEF LocalEpoch
<1>4. e \in Nat \ {NoTime} /\ frontier[w] \in [Workers -> Nat] /\ out \in [Workers -> Seq(OperatorMessage)]
  BY <1>1, DistributorAssumption DEF TypeOK, LocalTypeOK, PeerTypeOK, LinkTypeOK, NoTime
<1>5. \A l \in Links : Grown(chan[l], chan'[l], Harmless)
  <2> DEFINE m == [kind |-> "Epoch", ts |-> e]
  <2>1. m \in NetworkMessage /\ {m.kind} \subseteq Harmless
    BY <1>4, MessageTypes DEF Harmless
  <2> HIDE DEF m
  <2>2. \A l \in Links : Grown(chan[l], Broadcast(chan, w, m)[l], {m.kind})
    BY <2>1, Broadcasting
  <2> QED BY <1>3, <2>1, <2>2, GrownWider DEF m
<1>6. \A x \in Workers : Grown(out[x], out'[x], Harmless)
  <2> SUFFICES ASSUME NEW x \in Workers PROVE Grown(out[x], out'[x], Harmless)
    OBVIOUS
  <2>1. CASE x = w
    <3>1. out'[x] = out[x] \o HandleEpoch(w, frontier[w], e)
      BY <1>3, <1>4, <2>1
    <3> QED BY <1>1, <1>4, <3>1, EpochGrows
  <2>2. CASE x # w
    BY <1>3, <1>4, <2>2, GrownSame
  <2> QED BY <2>1, <2>2
<1>7. UNCHANGED <<remoteVars, alive, remotes, oldSet, newSet, whitelist, collecting>>
  BY DEF LocalEpoch, routerVars, peerVars, envVars
<1> QED BY <1>2, <1>5, <1>6, <1>7, SettledGrows DEF remoteVars

LEMMA LocalBarrierSteady ==
  ASSUME IInv, IInv', Settled, NEW w \in InitWorkers, LocalBarrier(w)
  PROVE  Settled' /\ turn'.poll = {} /\ sentSuspend' = sentSuspend
<1> USE DEF IInv
<1>1. w \in Workers /\ AtLocal(w)
  BY SettledWorkers DEF LocalBarrier, MayReceiveLocal
<1>2. turn'.poll = {}
  BY <1>1, AtLocalTurn DEF LocalBarrier
<1>3. \A l \in Links : Grown(chan[l], chan'[l], Harmless)
  <2> DEFINE m == [kind |-> "BarrierMarker"]
  <2>1. m \in NetworkMessage /\ {m.kind} \subseteq Harmless /\ chan' = Broadcast(chan, w, m)
    BY MessageTypes DEF Harmless, LocalBarrier
  <2> HIDE DEF m
  <2>2. \A l \in Links : Grown(chan[l], Broadcast(chan, w, m)[l], {m.kind})
    BY <2>1, Broadcasting
  <2> QED BY <2>1, <2>2, GrownWider
<1>4. out' = out /\ UNCHANGED <<remoteVars, alive, remotes, oldSet, newSet, whitelist, collecting>>
  BY DEF LocalBarrier, routerVars, peerVars
<1>5. \A x \in Workers : Grown(out[x], out'[x], Harmless)
  BY <1>4, GrownSame
<1> QED BY <1>2, <1>3, <1>4, <1>5, SettledGrows DEF remoteVars

\* The tail of run().
LEMMA Regroup ==
  \A q, y, z \in Seq(OperatorMessage) : \A a \in OperatorMessage :
     (q \o (<<a>> \o y)) \o z = Append(q, a) \o (y \o z)
<1> SUFFICES ASSUME NEW q \in Seq(OperatorMessage), NEW y \in Seq(OperatorMessage),
                    NEW z \in Seq(OperatorMessage), NEW a \in OperatorMessage
             PROVE  (q \o (<<a>> \o y)) \o z = Append(q, a) \o (y \o z)
  OBVIOUS
<1>1. <<a>> \in Seq(OperatorMessage) /\ Append(q, a) = q \o <<a>> /\ Append(q, a) \in Seq(OperatorMessage)
  BY AppendIsConcat
<1>2. q \o (<<a>> \o y) = (q \o <<a>>) \o y
  BY <1>1, ConcatAssociative
<1>3. ((q \o <<a>>) \o y) \o z = (q \o <<a>>) \o (y \o z)
  BY <1>1, ConcatAssociative
<1> QED BY <1>1, <1>2, <1>3

\* What a run appends at its end.
LEMMA TailOut ==
  ASSUME TypeOK, NEW w \in Workers,
         \/ out' = [out EXCEPT ![w] = @ \o MarkerOut(w)]
         \/ out' = [out EXCEPT ![w] = @ \o MarkerOut(w) \o <<[kind |-> "Rescale"]>>]
  PROVE  /\ \A x \in Workers \ {w} : out'[x] = out[x]
         /\ BarrierResolved(w) => Grown(Append(out[w], [kind |-> "AbsBarrier"]), out'[w], Dull)
         /\ ~BarrierResolved(w) => Grown(out[w], out'[w], Dull)
<1> DEFINE b == [kind |-> "AbsBarrier"]
           s == [kind |-> "SuspendMarker"]
           e == [kind |-> "Rescale"]
           y == IF SuspendResolved(w) THEN <<s>> ELSE <<>>
<1>1. out \in [Workers -> Seq(OperatorMessage)] /\ b \in OperatorMessage /\ s \in OperatorMessage /\ e \in OperatorMessage
  BY MessageTypes DEF TypeOK, LinkTypeOK
<1>2. PICK z \in {<<>>, <<e>>} : out' = [out EXCEPT ![w] = (@ \o MarkerOut(w)) \o z]
  <2>1. CASE out' = [out EXCEPT ![w] = @ \o MarkerOut(w) \o <<[kind |-> "Rescale"]>>]
    BY <2>1
  <2>2. CASE out' = [out EXCEPT ![w] = @ \o MarkerOut(w)]
    <3>1. out[w] \o MarkerOut(w) \in Seq(OperatorMessage)
      BY <1>1, MarkerOutType, SeqFacts
    <3>2. (out[w] \o MarkerOut(w)) \o <<>> = out[w] \o MarkerOut(w)
      BY <3>1, ConcatEmptySeq
    <3> QED BY <2>2, <3>2
  <2> QED BY <2>1, <2>2
<1>3. /\ y \in Seq(OperatorMessage) /\ \A n \in DOMAIN y : y[n].kind \in Dull
      /\ z \in Seq(OperatorMessage) /\ \A n \in DOMAIN z : z[n].kind \in Dull
  <2>1. ASSUME NEW m \in OperatorMessage, m.kind \in Dull
        PROVE  <<m>> \in Seq(OperatorMessage) /\ \A n \in DOMAIN <<m>> : <<m>>[n].kind \in Dull
    BY <2>1
  <2>2. <<>> \in Seq(OperatorMessage) /\ \A n \in DOMAIN <<>> : <<>>[n].kind \in Dull
    OBVIOUS
  <2>3. s.kind \in Dull /\ e.kind \in Dull
    BY DEF Dull
  <2> HIDE DEF s, e
  <2>4. y \in {<<>>, <<s>>}
    OBVIOUS
  <2> HIDE DEF y
  <2>5. y \in Seq(OperatorMessage) /\ \A n \in DOMAIN y : y[n].kind \in Dull
    BY <1>1, <2>1, <2>2, <2>3, <2>4
  <2>6. z \in Seq(OperatorMessage) /\ \A n \in DOMAIN z : z[n].kind \in Dull
    BY <1>1, <1>2, <2>1, <2>2, <2>3
  <2> QED BY <2>5, <2>6
<1>4. /\ BarrierResolved(w) => MarkerOut(w) = <<b>> \o y
      /\ ~BarrierResolved(w) => MarkerOut(w) = <<>> \o y
  BY DEF MarkerOut
<1> HIDE DEF b, s, e, y
<1>5. out'[w] = (out[w] \o MarkerOut(w)) \o z /\ \A x \in Workers \ {w} : out'[x] = out[x]
  BY <1>1, <1>2
<1>6. CASE BarrierResolved(w)
  <2> DEFINE q == Append(out[w], b)
  <2>1. out'[w] = q \o (y \o z)
    <3>1. out[w] \in Seq(OperatorMessage) /\ b \in OperatorMessage /\ y \in Seq(OperatorMessage) /\ z \in Seq(OperatorMessage)
      BY <1>1, <1>3
    <3>2. (out[w] \o (<<b>> \o y)) \o z = Append(out[w], b) \o (y \o z)
      BY <3>1, Regroup, Zenon
    <3> QED BY <1>4, <1>5, <1>6, <3>2
  <2>2. q \in Seq(OperatorMessage)
    BY <1>1
  <2>3. y \o z \in Seq(OperatorMessage) /\ \A n \in DOMAIN (y \o z) : (y \o z)[n].kind \in Dull
    <3>1. /\ Len(y) \in Nat /\ DOMAIN y = 1..Len(y) /\ Len(z) \in Nat /\ DOMAIN z = 1..Len(z)
          /\ DOMAIN (y \o z) = 1..(Len(y) + Len(z))
          /\ \A n \in 1..(Len(y) + Len(z)) : (y \o z)[n] = IF n <= Len(y) THEN y[n] ELSE z[n - Len(y)]
      BY <1>3, ConcatProperties, LenProperties
    <3>2. ASSUME NEW n \in DOMAIN (y \o z) PROVE (y \o z)[n].kind \in Dull
      <4>1. n \in DOMAIN y \/ n - Len(y) \in DOMAIN z
        BY <3>1
      <4> QED BY <1>3, <3>1, <4>1
    <3> QED BY <1>3, <3>2, SeqFacts
  <2> HIDE DEF q
  <2>4. Grown(q, q \o (y \o z), Dull)
    BY <2>2, <2>3, GrownJoin
  <2> QED BY <1>5, <1>6, <2>1, <2>4 DEF q, b
<1>7. CASE ~BarrierResolved(w)
  <2>1. MarkerOut(w) = y
    BY <1>3, <1>4, <1>7
  <2>2. out[w] \in Seq(OperatorMessage) /\ out[w] \o y \in Seq(OperatorMessage) /\ (out[w] \o y) \o z \in Seq(OperatorMessage)
    BY <1>1, <1>3, SeqFacts
  <2>3. Grown(out[w], out[w] \o y, Dull) /\ Grown(out[w] \o y, (out[w] \o y) \o z, Dull)
    BY <1>3, <2>2, GrownJoin
  <2>4. Grown(out[w], (out[w] \o y) \o z, Dull)
    <3> DEFINE p == out[w] \o y
               t == p \o z
    <3>1. out[w] \in Seq(OperatorMessage) /\ p \in Seq(OperatorMessage) /\ t \in Seq(OperatorMessage)
      BY <2>2
    <3>2. Grown(out[w], p, Dull) /\ Grown(p, t, Dull)
      BY <2>3
    <3> HIDE DEF p, t
    <3>3. Grown(out[w], t, Dull)
      BY <3>1, <3>2, GrownFurther
    <3> QED BY <3>3 DEF t, p
  <2> QED BY <1>5, <1>7, <2>1, <2>4
<1> QED BY <1>5, <1>6, <1>7

LEMMA RunTailSteady ==
  ASSUME IInv, IInv', Settled, NEW w \in InitWorkers, RunTail(w)
  PROVE  /\ Passes(w) \/ Uneventful
         /\ Settled' /\ turn'.poll = {} /\ sentSuspend' = sentSuspend
         /\ \A l \in Links : Grown(chan[l], chan'[l], {"Upgrade"})
<1> USE DEF IInv
<1>1. w \in Workers /\ remotes[w] = Others(w) /\ whitelist[w] = {} /\ collecting[w] = NoKey /\ oldSet[w] = newSet[w]
  BY SettledWorkers DEF Settled
<1>2. turn'.poll = {}
  BY DEF RunTail, Idle
<1>3. /\ EmitMarkers(w) /\ UNCHANGED <<localFrontier, opVars, envVars, histVars>>
      /\ \/ LifecycleStays(w) \/ InterrogateLifecycle(w) \/ CollectLifecycleDone(w) \/ FinishedLifecycle(w)
  <2>1. ~CollectNextKey(w)
    BY <1>1 DEF CollectNextKey
  <2>2. ~CollectLifecyclePanics(w)
    BY <1>1 DEF CollectLifecyclePanics, AcquireTargetKnown
  <2> QED BY <2>1, <2>2 DEF RunTail
<1>4. \/ out' = [out EXCEPT ![w] = @ \o MarkerOut(w)]
      \/ out' = [out EXCEPT ![w] = @ \o MarkerOut(w) \o <<[kind |-> "Rescale"]>>]
  BY <1>3 DEF LifecycleStays, InterrogateLifecycle, CollectLifecycleDone, FinishedLifecycle
<1>5. /\ \A x \in Workers \ {w} : out'[x] = out[x]
      /\ BarrierResolved(w) => Grown(Append(out[w], [kind |-> "AbsBarrier"]), out'[w], Dull)
      /\ ~BarrierResolved(w) => Grown(out[w], out'[w], Dull)
  BY <1>1, <1>4, TailOut
<1>6. \A l \in Links : Grown(chan[l], chan'[l], {"Upgrade"})
  <2>1. CASE chan' = chan
    BY <2>1, GrownSame
  <2>2. CASE CollectLifecycleDone(w)
    <3> DEFINE m == [kind |-> "Upgrade", version |-> version[w]]
    <3>1. m \in NetworkMessage /\ m.kind = "Upgrade"
      BY <1>1, MessageTypes DEF TypeOK, RouterTypeOK
    <3>2. chan' = Broadcast(chan, w, m)
      BY <1>1, <2>2 DEF CollectLifecycleDone, FlushCollected
    <3> HIDE DEF m
    <3>3. \A l \in Links : Grown(chan[l], Broadcast(chan, w, m)[l], {m.kind})
      BY <3>1, Broadcasting
    <3> QED BY <3>1, <3>2, <3>3
  <2> QED BY <1>3, <2>1, <2>2 DEF LifecycleStays, InterrogateLifecycle, FinishedLifecycle
<1>7. \A l \in Links : Grown(chan[l], chan'[l], Dull)
  BY <1>6, GrownWider DEF Dull
<1>8. remotes' = remotes /\ collecting' = collecting /\ oldSet' = oldSet
  <2>1. /\ remotes \in [Workers -> SUBSET Workers] /\ oldSet \in [Workers -> WorkerSets]
        /\ collecting \in [Workers -> Keys \cup {NoKey}]
    BY DEF TypeOK, RouterTypeOK, PeerTypeOK
  <2>2. CASE LifecycleStays(w)
    BY <2>2 DEF LifecycleStays, routerVars, peerVars
  <2>3. CASE InterrogateLifecycle(w) \/ CollectLifecycleDone(w)
    <3>1. UNCHANGED <<remotes, oldSet>> /\ collecting' = [collecting EXCEPT ![w] = NoKey]
      BY <2>3 DEF InterrogateLifecycle, CollectLifecycleDone, peerVars
    <3> QED BY <1>1, <2>1, <3>1
  <2>4. CASE FinishedLifecycle(w)
    <3>1. /\ remotes' = [remotes EXCEPT ![w] = @ \ (oldSet[w] \ newSet[w])]
          /\ oldSet' = [oldSet EXCEPT ![w] = newSet[w]] /\ UNCHANGED collecting
      BY <2>4 DEF FinishedLifecycle
    <3>2. remotes[w] \ (oldSet[w] \ newSet[w]) = remotes[w]
      BY <1>1
    <3>3. remotes' = remotes
      BY <1>1, <2>1, <3>1, <3>2
    <3>4. oldSet' = oldSet
      BY <1>1, <2>1, <3>1
    <3> QED BY <3>1, <3>3, <3>4
  <2> QED BY <1>3, <2>2, <2>3, <2>4
<1>9. UNCHANGED <<alive, newSet, whitelist, frontier, sentSuspend>>
  BY <1>3 DEF LifecycleStays, InterrogateLifecycle, CollectLifecycleDone, FinishedLifecycle, routerVars, peerVars, envVars
<1>10. Settled'
  <2>1. \A l \in Links : Grown(chan[l], chan'[l], Harmless)
    BY <1>7, GrownWider DEF Harmless
  <2>2. \A x \in Workers : Grown(out[x], out'[x], Harmless)
    <3>1. out[w] \in Seq(OperatorMessage) /\ out'[w] \in Seq(OperatorMessage) /\ [kind |-> "AbsBarrier"] \in OperatorMessage
      BY <1>1, MessageTypes DEF TypeOK, LinkTypeOK
    <3>2. CASE BarrierResolved(w)
      <4> DEFINE b == [kind |-> "AbsBarrier"]
      <4>1. b.kind \in Harmless /\ b \in OperatorMessage
        BY <3>1 DEF Harmless
      <4> HIDE DEF b
      <4>2. Grown(out[w], Append(out[w], b), Harmless) /\ Append(out[w], b) \in Seq(OperatorMessage)
        BY <3>1, <4>1, GrownAppend
      <4>3. Grown(Append(out[w], b), out'[w], Harmless)
        BY <1>5, <3>2, GrownWider DEF Harmless, b
      <4>4. Grown(out[w], out'[w], Harmless)
        BY <3>1, <4>2, <4>3, GrownFurther
      <4> QED BY <1>5, <4>4, GrownSame
    <3>3. CASE ~BarrierResolved(w)
      <4>1. Grown(out[w], out'[w], Harmless)
        BY <1>5, <3>3, GrownWider DEF Harmless
      <4> QED BY <1>5, <4>1, GrownSame
    <3> QED BY <3>2, <3>3
  <2> QED BY <1>2, <1>8, <1>9, <2>1, <2>2, SettledGrows
<1>11. CASE BarrierResolved(w)
  <2>1. localBarrier[w] /\ \A r \in Others(w) : barred[w][r] \/ sentSuspend[w][r]
    BY <1>1, <1>11 DEF BarrierResolved
  <2>2. localBarrier' = [localBarrier EXCEPT ![w] = FALSE]
    BY <1>3, <1>11 DEF EmitMarkers
  <2>3. barred' = [barred EXCEPT ![w] = [r \in Workers |-> FALSE]]
    BY <1>3, <1>11 DEF EmitMarkers
  <2>4. Passes(w)
    BY <1>3, <1>5, <1>7, <1>9, <1>11, <2>1, <2>2, <2>3 DEF Passes, opVars, envVars, histVars
  <2> QED BY <1>2, <1>6, <1>9, <1>10, <2>4
<1>12. CASE ~BarrierResolved(w)
  <2>1. localBarrier' = localBarrier
    <3>1. localBarrier \in [Workers -> BOOLEAN]
      BY DEF TypeOK, LocalTypeOK
    <3>2. localBarrier' = [localBarrier EXCEPT ![w] = @ /\ ~BarrierResolved(w)]
      BY <1>3 DEF EmitMarkers
    <3>3. (localBarrier[w] /\ ~BarrierResolved(w)) = localBarrier[w]
      BY <1>1, <1>12, <3>1
    <3> QED BY <1>1, <3>1, <3>2, <3>3
  <2>2. barred' = barred
    BY <1>3, <1>12 DEF EmitMarkers
  <2>3. \A x \in Workers : Grown(out[x], out'[x], Dull)
    BY <1>5, <1>12, GrownSame
  <2>4. Uneventful
    BY <1>3, <1>7, <1>9, <2>1, <2>2, <2>3 DEF Uneventful, alignVars, opVars, envVars, histVars
  <2> QED BY <1>2, <1>6, <1>9, <1>10, <2>4
<1> QED BY <1>11, <1>12

\* The stateful operator behind w takes the message m.
Consumes(w, m) ==
  /\ w \in InitWorkers /\ out[w] # <<>> /\ m = Head(out[w]) /\ m \in OperatorMessage
  /\ out' = [out EXCEPT ![w] = Tail(@)] /\ chan' = chan
  /\ opState' = IF m.kind = "Data" THEN [opState EXCEPT ![w][m.data.key] = @ \cup {m.data.id}] ELSE opState
  /\ opFrontier' = IF m.kind = "Epoch"
                   THEN [opFrontier EXCEPT ![w] = IF m.ts > @ THEN m.ts ELSE @] ELSE opFrontier
  /\ persisted' = IF m.kind = "AbsBarrier" THEN [persisted EXCEPT ![w] = @ + 1] ELSE persisted
  /\ snapshot' = IF m.kind = "AbsBarrier"
                 THEN [snapshot EXCEPT ![persisted[w] + 1][w] = Folded(w)] ELSE snapshot
  /\ UNCHANGED <<barred, frontier, localFrontier, localBarrier, taken, barrierRound, cut, nextId>>

LEMMA StatefulOpSteady ==
  ASSUME IInv, IInv', Settled, NEW w \in Workers, StatefulOp(w)
  PROVE  Consumes(w, Head(out[w])) /\ Settled' /\ turn'.poll = {} /\ sentSuspend' = sentSuspend
<1> USE DEF IInv
<1> DEFINE m == Head(out[w])
<1>1. w \in InitWorkers /\ turn = Idle /\ out[w] # <<>> /\ out \in [Workers -> Seq(OperatorMessage)]
  BY SettledWorkers DEF StatefulOp, Settled
<1>2. m \in OperatorMessage /\ m = out[w][1] /\ 1 \in DOMAIN out[w]
  BY <1>1, TailAt
<1>3. m.kind \notin {"Collect", "Acquire"}
  BY <1>1, <1>2 DEF Settled, NoMove
<1>4. /\ \/ StatefulData(w, m) \/ StatefulInterrogate(w, m) \/ StatefulBarrier(w, m)
         \/ StatefulEpoch(w, m) \/ StatefulForward(w, m)
      /\ out' = [out EXCEPT ![w] = Tail(@)]
      /\ UNCHANGED <<mode, version, trigger, oldSet, newSet, collecting, buffered, peerVars,
                 remoteVars, localVars, chan, suspended, turn, panicked, envVars, nextId, cut>>
  BY <1>3 DEF StatefulOp, StatefulCollect, StatefulAcquire
<1> HIDE DEF m
<1>5. whitelist' = whitelist
  <2>1. CASE StatefulInterrogate(w, m)
    <3>1. oldSet[w] = newSet[w]
      BY <1>1 DEF Settled
    <3>2. \A k \in Keys : ~Moves(w, k)
      BY <3>1 DEF Moves, OldTarget, NewTarget
    <3>3. whitelist' = [whitelist EXCEPT ![w] = @ \cup {k \in Keys : opState[w][k] # {} /\ Moves(w, k)}]
      BY <2>1 DEF StatefulInterrogate
    <3>4. {k \in Keys : opState[w][k] # {} /\ Moves(w, k)} = {}
      BY <3>2
    <3>5. whitelist' = [whitelist EXCEPT ![w] = @ \cup {}]
      BY <3>3, <3>4
    <3>6. whitelist \in [Workers -> SUBSET Keys] /\ whitelist[w] \cup {} = whitelist[w]
      BY DEF TypeOK, RouterTypeOK
    <3> QED BY <3>5, <3>6
  <2> QED BY <1>4, <2>1 DEF StatefulData, StatefulBarrier, StatefulEpoch, StatefulForward
<1>6. /\ opState' = IF m.kind = "Data" THEN [opState EXCEPT ![w][m.data.key] = @ \cup {m.data.id}] ELSE opState
      /\ opFrontier' = IF m.kind = "Epoch"
                       THEN [opFrontier EXCEPT ![w] = IF m.ts > @ THEN m.ts ELSE @] ELSE opFrontier
      /\ persisted' = IF m.kind = "AbsBarrier" THEN [persisted EXCEPT ![w] = @ + 1] ELSE persisted
      /\ snapshot' = IF m.kind = "AbsBarrier"
                     THEN [snapshot EXCEPT ![persisted[w] + 1][w] = Folded(w)] ELSE snapshot
  <2>1. CASE StatefulData(w, m)
    BY <2>1 DEF StatefulData
  <2>2. CASE StatefulBarrier(w, m)
    BY <2>2 DEF StatefulBarrier, Folded
  <2>3. CASE StatefulEpoch(w, m)
    BY <2>3 DEF StatefulEpoch
  <2>4. CASE StatefulInterrogate(w, m) \/ StatefulForward(w, m)
    BY <2>4 DEF StatefulInterrogate, StatefulForward, opVars
  <2> QED BY <1>4, <2>1, <2>2, <2>3, <2>4
<1>7. Consumes(w, m)
  BY <1>1, <1>2, <1>4, <1>6 DEF Consumes, m, remoteVars, localVars, envVars
<1>8. ASSUME NEW x \in InitWorkers PROVE NoMove(out'[x]) /\ \A r \in Others(x) : LeadsTo(chan'[<<r, x>>], x)
  <2>1. x \in Workers /\ NoMove(out[x]) /\ \A r \in Others(x) : LeadsTo(chan[<<r, x>>], x)
    BY SettledWorkers DEF Settled
  <2>2. NoMove(out'[x])
    <3>1. CASE x = w
      <4>1. out'[x] = Tail(out[x]) /\ out[x] \in Seq(OperatorMessage) /\ out[x] # <<>>
        BY <1>1, <1>4, <3>1
      <4> QED BY <2>1, <4>1, TakenSettled
    <3>2. CASE x # w
      BY <1>1, <1>4, <2>1, <3>2
    <3> QED BY <3>1, <3>2
  <2> QED BY <1>4, <2>1, <2>2
<1>9. turn'.poll = {}
  BY <1>1, <1>4 DEF Idle
<1>10. Settled'
  BY <1>4, <1>5, <1>8, <1>9, SettledStays DEF peerVars, envVars
<1> QED BY <1>4, <1>7, <1>9, <1>10 DEF m, remoteVars

LEMMA BeginRunSteady ==
  ASSUME IInv, IInv', Settled, NEW w \in Workers, BeginRun(w)
  PROVE  /\ Uneventful /\ Settled' /\ chan' = chan
         /\ turn'.worker = w /\ turn'.poll \subseteq Pollable(w) /\ UNCHANGED <<barred, sentSuspend>>
<1> USE DEF IInv
<1>1. w \in InitWorkers /\ UNCHANGED <<routerVars, peerVars, remoteVars, localVars, chan, out, suspended,
                 opVars, panicked, envVars, histVars>>
  BY DEF BeginRun, Settled
<1>2. turn'.worker = w /\ turn'.poll \subseteq Pollable(w)
  BY DEF BeginRun
<1>3. Pollable(w) \subseteq Others(w)
  BY <1>1 DEF Pollable, Settled
<1>4. UNCHANGED alignVars /\ UNCHANGED <<chan, out, barred, sentSuspend, frontier, alive, remotes, oldSet, newSet, whitelist, collecting>>
  BY <1>1 DEF alignVars, routerVars, peerVars, remoteVars, localVars, opVars, envVars, histVars
<1>5. Uneventful
  BY <1>4, GrownSame DEF Uneventful
<1>6. Settled'
  <2>1. \A x \in InitWorkers : NoMove(out'[x]) /\ \A r \in Others(x) : LeadsTo(chan'[<<r, x>>], x)
    BY <1>4 DEF Settled
  <2>2. turn'.poll \subseteq Others(turn'.worker)
    BY <1>2, <1>3
  <2> QED BY <1>4, <2>1, <2>2, SettledStays
<1> QED BY <1>2, <1>4, <1>5, <1>6

\* The coordinator.
LEMMA StartRescaleSteady ==
  ASSUME Steady, IInv, IInv', Settled, StartRescale
  PROVE  Uneventful /\ Settled' /\ turn' = Idle /\ turn'.poll = {} /\ UNCHANGED <<chan, sentSuspend>>
<1> USE DEF IInv
<1>1. Scales[round + 1] \ alive = {}
  <2>1. round + 1 \in 1..Len(Scales)
    BY ScalesType DEF StartRescale, TypeOK, EnvTypeOK
  <2>2. DOMAIN Scales = 1..Len(Scales)
    BY DistributorAssumption, LenProperties
  <2> QED BY <2>1, <2>2 DEF Steady, Settled
<1>2. /\ alive \cup (Scales[round + 1] \ alive) = alive
      /\ \A w : w \notin Scales[round + 1] \ alive
  BY <1>1
<1>3. /\ alive' = alive
      /\ newSet' = [w \in Workers |-> newSet[w]] /\ oldSet' = [w \in Workers |-> oldSet[w]]
      /\ remotes' = [w \in Workers |-> remotes[w]]
      /\ taken' = [w \in Workers |-> taken[w]] /\ persisted' = [w \in Workers |-> persisted[w]]
  BY <1>2 DEF StartRescale
<1>4. /\ newSet \in [Workers -> WorkerSets] /\ oldSet \in [Workers -> WorkerSets] /\ remotes \in [Workers -> SUBSET Workers]
      /\ taken \in [Workers -> Nat] /\ persisted \in [Workers -> Nat]
  BY DEF TypeOK, RouterTypeOK, PeerTypeOK, EnvTypeOK, OperatorTypeOK
<1>5. UNCHANGED <<alive, newSet, oldSet, remotes, taken, persisted>>
  BY <1>3, <1>4
<1>6. UNCHANGED <<whitelist, collecting, remoteVars, localVars, chan, out, opState, opFrontier, snapshot, turn, barrierRound, histVars>>
      /\ turn = Idle
  BY DEF StartRescale
<1>7. UNCHANGED alignVars /\ UNCHANGED <<barred, frontier, sentSuspend>> /\ turn' = Idle /\ turn'.poll = {}
  BY <1>5, <1>6 DEF alignVars, remoteVars, localVars, histVars, Idle
<1>8. Uneventful
  BY <1>6, <1>7, GrownSame DEF Uneventful
<1>9. \A x \in InitWorkers : NoMove(out'[x]) /\ \A r \in Others(x) : LeadsTo(chan'[<<r, x>>], x)
  BY <1>6 DEF Settled
<1>10. Settled'
  BY <1>5, <1>6, <1>7, <1>9, SettledStays
<1> QED BY <1>6, <1>7, <1>8, <1>10

LEMMA CoordinatorSteady ==
  ASSUME IInv, IInv', Settled, StartSnapshot \/ StartSuspend
  PROVE  Settled' /\ turn'.poll = {} /\ UNCHANGED <<chan, out, barred, frontier, sentSuspend>>
<1> USE DEF IInv
<1>1. UNCHANGED <<alive, remotes, oldSet, newSet, whitelist, collecting, chan, out, barred, frontier, sentSuspend>>
      /\ turn' = Idle
  BY DEF StartSnapshot, StartSuspend, routerVars, peerVars, remoteVars
<1>2. \A x \in InitWorkers : NoMove(out'[x]) /\ \A r \in Others(x) : LeadsTo(chan'[<<r, x>>], x)
  BY <1>1 DEF Settled
<1>3. turn'.poll = {}
  BY <1>1 DEF Idle
<1> QED BY <1>1, <1>2, <1>3, SettledStays

LEMMA NobodyLeavesSteady ==
  ASSUME Steady, IInv, Settled, NEW w \in Workers, WorkerLeaves(w) PROVE FALSE
<1>1. w \in InitWorkers /\ round > 0 /\ w \notin Scales[round]
  BY DEF WorkerLeaves, Settled
<1>2. round \in 1..Len(Scales)
  BY <1>1, ScalesType DEF IInv, TypeOK, EnvTypeOK
<1>3. DOMAIN Scales = 1..Len(Scales)
  BY DistributorAssumption, LenProperties
<1> QED BY <1>1, <1>2, <1>3 DEF Steady

LEMMA InitSettled == Init => Settled
<1> SUFFICES ASSUME Init PROVE Settled
  OBVIOUS
<1>1. InitWorkers \subseteq Workers
  BY DistributorAssumption DEF WorkerSets
<1>2. \A w \in InitWorkers : NoMove(out[w]) /\ \A r \in Others(w) : LeadsTo(chan[<<r, w>>], w)
  <2> SUFFICES ASSUME NEW w \in InitWorkers, NEW r \in Others(w)
               PROVE  NoMove(<<>>) /\ LeadsTo(<<>>, w) /\ out[w] = <<>> /\ chan[<<r, w>>] = <<>>
    <3>1. \A w \in InitWorkers : NoMove(out[w])
      BY <1>1 DEF Init, NoMove
    <3> QED BY <3>1
  <2>1. <<r, w>> \in Links
    BY <1>1 DEF Others, Links
  <2> QED BY <1>1, <2>1 DEF Init, NoMove, LeadsTo
<1>3. turn.poll = {}
  BY DEF Init, Idle
<1> QED BY <1>1, <1>2, <1>3 DEF Init, Settled, Others

\* What the steps of such a cluster are.
LEMMA NextSteady ==
  ASSUME Steady, IInv, IInv', Settled, [Next]_vars
  PROVE  /\ Settled'
         /\ \/ Uneventful
            \/ \E w, r \in Workers : Takes(w, r, Head(chan[<<r, w>>]))
            \/ \E w \in InitWorkers, d \in DataMessage : Emits(w, d)
            \/ \E w \in InitWorkers : LocalEpoch(w) \/ LocalBarrier(w)
            \/ \E w \in Workers : Passes(w)
            \/ \E w \in Workers : Consumes(w, Head(out[w]))
            \/ StartSnapshot
<1>1. CASE UNCHANGED vars
  <2>1. UNCHANGED <<alive, remotes, oldSet, newSet, whitelist, collecting, chan, out, barred, frontier, turn>>
        /\ UNCHANGED alignVars
    BY <1>1 DEF vars, alignVars, routerVars, peerVars, remoteVars, localVars, opVars, envVars, histVars
  <2>2. Uneventful
    BY <2>1, GrownSame DEF Uneventful
  <2>3. \A x \in InitWorkers : NoMove(out'[x]) /\ \A r \in Others(x) : LeadsTo(chan'[<<r, x>>], x)
    BY <2>1 DEF Settled
  <2>4. Settled'
    BY <2>1, <2>3, SettledStays DEF IInv, Settled
  <2> QED BY <2>2, <2>4
<1>2. ASSUME NEW w \in Workers, BeginRun(w) PROVE Uneventful /\ Settled'
  BY <1>2, BeginRunSteady
<1>3. ASSUME NEW w \in Workers, RunStep(w)
      PROVE  /\ Settled'
             /\ \/ Uneventful
                \/ \E r \in Workers : Takes(w, r, Head(chan[<<r, w>>]))
                \/ w \in InitWorkers /\ \E d \in DataMessage : Emits(w, d)
                \/ w \in InitWorkers /\ (LocalEpoch(w) \/ LocalBarrier(w))
                \/ Passes(w)
  <2>1. w \in InitWorkers
    <3>1. w \in alive
      BY <1>3, RunningIsAlive DEF IInv, RescaleInv
    <3> QED BY <3>1 DEF Settled
  <2>2. ASSUME NEW r \in Workers, ReceiveRemote(w, r) PROVE Takes(w, r, Head(chan[<<r, w>>])) /\ Settled'
    BY <2>2, ReceiveSteady
  <2>3. CASE NoLocal(w) \/ LocalSuspend(w)
    BY <2>1, <2>3, NoLocalSteady
  <2>4. CASE LocalData(w)
    BY <2>1, <2>4, LocalDataSteady
  <2>5. CASE LocalEpoch(w)
    BY <2>1, <2>5, LocalEpochSteady
  <2>6. CASE LocalBarrier(w)
    BY <2>1, <2>6, LocalBarrierSteady
  <2>7. CASE LocalRescale(w)
    BY <2>1, <2>7, LocalRescaleSteady
  <2>8. CASE RunTail(w)
    BY <2>1, <2>8, RunTailSteady
  <2> QED BY <1>3, <2>1, <2>2, <2>3, <2>4, <2>5, <2>6, <2>7, <2>8 DEF RunStep, LocalControl
<1>4. ASSUME NEW w \in Workers, StatefulOp(w) PROVE Consumes(w, Head(out[w])) /\ Settled'
  BY <1>4, StatefulOpSteady
<1>5. CASE StartRescale
  BY <1>5, StartRescaleSteady
<1>6. CASE StartSnapshot
  BY <1>6, CoordinatorSteady
<1>7. CASE StartSuspend
  <2>1. Settled' /\ UNCHANGED <<chan, out, barred, frontier>>
    BY <1>7, CoordinatorSteady
  <2>2. UNCHANGED alignVars
    BY <1>7 DEF StartSuspend, alignVars, localVars, opVars, histVars
  <2>3. Uneventful
    BY <2>1, <2>2, GrownSame DEF Uneventful
  <2> QED BY <2>1, <2>3
<1>8. CASE Next
  <2>1. CASE \E w \in Workers : WorkerStep(w)
    <3>1. PICK w \in Workers : WorkerStep(w)
      BY <2>1
    <3>2. BeginRun(w) \/ RunStep(w) \/ StatefulOp(w)
      BY <3>1, NobodyLeavesSteady DEF WorkerStep
    <3>3. CASE RunStep(w)
      BY <1>3, <3>3
    <3> QED BY <1>2, <1>4, <3>2, <3>3
  <2> QED BY <1>5, <1>6, <1>7, <1>8, <2>1 DEF Next
<1> QED BY <1>1, <1>8

----------------------------------------------------------------------------
\* Epochs.

LEMMA EpochTypes ==
  ASSUME TypeOK, Settled
  PROVE  \A w \in InitWorkers :
           /\ w \in Workers /\ localFrontier[w] \in Nat /\ opFrontier[w] \in Nat /\ out[w] \in Seq(OperatorMessage)
           /\ \A r \in Others(w) : /\ r \in Workers /\ r \in InitWorkers /\ frontier[w][r] \in Nat
                                   /\ chan[<<r, w>>] \in Seq(NetworkMessage)
           /\ \A n \in DOMAIN out[w] : out[w][n].kind = "Epoch" => out[w][n].ts \in Nat
<1> SUFFICES ASSUME NEW w \in InitWorkers
             PROVE  /\ w \in Workers /\ localFrontier[w] \in Nat /\ opFrontier[w] \in Nat /\ out[w] \in Seq(OperatorMessage)
                    /\ \A r \in Others(w) : /\ r \in Workers /\ r \in InitWorkers /\ frontier[w][r] \in Nat
                                            /\ chan[<<r, w>>] \in Seq(NetworkMessage)
                    /\ \A n \in DOMAIN out[w] : out[w][n].kind = "Epoch" => out[w][n].ts \in Nat
  OBVIOUS
<1>1. w \in Workers /\ out[w] \in Seq(OperatorMessage)
      /\ \A r \in Others(w) : <<r, w>> \in Links /\ chan[<<r, w>>] \in Seq(NetworkMessage) /\ r \in Workers
  BY SettledWorkers
<1>2. \A r \in Others(w) : r \in InitWorkers
  BY DEF Others
<1>3. localFrontier[w] \in Nat /\ opFrontier[w] \in Nat /\ \A r \in Others(w) : frontier[w][r] \in Nat
  BY <1>1 DEF TypeOK, LocalTypeOK, OperatorTypeOK, PeerTypeOK
<1>4. \A n \in DOMAIN out[w] : out[w][n].kind = "Epoch" => out[w][n].ts \in Nat
  BY <1>1, QueueTimes
<1> QED BY <1>1, <1>2, <1>3, <1>4

LEMMA LateData ==
  ASSUME Settled PROVE NoLateData <=> \A w \in InitWorkers : InTime(out[w], opFrontier[w])
  BY DEF Settled, NoLateData, InTime

\* Steps that add neither data nor epochs.
LEMMA EpochsUntouched ==
  ASSUME TypeOK, TypeOK', Settled, Settled', EpochInv, NEW K, "Data" \notin K, "Epoch" \notin K,
         \A l \in Links : Grown(chan[l], chan'[l], K), \A w \in Workers : Grown(out[w], out'[w], K),
         \A w \in InitWorkers : \A r \in Others(w) : frontier'[w][r] = frontier[w][r],
         UNCHANGED <<localFrontier, opFrontier>>
  PROVE  EpochInv'
<1>1. ASSUME NEW w \in InitWorkers, NEW r \in Others(w)
      PROVE  InOrder(chan'[<<r, w>>], frontier'[w][r], localFrontier'[r])
  <2>1. chan[<<r, w>>] \in Seq(NetworkMessage) /\ chan'[<<r, w>>] \in Seq(NetworkMessage) /\ <<r, w>> \in Links
    BY EpochTypes, SettledWorkers DEF TypeOK, LinkTypeOK
  <2>2. InOrder(chan[<<r, w>>], frontier[w][r], localFrontier[r])
    BY DEF EpochInv, LinksInOrder
  <2>3. Grown(chan[<<r, w>>], chan'[<<r, w>>], K)
    BY <2>1
  <2>4. InOrder(chan'[<<r, w>>], frontier[w][r], localFrontier[r])
    BY <2>1, <2>2, <2>3, GrownInOrder
  <2> QED BY <2>4
<1>2. ASSUME NEW w \in InitWorkers
      PROVE  /\ InTime(out'[w], opFrontier'[w]) /\ Behind(w, opFrontier[w])'
             /\ \A n \in DOMAIN out'[w] : out'[w][n].kind = "Epoch" => Behind(w, out[w][n].ts)'
  <2>1. w \in Workers /\ out[w] \in Seq(OperatorMessage) /\ out'[w] \in Seq(OperatorMessage) /\ Grown(out[w], out'[w], K)
    BY EpochTypes DEF TypeOK, LinkTypeOK
  <2>2. InTime(out[w], opFrontier[w]) /\ Behind(w, opFrontier[w])
        /\ \A n \in DOMAIN out[w] : out[w][n].kind = "Epoch" => Behind(w, out[w][n].ts)
    BY LateData DEF EpochInv, EpochsMerged
  <2>3. InTime(out'[w], opFrontier[w])
        /\ \A n \in DOMAIN out'[w] : out'[w][n].kind \in {"Data", "Epoch"} => n \in DOMAIN out[w] /\ out[w][n] = out'[w][n]
    BY <2>1, <2>2, GrownInOrder
  <2>4. \A t : Behind(w, t) => t <= localFrontier'[w] /\ \A r \in Others(w) : t <= frontier'[w][r]
    BY DEF Behind
  <2> QED BY <2>2, <2>3, <2>4 DEF Behind, Others
<1>3. LinksInOrder'
  BY <1>1 DEF LinksInOrder, Others
<1>4. EpochsMerged'
  BY <1>2 DEF EpochsMerged
<1>5. NoLateData'
  <2>1. \A w \in InitWorkers : InTime(out'[w], opFrontier'[w])
    BY <1>2
  <2>2. alive' = InitWorkers
    BY DEF Settled
  <2> QED BY <2>1, <2>2 DEF NoLateData, InTime
<1> QED BY <1>3, <1>4, <1>5 DEF EpochInv

BehindNext(w, t) == t <= localFrontier'[w] /\ \A r \in Others(w) : t <= frontier'[w][r]

LEMMA EpochParts ==
  ASSUME Settled',
         \A w \in InitWorkers : \A r \in Others(w) : InOrder(chan'[<<r, w>>], frontier'[w][r], localFrontier'[r]),
         \A w \in InitWorkers :
            /\ InTime(out'[w], opFrontier'[w]) /\ BehindNext(w, opFrontier'[w])
            /\ \A n \in DOMAIN out'[w] : out'[w][n].kind = "Epoch" => BehindNext(w, out'[w][n].ts)
  PROVE  EpochInv'
<1>1. LinksInOrder'
  BY DEF LinksInOrder, Others
<1>2. EpochsMerged'
  BY DEF EpochsMerged, Behind, BehindNext, Others
<1>3. NoLateData'
  <2>1. alive' = InitWorkers
    BY DEF Settled
  <2> QED BY <2>1 DEF NoLateData, InTime
<1> QED BY <1>1, <1>2, <1>3 DEF EpochInv

\* An input's frontier moves on and the epoch that all have reached, if there
\* is one, goes to the operator.
LEMMA EpochMerges ==
  ASSUME TypeOK, TypeOK', Settled, Settled', EpochInv, NEW w \in InitWorkers,
         out'[w] = out[w] \o HandleEpoch(w, frontier'[w], localFrontier'[w]),
         opFrontier' = opFrontier, localFrontier[w] <= localFrontier'[w],
         \A r \in Others(w) : frontier[w][r] <= frontier'[w][r]
  PROVE  /\ InTime(out'[w], opFrontier'[w]) /\ BehindNext(w, opFrontier'[w])
         /\ \A n \in DOMAIN out'[w] : out'[w][n].kind = "Epoch" => BehindNext(w, out'[w][n].ts)
<1> DEFINE z == HandleEpoch(w, frontier'[w], localFrontier'[w])
<1>1. /\ w \in Workers /\ localFrontier[w] \in Nat /\ opFrontier[w] \in Nat /\ out[w] \in Seq(OperatorMessage)
      /\ \A r \in Others(w) : frontier[w][r] \in Nat
      /\ \A n \in DOMAIN out[w] : out[w][n].kind = "Epoch" => out[w][n].ts \in Nat
  BY EpochTypes
<1>2. /\ frontier'[w] \in [Workers -> Nat] /\ localFrontier'[w] \in Nat /\ remotes[w] = Others(w)
      /\ Others(w) \subseteq Workers
  BY <1>1, SettledWorkers DEF TypeOK, PeerTypeOK, LocalTypeOK, Settled
<1>3. \A r \in Others(w) : frontier'[w][r] \in Nat
  BY <1>2
<1>4. InTime(out[w], opFrontier[w]) /\ Behind(w, opFrontier[w])
      /\ \A n \in DOMAIN out[w] : out[w][n].kind = "Epoch" => Behind(w, out[w][n].ts)
  BY LateData DEF EpochInv, EpochsMerged
<1>5. ASSUME NEW t \in Nat, Behind(w, t) PROVE BehindNext(w, t)
  BY <1>1, <1>2, <1>3, <1>5 DEF Behind, BehindNext
<1>6. CASE z = <<>>
  <2>1. out'[w] = out[w]
    BY <1>1, <1>6, ConcatEmptySeq
  <2> QED BY <1>1, <1>4, <1>5, <2>1
<1>7. CASE \E t \in Nat \ {NoTime} :
              /\ z = <<[kind |-> "Epoch", ts |-> t]>>
              /\ t <= localFrontier'[w] /\ \A r \in remotes[w] : t <= frontier'[w][r]
  <2>1. PICK t \in Nat \ {NoTime} :
              /\ z = <<[kind |-> "Epoch", ts |-> t]>>
              /\ t <= localFrontier'[w] /\ \A r \in remotes[w] : t <= frontier'[w][r]
    BY <1>7
  <2> DEFINE m == [kind |-> "Epoch", ts |-> t]
  <2>2. m \in OperatorMessage /\ m.kind = "Epoch" /\ m.ts = t
    BY MessageTypes
  <2> HIDE DEF m
  <2>3. out'[w] = Append(out[w], m)
    <3>1. out[w] \o <<m>> = Append(out[w], m)
      BY <1>1, <2>2, AppendIsConcat
    <3> QED BY <2>1, <3>1 DEF m
  <2>4. InTime(Append(out[w], m), opFrontier[w])
    BY <1>1, <1>4, <2>2, InTimeSent
  <2>5. \A n \in DOMAIN Append(out[w], m) : (n \in DOMAIN out[w] /\ Append(out[w], m)[n] = out[w][n]) \/ Append(out[w], m)[n] = m
    BY <1>1, <2>2, AppendAt
  <2>6. BehindNext(w, t)
    BY <1>2, <2>1 DEF BehindNext
  <2> QED BY <1>1, <1>4, <1>5, <2>2, <2>3, <2>4, <2>5, <2>6
<1>8. z = <<>> \/ \E t \in Nat \ {NoTime} :
              /\ z = <<[kind |-> "Epoch", ts |-> t]>>
              /\ t <= localFrontier'[w] /\ \A r \in remotes[w] : t <= frontier'[w][r]
  BY <1>1, <1>2, EpochEmitted
<1> QED BY <1>6, <1>7, <1>8

\* Data that is newer than what its input has let through goes to the operator.
LEMMA EpochLetsThrough ==
  ASSUME TypeOK, Settled, EpochInv, NEW w \in InitWorkers, NEW d \in DataMessage,
         d.ts > localFrontier[w] \/ \E r \in Others(w) : d.ts > frontier[w][r],
         out'[w] = Append(out[w], [kind |-> "Data", data |-> d]),
         opFrontier' = opFrontier, localFrontier' = localFrontier,
         \A r \in Others(w) : frontier'[w][r] = frontier[w][r]
  PROVE  /\ InTime(out'[w], opFrontier'[w]) /\ BehindNext(w, opFrontier'[w])
         /\ \A n \in DOMAIN out'[w] : out'[w][n].kind = "Epoch" => BehindNext(w, out'[w][n].ts)
<1> DEFINE m == [kind |-> "Data", data |-> d]
<1>1. /\ w \in Workers /\ localFrontier[w] \in Nat /\ opFrontier[w] \in Nat /\ out[w] \in Seq(OperatorMessage)
      /\ \A r \in Others(w) : frontier[w][r] \in Nat
      /\ \A n \in DOMAIN out[w] : out[w][n].kind = "Epoch" => out[w][n].ts \in Nat
  BY EpochTypes
<1>2. InTime(out[w], opFrontier[w]) /\ Behind(w, opFrontier[w])
      /\ \A n \in DOMAIN out[w] : out[w][n].kind = "Epoch" => Behind(w, out[w][n].ts)
  BY LateData DEF EpochInv, EpochsMerged
<1>3. ASSUME NEW t, Behind(w, t) PROVE BehindNext(w, t)
  BY <1>3 DEF Behind, BehindNext
<1>4. m \in OperatorMessage /\ m.kind = "Data" /\ m.data = d /\ d.ts \in Nat
  BY MessageTypes DEF DataMessage
<1>5. ASSUME NEW t \in Nat, Behind(w, t) PROVE d.ts > t
  BY <1>1, <1>4, <1>5 DEF Behind
<1>6. out'[w] = Append(out[w], m)
  OBVIOUS
<1> HIDE DEF m
<1>7. InTime(Append(out[w], m), opFrontier[w])
  <2>1. m.data.ts > opFrontier[w] /\ \A n \in DOMAIN out[w] : out[w][n].kind = "Epoch" => m.data.ts > out[w][n].ts
    BY <1>1, <1>2, <1>4, <1>5
  <2> QED BY <1>1, <1>2, <1>4, <2>1, InTimeSent
<1>8. \A n \in DOMAIN Append(out[w], m) : (n \in DOMAIN out[w] /\ Append(out[w], m)[n] = out[w][n]) \/ Append(out[w], m)[n] = m
  BY <1>1, <1>4, AppendAt
<1> QED BY <1>2, <1>3, <1>4, <1>6, <1>7, <1>8

LEMMA EpochUnchanged ==
  ASSUME TypeOK, Settled, EpochInv, NEW w \in InitWorkers, out'[w] = out[w], opFrontier'[w] = opFrontier[w],
         localFrontier'[w] = localFrontier[w], \A r \in Others(w) : frontier'[w][r] = frontier[w][r]
  PROVE  /\ InTime(out'[w], opFrontier'[w]) /\ BehindNext(w, opFrontier'[w])
         /\ \A n \in DOMAIN out'[w] : out'[w][n].kind = "Epoch" => BehindNext(w, out'[w][n].ts)
<1>1. InTime(out[w], opFrontier[w]) /\ Behind(w, opFrontier[w])
      /\ \A n \in DOMAIN out[w] : out[w][n].kind = "Epoch" => Behind(w, out[w][n].ts)
  BY LateData DEF EpochInv, EpochsMerged
<1>2. ASSUME NEW t, Behind(w, t) PROVE BehindNext(w, t)
  BY <1>2 DEF Behind, BehindNext
<1> QED BY <1>1, <1>2

LEMMA TakesEpochs ==
  ASSUME TypeOK, TypeOK', Settled, Settled', EpochInv, NEW w \in Workers, NEW r \in Workers, NEW m, Takes(w, r, m)
  PROVE  EpochInv'
<1>1. /\ w \in InitWorkers /\ r \in Others(w) /\ chan[<<r, w>>] # <<>> /\ m = Head(chan[<<r, w>>])
      /\ m \in NetworkMessage /\ chan'[<<r, w>>] = Tail(chan[<<r, w>>])
      /\ \A l \in Links \ {<<r, w>>} : Grown(chan[l], chan'[l], {"AckUpgrade"})
      /\ localFrontier' = localFrontier /\ opFrontier' = opFrontier
      /\ frontier' = IF m.kind = "Epoch" THEN [frontier EXCEPT ![w][r] = m.ts] ELSE frontier
      /\ out' = [out EXCEPT ![w] = CASE m.kind = "Data"  -> Append(@, [kind |-> "Data", data |-> m.data])
                                 [] m.kind = "Epoch" -> @ \o HandleEpoch(w, frontier'[w], localFrontier[w])
                                 [] OTHER -> @]
  BY DEF Takes, alignVars
<1>2. /\ chan[<<r, w>>] \in Seq(NetworkMessage) /\ frontier[w][r] \in Nat /\ localFrontier[r] \in Nat
      /\ out \in [Workers -> Seq(OperatorMessage)] /\ frontier \in [Workers -> [Workers -> Nat]]
  BY <1>1, EpochTypes DEF TypeOK, LinkTypeOK, PeerTypeOK
<1>3. InOrder(chan[<<r, w>>], frontier[w][r], localFrontier[r])
  BY <1>1 DEF EpochInv, LinksInOrder
<1>4. /\ InOrder(Tail(chan[<<r, w>>]), IF m.kind = "Epoch" THEN m.ts ELSE frontier[w][r], localFrontier[r])
      /\ m.kind = "Data" => m.data.ts > frontier[w][r]
      /\ m.kind = "Epoch" => m.ts > frontier[w][r]
  BY <1>1, <1>2, <1>3, OrderTaken
<1>5. \A x, y \in Workers : frontier'[x][y] = IF x = w /\ y = r /\ m.kind = "Epoch" THEN m.ts ELSE frontier[x][y]
  BY <1>1, <1>2
<1>6. ASSUME NEW x \in InitWorkers, NEW y \in Others(x)
      PROVE  InOrder(chan'[<<y, x>>], frontier'[x][y], localFrontier'[y])
  <2>1. x \in Workers /\ y \in Workers /\ <<y, x>> \in Links /\ chan[<<y, x>>] \in Seq(NetworkMessage)
        /\ chan'[<<y, x>>] \in Seq(NetworkMessage)
    BY SettledWorkers DEF TypeOK, LinkTypeOK
  <2>2. CASE x = w /\ y = r
    BY <1>1, <1>4, <1>5, <2>1, <2>2
  <2>3. CASE ~(x = w /\ y = r)
    <3>1. <<y, x>> # <<r, w>>
      BY <2>3
    <3>2. Grown(chan[<<y, x>>], chan'[<<y, x>>], {"AckUpgrade"}) /\ frontier'[x][y] = frontier[x][y]
      BY <1>1, <1>5, <2>1, <2>3, <3>1
    <3>3. InOrder(chan[<<y, x>>], frontier[x][y], localFrontier[y])
      BY DEF EpochInv, LinksInOrder
    <3>4. InOrder(chan'[<<y, x>>], frontier[x][y], localFrontier[y])
      BY <2>1, <3>2, <3>3, GrownInOrder
    <3> QED BY <1>1, <3>2, <3>4
  <2> QED BY <2>2, <2>3
<1>7. ASSUME NEW x \in InitWorkers
      PROVE  /\ InTime(out'[x], opFrontier'[x]) /\ BehindNext(x, opFrontier'[x])
             /\ \A n \in DOMAIN out'[x] : out'[x][n].kind = "Epoch" => BehindNext(x, out'[x][n].ts)
  <2>1. x \in Workers /\ \A y \in Others(x) : y \in Workers /\ frontier[x][y] \in Nat
    BY EpochTypes
  <2>2. CASE x # w \/ m.kind \notin {"Data", "Epoch"}
    <3>1. out'[x] = out[x] /\ \A y \in Others(x) : frontier'[x][y] = frontier[x][y]
      BY <1>1, <1>2, <1>5, <2>1, <2>2
    <3> QED BY <1>1, <3>1, EpochUnchanged
  <2>3. CASE x = w /\ m.kind = "Data"
    <3>1. out'[w] = Append(out[w], [kind |-> "Data", data |-> m.data]) /\ frontier' = frontier
      BY <1>1, <1>2, <2>3
    <3>2. m.data \in DataMessage
      BY <1>1, <2>3, NetworkFields
    <3>3. \E y \in Others(w) : m.data.ts > frontier[w][y]
      BY <1>1, <1>4, <2>3
    <3> QED BY <1>1, <2>3, <3>1, <3>2, <3>3, EpochLetsThrough
  <2>4. CASE x = w /\ m.kind = "Epoch"
    <3>1. out'[w] = out[w] \o HandleEpoch(w, frontier'[w], localFrontier'[w])
      BY <1>1, <1>2, <2>4
    <3>2. m.ts \in Nat
      BY <1>1, <2>4, NetworkFields
    <3>3. \A y \in Others(w) : frontier[w][y] <= frontier'[w][y]
      BY <1>4, <1>5, <2>1, <2>4, <3>2
    <3>4. localFrontier[w] <= localFrontier'[w]
      BY <1>1, EpochTypes
    <3> QED BY <1>1, <2>4, <3>1, <3>3, <3>4, EpochMerges
  <2> QED BY <2>2, <2>3, <2>4
<1> QED BY <1>6, <1>7, EpochParts

LEMMA EmitsEpochs ==
  ASSUME TypeOK, TypeOK', Settled, Settled', EpochInv, NEW w \in InitWorkers, NEW d \in DataMessage, Emits(w, d)
  PROVE  EpochInv'
<1>1. d.ts > localFrontier[w] /\ d.ts \in Nat /\ UNCHANGED <<frontier, localFrontier, opFrontier>>
  BY DEF Emits, DataMessage
<1>2. chan \in [Links -> Seq(NetworkMessage)] /\ out \in [Workers -> Seq(OperatorMessage)] /\ w \in Workers
      /\ version[w] \in Nat
  BY SettledWorkers DEF TypeOK, RouterTypeOK
<1>3. ASSUME NEW x \in InitWorkers, NEW y \in Others(x)
      PROVE  InOrder(chan'[<<y, x>>], frontier'[x][y], localFrontier'[y])
  <2> DEFINE m == [kind |-> "Data", data |-> d, version |-> version[w]]
  <2>1. x \in Workers /\ y \in Workers /\ <<y, x>> \in Links /\ chan[<<y, x>>] \in Seq(NetworkMessage)
        /\ frontier[x][y] \in Nat /\ localFrontier[y] \in Nat
    BY SettledWorkers, EpochTypes DEF Others
  <2>2. m \in NetworkMessage /\ m.kind = "Data" /\ m.data = d
    BY <1>2, MessageTypes
  <2>3. chan'[<<y, x>>] = chan[<<y, x>>] \/ (y = w /\ chan'[<<y, x>>] = Append(chan[<<y, x>>], m))
    BY <1>2, <2>1 DEF Emits
  <2> HIDE DEF m
  <2>4. InOrder(chan[<<y, x>>], frontier[x][y], localFrontier[y])
    BY DEF EpochInv, LinksInOrder
  <2>5. CASE y = w /\ chan'[<<y, x>>] = Append(chan[<<y, x>>], m)
    <3>1. InOrder(Append(chan[<<y, x>>], m), frontier[x][y], localFrontier[y])
      BY <1>1, <2>1, <2>2, <2>4, <2>5, OrderSent
    <3> QED BY <1>1, <2>5, <3>1
  <2> QED BY <1>1, <2>3, <2>4, <2>5
<1>4. ASSUME NEW x \in InitWorkers
      PROVE  /\ InTime(out'[x], opFrontier'[x]) /\ BehindNext(x, opFrontier'[x])
             /\ \A n \in DOMAIN out'[x] : out'[x][n].kind = "Epoch" => BehindNext(x, out'[x][n].ts)
  <2>1. x \in Workers
    BY SettledWorkers
  <2>2. out'[x] = out[x] \/ (x = w /\ out'[w] = Append(out[w], [kind |-> "Data", data |-> d]))
    BY <1>2, <2>1 DEF Emits
  <2>3. CASE out'[x] = out[x]
    BY <1>1, <2>3, EpochUnchanged
  <2>4. CASE x = w /\ out'[w] = Append(out[w], [kind |-> "Data", data |-> d])
    BY <1>1, <2>4, EpochLetsThrough
  <2> QED BY <2>2, <2>3, <2>4
<1> QED BY <1>3, <1>4, EpochParts

LEMMA LocalEpochEpochs ==
  ASSUME TypeOK, TypeOK', Settled, Settled', EpochInv, NEW w \in InitWorkers, LocalEpoch(w) PROVE EpochInv'
<1>1. PICK e \in (localFrontier[w] + 1)..MaxEpoch :
        /\ chan' = Broadcast(chan, w, [kind |-> "Epoch", ts |-> e])
        /\ localFrontier' = [localFrontier EXCEPT ![w] = e]
        /\ out' = [out EXCEPT ![w] = @ \o HandleEpoch(w, frontier[w], e)]
  BY DEF LocalEpoch
<1>2. UNCHANGED <<frontier, opFrontier>>
  BY DEF LocalEpoch, remoteVars, opVars
<1>3. out \in [Workers -> Seq(OperatorMessage)] /\ w \in Workers /\ localFrontier \in [Workers -> Nat]
      /\ localFrontier[w] \in Nat
  BY SettledWorkers DEF TypeOK, LocalTypeOK
<1>4. e \in Nat \ {NoTime} /\ e > localFrontier[w]
  BY <1>1, <1>3, DistributorAssumption DEF NoTime
<1>5. \A x \in Workers : localFrontier'[x] = IF x = w THEN e ELSE localFrontier[x]
  BY <1>1, <1>3
<1>6. ASSUME NEW x \in InitWorkers, NEW y \in Others(x)
      PROVE  InOrder(chan'[<<y, x>>], frontier'[x][y], localFrontier'[y])
  <2> DEFINE m == [kind |-> "Epoch", ts |-> e]
  <2>1. x \in Workers /\ y \in Workers /\ y \in InitWorkers /\ x \in Others(y) /\ chan[<<y, x>>] \in Seq(NetworkMessage)
        /\ frontier[x][y] \in Nat /\ localFrontier[y] \in Nat
    BY SettledWorkers, EpochTypes DEF Others
  <2>2. m \in NetworkMessage /\ m.kind = "Epoch" /\ m.ts = e
    BY <1>4, MessageTypes
  <2> HIDE DEF m
  <2>3. chan'[<<y, x>>] = IF y = w THEN Append(chan[<<y, x>>], m) ELSE chan[<<y, x>>]
    <3>1. Broadcast(chan, w, m)[<<y, x>>] = IF y = w THEN Append(chan[<<y, x>>], m) ELSE chan[<<y, x>>]
      BY <2>1, <2>2, Broadcasting
    <3> QED BY <1>1, <3>1 DEF m
  <2>4. InOrder(chan[<<y, x>>], frontier[x][y], localFrontier[y])
    BY DEF EpochInv, LinksInOrder
  <2>5. CASE y = w
    <3>1. InOrder(Append(chan[<<y, x>>], m), frontier[x][y], e)
      BY <1>4, <2>1, <2>2, <2>4, <2>5, OrderSent
    <3> QED BY <1>2, <1>5, <2>1, <2>3, <2>5, <3>1
  <2> QED BY <1>2, <1>5, <2>1, <2>3, <2>4, <2>5
<1>7. ASSUME NEW x \in InitWorkers
      PROVE  /\ InTime(out'[x], opFrontier'[x]) /\ BehindNext(x, opFrontier'[x])
             /\ \A n \in DOMAIN out'[x] : out'[x][n].kind = "Epoch" => BehindNext(x, out'[x][n].ts)
  <2>1. x \in Workers
    BY SettledWorkers
  <2>2. CASE x = w
    <3>1. out'[w] = out[w] \o HandleEpoch(w, frontier'[w], localFrontier'[w])
      BY <1>1, <1>2, <1>3, <1>5
    <3>2. \A r \in Others(w) : frontier[w][r] <= frontier'[w][r]
      <4>1. \A r \in Others(w) : frontier[w][r] \in Nat
        BY EpochTypes
      <4> QED BY <1>2, <4>1
    <3>3. localFrontier[w] <= localFrontier'[w]
      BY <1>3, <1>4, <1>5
    <3> QED BY <1>2, <2>2, <3>1, <3>2, <3>3, EpochMerges
  <2>3. CASE x # w
    <3>1. out'[x] = out[x] /\ localFrontier'[x] = localFrontier[x]
      BY <1>1, <1>3, <1>5, <2>1, <2>3
    <3> QED BY <1>2, <3>1, EpochUnchanged
  <2> QED BY <2>2, <2>3
<1> QED BY <1>6, <1>7, EpochParts

LEMMA ConsumesEpochs ==
  ASSUME TypeOK, TypeOK', Settled, Settled', EpochInv, NEW w \in Workers, NEW m, Consumes(w, m) PROVE EpochInv'
<1>1. /\ w \in InitWorkers /\ out[w] # <<>> /\ m = Head(out[w]) /\ m \in OperatorMessage
      /\ out' = [out EXCEPT ![w] = Tail(@)] /\ chan' = chan /\ UNCHANGED <<frontier, localFrontier>>
      /\ opFrontier' = IF m.kind = "Epoch"
                       THEN [opFrontier EXCEPT ![w] = IF m.ts > @ THEN m.ts ELSE @] ELSE opFrontier
  BY DEF Consumes
<1>2. /\ out \in [Workers -> Seq(OperatorMessage)] /\ opFrontier \in [Workers -> Nat] /\ opFrontier[w] \in Nat
      /\ (m.kind = "Epoch" => m.ts \in Nat)
  BY <1>1, OperatorFields DEF TypeOK, LinkTypeOK, OperatorTypeOK
<1>3. \A x \in InitWorkers : \A y \in Others(x) : InOrder(chan'[<<y, x>>], frontier'[x][y], localFrontier'[y])
  BY <1>1 DEF EpochInv, LinksInOrder
<1>4. ASSUME NEW x \in InitWorkers
      PROVE  /\ InTime(out'[x], opFrontier'[x]) /\ BehindNext(x, opFrontier'[x])
             /\ \A n \in DOMAIN out'[x] : out'[x][n].kind = "Epoch" => BehindNext(x, out'[x][n].ts)
  <2>1. x \in Workers
    BY SettledWorkers
  <2>2. CASE x # w
    <3>1. out'[x] = out[x] /\ opFrontier'[x] = opFrontier[x]
      BY <1>1, <1>2, <2>1, <2>2
    <3> QED BY <1>1, <3>1, EpochUnchanged
  <2>3. CASE x = w
    <3>1. InTime(out[w], opFrontier[w]) /\ Behind(w, opFrontier[w])
          /\ \A n \in DOMAIN out[w] : out[w][n].kind = "Epoch" => Behind(w, out[w][n].ts)
      BY <1>1, LateData DEF EpochInv, EpochsMerged
    <3>2. ASSUME NEW t, Behind(w, t) PROVE BehindNext(w, t)
      BY <1>1, <3>2 DEF Behind, BehindNext
    <3>3. out'[w] = Tail(out[w]) /\ out[w] \in Seq(OperatorMessage)
      BY <1>1, <1>2
    <3>4. InTime(Tail(out[w]), opFrontier[w]) /\ (m.kind = "Epoch" => InTime(Tail(out[w]), m.ts))
      BY <1>1, <1>2, <3>1, <3>3, InTimeTaken
    <3>5. /\ 1 \in DOMAIN out[w] /\ m = out[w][1]
          /\ \A n \in DOMAIN Tail(out[w]) : n + 1 \in DOMAIN out[w] /\ Tail(out[w])[n] = out[w][n + 1]
      BY <1>1, <3>3, TailAt
    <3>6. opFrontier'[w] = opFrontier[w] \/ (m.kind = "Epoch" /\ opFrontier'[w] = m.ts)
      BY <1>1, <1>2
    <3>7. InTime(out'[w], opFrontier'[w]) /\ BehindNext(w, opFrontier'[w])
      BY <3>1, <3>2, <3>3, <3>4, <3>5, <3>6
    <3>8. \A n \in DOMAIN out'[w] : out'[w][n].kind = "Epoch" => BehindNext(w, out'[w][n].ts)
      BY <3>1, <3>2, <3>3, <3>5
    <3> QED BY <2>3, <3>7, <3>8
  <2> QED BY <2>2, <2>3
<1> QED BY <1>3, <1>4, EpochParts

LEMMA NextEpochs ==
  ASSUME Steady, IInv, IInv', Settled, Settled', EpochInv, [Next]_vars PROVE EpochInv'
<1> USE DEF IInv
<1> DEFINE K == Dull \cup {"BarrierMarker", "AbsBarrier"}
<1>1. "Data" \notin K /\ "Epoch" \notin K /\ Dull \subseteq K
  BY DEF Dull
<1> HIDE DEF K
<1>2. CASE Uneventful
  <2>1. /\ \A l \in Links : Grown(chan[l], chan'[l], K)
        /\ \A w \in Workers : Grown(out[w], out'[w], K)
    BY <1>1, <1>2, GrownWider DEF Uneventful
  <2>2. /\ \A w \in InitWorkers : \A r \in Others(w) : frontier'[w][r] = frontier[w][r]
        /\ UNCHANGED <<localFrontier, opFrontier>>
    BY <1>2 DEF Uneventful, alignVars
  <2> QED BY <1>1, <2>1, <2>2, EpochsUntouched
<1>3. ASSUME NEW w \in InitWorkers, LocalBarrier(w) PROVE EpochInv'
  <2> DEFINE m == [kind |-> "BarrierMarker"]
  <2>1. m \in NetworkMessage /\ {m.kind} \subseteq K /\ chan' = Broadcast(chan, w, m)
    BY <1>3, MessageTypes DEF LocalBarrier, K
  <2> HIDE DEF m
  <2>2. \A l \in Links : Grown(chan[l], Broadcast(chan, w, m)[l], {m.kind})
    BY <2>1, Broadcasting
  <2>3. \A l \in Links : Grown(chan[l], chan'[l], K)
    BY <2>1, <2>2, GrownWider
  <2>4. UNCHANGED <<out, frontier, localFrontier, opFrontier>>
    BY <1>3 DEF LocalBarrier, remoteVars, opVars
  <2>5. \A x \in Workers : Grown(out[x], out'[x], K)
    BY <2>4, GrownSame
  <2> QED BY <1>1, <2>3, <2>4, <2>5, EpochsUntouched
<1>4. ASSUME NEW w \in Workers, Passes(w) PROVE EpochInv'
  <2> DEFINE b == [kind |-> "AbsBarrier"]
  <2>1. /\ \A l \in Links : Grown(chan[l], chan'[l], Dull)
        /\ \A x \in Workers \ {w} : out'[x] = out[x]
        /\ Grown(Append(out[w], b), out'[w], Dull)
        /\ UNCHANGED <<frontier, localFrontier, opFrontier>>
    BY <1>4 DEF Passes
  <2>2. out[w] \in Seq(OperatorMessage) /\ out'[w] \in Seq(OperatorMessage) /\ b \in OperatorMessage /\ b.kind \in K
    BY MessageTypes DEF TypeOK, LinkTypeOK, K
  <2> HIDE DEF b
  <2>3. Grown(out[w], Append(out[w], b), K) /\ Append(out[w], b) \in Seq(OperatorMessage)
    BY <2>2, GrownAppend
  <2>4. Grown(Append(out[w], b), out'[w], K)
    BY <1>1, <2>1, GrownWider
  <2>5. Grown(out[w], out'[w], K)
    BY <2>2, <2>3, <2>4, GrownFurther
  <2>6. \A x \in Workers : Grown(out[x], out'[x], K)
    BY <2>1, <2>5, GrownSame
  <2>7. \A l \in Links : Grown(chan[l], chan'[l], K)
    BY <1>1, <2>1, GrownWider
  <2> QED BY <1>1, <2>1, <2>6, <2>7, EpochsUntouched
<1>5. CASE StartSnapshot
  <2>1. UNCHANGED <<chan, out, frontier, localFrontier, opFrontier>>
    BY <1>5 DEF StartSnapshot, remoteVars, localVars, opVars
  <2>2. /\ \A l \in Links : Grown(chan[l], chan'[l], K)
        /\ \A w \in Workers : Grown(out[w], out'[w], K)
    BY <2>1, GrownSame
  <2> QED BY <1>1, <2>1, <2>2, EpochsUntouched
<1> QED BY <1>2, <1>3, <1>4, <1>5, NextSteady, TakesEpochs, EmitsEpochs, LocalEpochEpochs, ConsumesEpochs

LEMMA InitEpochs == ASSUME Init PROVE EpochInv
<1>1. InitWorkers \subseteq Workers /\ alive = InitWorkers
  BY DistributorAssumption DEF WorkerSets, Init
<1>2. ASSUME NEW w \in InitWorkers
      PROVE  out[w] = <<>> /\ localFrontier[w] = 0 /\ opFrontier[w] = 0
             /\ \A r \in Others(w) : chan[<<r, w>>] = <<>> /\ frontier[w][r] = 0 /\ localFrontier[r] = 0
  BY <1>1 DEF Init, Others, Links, NoTime
<1>3. LinksInOrder
  <2> SUFFICES ASSUME NEW w \in InitWorkers, NEW r \in Others(w) PROVE InOrder(<<>>, 0, 0)
    BY <1>2 DEF LinksInOrder
  <2> QED BY DEF InOrder
<1>4. EpochsMerged
  <2>1. ASSUME NEW w \in InitWorkers
        PROVE  Behind(w, opFrontier[w]) /\ \A n \in DOMAIN out[w] : out[w][n].kind = "Epoch" => Behind(w, out[w][n].ts)
    <3>1. Behind(w, opFrontier[w])
      <4>1. localFrontier[w] = 0 /\ opFrontier[w] = 0
        BY <1>2
      <4>2. ASSUME NEW r \in Others(w) PROVE frontier[w][r] = 0
        BY <1>2
      <4>3. 0 <= 0
        OBVIOUS
      <4> QED BY <4>1, <4>2, <4>3 DEF Behind
    <3>2. DOMAIN out[w] = {}
      BY <1>2
    <3> QED BY <3>1, <3>2
  <2> QED BY <2>1 DEF EpochsMerged
<1>5. NoLateData
  BY <1>1, <1>2 DEF NoLateData
<1> QED BY <1>3, <1>4, <1>5 DEF EpochInv

LEMMA EpochInductive == ASSUME Steady PROVE Spec => [](Settled /\ EpochInv)
<1>1. Init => Settled /\ EpochInv
  BY InitSettled, InitEpochs
<1>2. IInv /\ IInv' /\ (Settled /\ EpochInv) /\ [Next]_vars => (Settled /\ EpochInv)'
  BY NextSteady, NextEpochs
<1> QED BY <1>1, <1>2, Inductive, PTL DEF Spec

\* In every cluster that keeps its workers, whatever the partitioner, the number
\* of snapshots and restarts: the epochs that handle_epoch merges from the local
\* upstream and all remotes never let data pass behind them.
THEOREM NoDataIsLate == ASSUME Steady PROVE Spec => []NoLateData
<1>1. Settled /\ EpochInv => NoLateData
  BY DEF EpochInv
<1> QED BY <1>1, EpochInductive, PTL

----------------------------------------------------------------------------
\* Barriers.

\* Before the job is suspended nobody sends or has a suspend marker.
LEMMA SilentStep ==
  ASSUME TypeOK, TypeOK', Settled, NoSuspends, NEW K, "SuspendMarker" \notin K,
         \A w \in InitWorkers : \A r \in Others(w) :
            sentSuspend'[w][r] = sentSuspend[w][r] /\ Grown(chan[<<r, w>>], chan'[<<r, w>>], K)
  PROVE  NoSuspends'
<1> SUFFICES ASSUME NEW w \in InitWorkers, NEW r \in Others(w)
             PROVE  ~sentSuspend'[w][r] /\ Silent(chan'[<<r, w>>])
  BY DEF NoSuspends, Others
<1>1. ~sentSuspend[w][r] /\ Silent(chan[<<r, w>>])
  BY DEF NoSuspends
<1> QED BY <1>1 DEF Silent, Grown

LEMMA ReceiveSilent ==
  ASSUME IInv, IInv', Settled, NoSuspends, NEW w \in Workers, NEW r \in Workers, ReceiveRemote(w, r)
  PROVE  NoSuspends'
<1> USE DEF IInv
<1> DEFINE q == chan[<<r, w>>]
<1>1. Takes(w, r, Head(q)) /\ (sentSuspend' = sentSuspend \/ Head(q).kind = "SuspendMarker")
  BY ReceiveSteady
<1>2. /\ w \in InitWorkers /\ r \in Others(w) /\ q # <<>> /\ chan'[<<r, w>>] = Tail(q)
      /\ \A l \in Links \ {<<r, w>>} : Grown(chan[l], chan'[l], {"AckUpgrade"})
  BY <1>1 DEF Takes
<1>3. /\ 1 \in DOMAIN q /\ Head(q) = q[1]
      /\ \A n \in DOMAIN Tail(q) : n + 1 \in DOMAIN q /\ Tail(q)[n] = q[n + 1]
  <2>1. q \in Seq(NetworkMessage)
    BY <1>2, SettledWorkers
  <2> QED BY <1>2, <2>1, TailAt
<1>4. Silent(q)
  BY <1>2 DEF NoSuspends
<1>5. sentSuspend' = sentSuspend /\ Silent(Tail(q))
  BY <1>1, <1>3, <1>4 DEF Silent
<1> SUFFICES ASSUME NEW x \in InitWorkers, NEW y \in Others(x)
             PROVE  ~sentSuspend'[x][y] /\ Silent(chan'[<<y, x>>])
  BY DEF NoSuspends, Others
<1>6. ~sentSuspend[x][y] /\ Silent(chan[<<y, x>>]) /\ <<y, x>> \in Links
  BY SettledWorkers DEF NoSuspends
<1>7. CASE <<y, x>> # <<r, w>>
  BY <1>2, <1>5, <1>6, <1>7 DEF Silent, Grown
<1> QED BY <1>2, <1>5, <1>6, <1>7

\* Only the coordinator asks the workers to suspend.
LEMMA SuspendingMoves ==
  ASSUME [Next]_vars
  PROVE  suspending' = suspending \/ StartSuspend
<1>1. ASSUME NEW w \in Workers, RunStep(w) PROVE suspending' = suspending
  <2>1. ASSUME NEW r \in Workers, ReceiveRemote(w, r) PROVE suspending' = suspending
    BY <2>1 DEF ReceiveRemote, RemoteData, envVars
  <2>2. CASE NoLocal(w)
    BY <2>2 DEF NoLocal, envVars
  <2>3. CASE LocalData(w)
    BY <2>3 DEF LocalData, envVars
  <2>4. CASE LocalEpoch(w)
    BY <2>4 DEF LocalEpoch, envVars
  <2>5. CASE LocalControl(w)
    BY <2>5 DEF LocalControl, LocalBarrier, LocalSuspend, LocalRescale
  <2>6. CASE RunTail(w)
    BY <2>6 DEF RunTail, envVars
  <2> QED BY <1>1, <2>1, <2>2, <2>3, <2>4, <2>5, <2>6 DEF RunStep
<1>2. ASSUME NEW w \in Workers, WorkerStep(w) PROVE suspending' = suspending
  <2>1. CASE BeginRun(w)
    BY <2>1 DEF BeginRun, envVars
  <2>2. CASE StatefulOp(w)
    BY <2>2 DEF StatefulOp, envVars
  <2>3. CASE WorkerLeaves(w)
    BY <2>3 DEF WorkerLeaves
  <2> QED BY <1>1, <1>2, <2>1, <2>2, <2>3 DEF WorkerStep
<1>3. CASE StartRescale
  BY <1>3 DEF StartRescale
<1>4. CASE StartSnapshot
  BY <1>4 DEF StartSnapshot
<1>5. CASE UNCHANGED vars
  BY <1>5 DEF vars, envVars
<1> QED BY <1>2, <1>3, <1>4, <1>5 DEF Next

LEMMA NextSilent ==
  ASSUME Steady, IInv, IInv', Settled, BarrierInv, [Next]_vars, ~suspending'
  PROVE  NoSuspends'
<1> USE DEF IInv
<1> DEFINE Pairs(K) == \A w \in InitWorkers : \A r \in Others(w) :
             sentSuspend'[w][r] = sentSuspend[w][r] /\ Grown(chan[<<r, w>>], chan'[<<r, w>>], K)
<1>1. ~suspending /\ NoSuspends
  <2>1. ~suspending
    BY SuspendingMoves DEF StartSuspend
  <2> QED BY <2>1 DEF BarrierInv, SuspendedLater
<1>2. \A w \in InitWorkers : \A r \in Others(w) : <<r, w>> \in Links /\ <<w, r>> \in Links /\ r \in InitWorkers /\ w \in Others(r)
  BY SettledWorkers DEF Others
<1>3. CASE UNCHANGED <<chan, sentSuspend>>
  <2>1. Pairs({})
    BY <1>3, GrownSame
  <2> QED BY <1>1, <2>1, SilentStep
<1>4. CASE UNCHANGED vars
  BY <1>3, <1>4 DEF vars, remoteVars
<1>5. ASSUME NEW w \in Workers, BeginRun(w) PROVE NoSuspends'
  BY <1>3, <1>5, BeginRunSteady
<1>6. ASSUME NEW w \in InitWorkers, NEW m \in NetworkMessage, m.kind # "SuspendMarker",
             chan' = Broadcast(chan, w, m), sentSuspend' = sentSuspend
      PROVE  NoSuspends'
  <2>1. \A l \in Links : Grown(chan[l], Broadcast(chan, w, m)[l], {m.kind})
    BY Broadcasting
  <2>2. Pairs({m.kind})
    BY <1>2, <1>6, <2>1
  <2> QED BY <1>1, <1>6, <2>2, SilentStep
<1>7. ASSUME NEW w \in Workers, RunStep(w) PROVE NoSuspends'
  <2>1. w \in InitWorkers
    <3>1. w \in alive
      BY <1>7, RunningIsAlive DEF RescaleInv
    <3> QED BY <3>1 DEF Settled
  <2>2. ASSUME NEW r \in Workers, ReceiveRemote(w, r) PROVE NoSuspends'
    BY <1>1, <2>2, ReceiveSilent
  <2>3. CASE NoLocal(w)
    BY <1>3, <2>3 DEF NoLocal, remoteVars
  <2>4. ~LocalSuspend(w)
    BY <1>1 DEF LocalSuspend
  <2>5. CASE LocalData(w)
    <3>1. sentSuspend' = sentSuspend
      BY <2>5 DEF LocalData, remoteVars
    <3>2. PICK d \in DataMessage : Emits(w, d)
      BY <2>1, <2>5, LocalDataSteady
    <3> DEFINE m == [kind |-> "Data", data |-> d, version |-> version[w]]
    <3>3. m \in NetworkMessage /\ m.kind = "Data" /\ chan \in [Links -> Seq(NetworkMessage)]
      BY MessageTypes DEF TypeOK, RouterTypeOK, LinkTypeOK
    <3>4. chan' = chan \/ \E y \in Others(w) : chan' = [chan EXCEPT ![<<w, y>>] = Append(@, m)]
      BY <3>2 DEF Emits
    <3> HIDE DEF m
    <3>5. ASSUME NEW x \in InitWorkers, NEW y \in Others(x) PROVE Grown(chan[<<y, x>>], chan'[<<y, x>>], {"Data"})
      <4>1. chan[<<y, x>>] \in Seq(NetworkMessage) /\ <<y, x>> \in Links
        BY <1>2, <3>3
      <4>2. chan'[<<y, x>>] = chan[<<y, x>>] \/ chan'[<<y, x>>] = Append(chan[<<y, x>>], m)
        BY <3>3, <3>4, <4>1
      <4>3. Grown(chan[<<y, x>>], chan[<<y, x>>], {"Data"}) /\ Grown(chan[<<y, x>>], Append(chan[<<y, x>>], m), {"Data"})
        BY <3>3, <4>1, GrownSame, GrownAppend
      <4> QED BY <4>2, <4>3
    <3>6. Pairs({"Data"})
      BY <3>1, <3>5
    <3> QED BY <1>1, <3>6, SilentStep
  <2>6. CASE LocalEpoch(w)
    <3>1. PICK e \in (localFrontier[w] + 1)..MaxEpoch : chan' = Broadcast(chan, w, [kind |-> "Epoch", ts |-> e])
      BY <2>6 DEF LocalEpoch
    <3>2. e \in Nat \ {NoTime}
      BY <3>1, DistributorAssumption DEF TypeOK, LocalTypeOK, NoTime
    <3>3. [kind |-> "Epoch", ts |-> e] \in NetworkMessage /\ sentSuspend' = sentSuspend
      BY <2>6, <3>2, MessageTypes DEF LocalEpoch, remoteVars
    <3> QED BY <1>6, <2>1, <3>1, <3>3
  <2>7. CASE LocalBarrier(w)
    <3>1. [kind |-> "BarrierMarker"] \in NetworkMessage /\ sentSuspend' = sentSuspend
          /\ chan' = Broadcast(chan, w, [kind |-> "BarrierMarker"])
      BY <2>7, MessageTypes DEF LocalBarrier, remoteVars
    <3> QED BY <1>6, <2>1, <3>1
  <2>8. CASE LocalRescale(w)
    <3>1. Pairs({})
      BY <2>1, <2>8, LocalRescaleSteady, GrownSame
    <3> QED BY <1>1, <3>1, SilentStep
  <2>9. CASE RunTail(w)
    <3>1. Pairs({"Upgrade"})
      BY <1>2, <2>1, <2>9, RunTailSteady
    <3> QED BY <1>1, <3>1, SilentStep
  <2> QED BY <1>7, <2>2, <2>3, <2>4, <2>5, <2>6, <2>7, <2>8, <2>9 DEF RunStep, LocalControl
<1>8. ASSUME NEW w \in Workers, StatefulOp(w) PROVE NoSuspends'
  BY <1>3, <1>8, StatefulOpSteady DEF Consumes
<1>9. CASE StartRescale
  BY <1>3, <1>9, StartRescaleSteady
<1>10. CASE StartSnapshot
  BY <1>3, <1>10, CoordinatorSteady
<1>11. ~StartSuspend
  BY DEF StartSuspend
<1> QED BY <1>4, <1>5, <1>7, <1>8, <1>9, <1>10, <1>11, NobodyLeavesSteady DEF Next, WorkerStep

\* A run polls no remote whose barrier it has.
LEMMA NextPolled ==
  ASSUME Steady, IInv, IInv', Settled, PolledUnbarred, [Next]_vars
  PROVE  PolledUnbarred'
<1> USE DEF IInv
<1>1. CASE turn'.poll = {}
  BY <1>1 DEF PolledUnbarred
<1>2. CASE UNCHANGED vars
  BY <1>2 DEF vars, remoteVars, PolledUnbarred
<1>3. ASSUME NEW w \in Workers, BeginRun(w) PROVE PolledUnbarred'
  BY <1>3, BeginRunSteady DEF PolledUnbarred, Pollable
<1>4. ASSUME NEW w \in Workers, NEW r \in Workers, ReceiveRemote(w, r) PROVE PolledUnbarred'
  <2>1. Takes(w, r, Head(chan[<<r, w>>])) /\ turn' = [turn EXCEPT !.poll = @ \ {r}]
    BY <1>4, ReceiveSteady
  <2>2. turn.worker = w /\ barred \in [Workers -> [Workers -> BOOLEAN]]
        /\ (barred' = barred \/ barred' = [barred EXCEPT ![w][r] = TRUE])
    BY <2>1 DEF Takes, TypeOK, PeerTypeOK
  <2>3. turn' \in Turns /\ turn \in Turns
    BY DEF TypeOK, LocalTypeOK
  <2>4. turn'.worker = w /\ turn'.poll = turn.poll \ {r} /\ turn.poll \subseteq Workers
    BY <2>1, <2>2, <2>3 DEF Turns, Idle
  <2> SUFFICES ASSUME NEW y \in turn'.poll PROVE ~barred'[w][y]
    BY <2>4 DEF PolledUnbarred
  <2>5. y \in turn.poll /\ y # r /\ y \in Workers
    BY <2>4
  <2>6. ~barred[w][y]
    BY <2>2, <2>5 DEF PolledUnbarred
  <2> QED BY <2>2, <2>5, <2>6
<1>5. ASSUME NEW w \in Workers, RunStep(w) PROVE PolledUnbarred'
  <2>1. w \in InitWorkers
    <3>1. w \in alive
      BY <1>5, RunningIsAlive DEF RescaleInv
    <3> QED BY <3>1 DEF Settled
  <2> QED BY <1>1, <1>4, <1>5, <2>1, NoLocalSteady, LocalDataSteady, LocalEpochSteady, LocalBarrierSteady,
             LocalRescaleSteady, RunTailSteady DEF RunStep, LocalControl
<1>6. ASSUME NEW w \in Workers, StatefulOp(w) PROVE PolledUnbarred'
  BY <1>1, <1>6, StatefulOpSteady
<1>7. CASE StartRescale \/ StartSnapshot \/ StartSuspend
  BY <1>1, <1>7, StartRescaleSteady, CoordinatorSteady
<1> QED BY <1>2, <1>3, <1>5, <1>6, <1>7, NobodyLeavesSteady DEF Next, WorkerStep

LEMMA MarkTypes ==
  ASSUME TypeOK, Settled
  PROVE  /\ barrierRound \in Nat
         /\ \A w \in InitWorkers :
              /\ w \in Workers /\ taken[w] \in Nat /\ persisted[w] \in Nat /\ out[w] \in Seq(OperatorMessage)
              /\ \A r \in Others(w) : /\ r \in Workers /\ r \in InitWorkers /\ w \in Others(r) /\ r # w
                                      /\ <<r, w>> \in Links /\ chan[<<r, w>>] \in Seq(NetworkMessage)
<1>1. barrierRound \in Nat /\ taken \in [Workers -> Nat] /\ persisted \in [Workers -> Nat]
  BY DistributorAssumption DEF TypeOK, EnvTypeOK, OperatorTypeOK
<1>2. \A w \in InitWorkers : w \in Workers /\ out[w] \in Seq(OperatorMessage)
  BY SettledWorkers
<1>3. ASSUME NEW w \in InitWorkers, NEW r \in Others(w)
      PROVE  /\ r \in Workers /\ r \in InitWorkers /\ w \in Others(r) /\ r # w
             /\ <<r, w>> \in Links /\ chan[<<r, w>>] \in Seq(NetworkMessage)
  BY SettledWorkers DEF Others
<1> QED BY <1>1, <1>2, <1>3

LEMMA QueueTypes ==
  ASSUME TypeOK, TypeOK', Settled
  PROVE  \A w \in InitWorkers :
           /\ out[w] \in Seq(OperatorMessage) /\ out'[w] \in Seq(OperatorMessage)
           /\ \A r \in Others(w) : chan[<<r, w>>] \in Seq(NetworkMessage) /\ chan'[<<r, w>>] \in Seq(NetworkMessage)
<1>1. chan' \in [Links -> Seq(NetworkMessage)] /\ out' \in [Workers -> Seq(OperatorMessage)]
  BY DEF TypeOK, LinkTypeOK
<1> QED BY <1>1, MarkTypes

\* Steps that neither send nor take a barrier.
LEMMA MarksKept ==
  ASSUME Rounds, MarksOnWay, UNCHANGED <<localBarrier, taken, persisted, barrierRound>>,
         \A w \in InitWorkers : /\ MarkSame(out[w], out'[w])
                                /\ \A r \in Others(w) : /\ MarkSame(chan[<<r, w>>], chan'[<<r, w>>])
                                                        /\ barred'[w][r] = barred[w][r]
  PROVE  Rounds' /\ MarksOnWay'
<1>1. Rounds'
  BY DEF Rounds, Waits, Others
<1>2. \A w \in InitWorkers : Waits(w)' <=> Waits(w)
  BY DEF Waits
<1>3. ASSUME NEW w \in InitWorkers
      PROVE  OneMark(out'[w]) /\ (Marked(out'[w]) <=> ~Waits(w)' /\ persisted'[w] < barrierRound')
  BY <1>2 DEF MarksOnWay, MarkSame
<1>4. ASSUME NEW w \in InitWorkers, NEW r \in Others(w)
      PROVE  /\ OneMark(chan'[<<r, w>>])
             /\ Marked(chan'[<<r, w>>]) <=> taken'[r] = barrierRound' /\ Waits(w)' /\ ~barred'[w][r]
             /\ barred'[w][r] => taken'[r] = barrierRound' /\ Waits(w)'
  BY <1>2 DEF MarksOnWay, MarkSame
<1>5. MarksOnWay'
  BY <1>3, <1>4 DEF MarksOnWay, Others, OneMark, Marked, Waits
<1> QED BY <1>1, <1>5

LEMMA EpochAdded ==
  ASSUME TypeOK, NEW w \in Workers, NEW f \in [Workers -> Nat], NEW local \in Nat,
         NEW q \in Seq(OperatorMessage)
  PROVE  Grown(q, q \o HandleEpoch(w, f, local), {"Epoch"})
<1>1. HandleEpoch(w, f, local) \in Seq(OperatorMessage)
  BY HandleEpochType DEF TypeOK, PeerTypeOK
<1>2. \A n \in DOMAIN HandleEpoch(w, f, local) : HandleEpoch(w, f, local)[n].kind \in {"Epoch"}
  BY EpochEmitted
<1> HIDE DEF HandleEpoch
<1> QED BY <1>1, <1>2, GrownJoin

\* What Takes does to the queues.
LEMMA TakesQueues ==
  ASSUME TypeOK, TypeOK', Settled, NEW w \in Workers, NEW r \in Workers, NEW m, Takes(w, r, m)
  PROVE  /\ w \in InitWorkers /\ r \in Others(w) /\ m = Head(chan[<<r, w>>]) /\ m = chan[<<r, w>>][1]
         /\ 1 \in DOMAIN chan[<<r, w>>] /\ chan[<<r, w>>] # <<>>
         /\ chan'[<<r, w>>] = Tail(chan[<<r, w>>]) /\ m \in NetworkMessage
         /\ \A x \in InitWorkers : \A y \in Others(x) :
              <<y, x>> # <<r, w>> => Grown(chan[<<y, x>>], chan'[<<y, x>>], {"AckUpgrade"})
         /\ \A x \in InitWorkers : x # w => out'[x] = out[x]
         /\ m.kind = "Data" => /\ out'[w] = Append(out[w], [kind |-> "Data", data |-> m.data])
                               /\ [kind |-> "Data", data |-> m.data] \in OperatorMessage
         /\ m.kind # "Data" => Grown(out[w], out'[w], {"Epoch"})
         /\ UNCHANGED alignVars
<1>1. /\ w \in InitWorkers /\ r \in Others(w) /\ chan[<<r, w>>] # <<>> /\ m = Head(chan[<<r, w>>])
      /\ m \in NetworkMessage /\ chan'[<<r, w>>] = Tail(chan[<<r, w>>])
      /\ \A l \in Links \ {<<r, w>>} : Grown(chan[l], chan'[l], {"AckUpgrade"})
      /\ out' = [out EXCEPT ![w] = CASE m.kind = "Data"  -> Append(@, [kind |-> "Data", data |-> m.data])
                                 [] m.kind = "Epoch" -> @ \o HandleEpoch(w, frontier'[w], localFrontier[w])
                                 [] OTHER -> @]
      /\ UNCHANGED alignVars
  BY DEF Takes
<1>2. out \in [Workers -> Seq(OperatorMessage)] /\ chan[<<r, w>>] \in Seq(NetworkMessage)
      /\ \A x \in InitWorkers : x \in Workers /\ \A y \in Others(x) : <<y, x>> \in Links
  BY <1>1, SettledWorkers
<1>3. m = chan[<<r, w>>][1] /\ 1 \in DOMAIN chan[<<r, w>>]
  BY <1>1, <1>2, TailAt
<1>4. \A x \in InitWorkers : x # w => out'[x] = out[x]
  BY <1>1, <1>2
<1>5. m.kind = "Data" => /\ out'[w] = Append(out[w], [kind |-> "Data", data |-> m.data])
                         /\ [kind |-> "Data", data |-> m.data] \in OperatorMessage
  <2>1. m.kind = "Data" => out'[w] = Append(out[w], [kind |-> "Data", data |-> m.data])
    BY <1>1, <1>2
  <2>2. m.kind = "Data" => m.data \in DataMessage
    BY <1>1, NetworkFields
  <2> QED BY <2>1, <2>2, MessageTypes
<1>6. ASSUME m.kind # "Data" PROVE Grown(out[w], out'[w], {"Epoch"})
  <2>1. frontier'[w] \in [Workers -> Nat] /\ localFrontier[w] \in Nat
    BY DEF TypeOK, PeerTypeOK, LocalTypeOK
  <2>2. CASE m.kind = "Epoch"
    <3>1. out'[w] = out[w] \o HandleEpoch(w, frontier'[w], localFrontier[w])
      BY <1>1, <1>2, <2>2
    <3> QED BY <1>2, <2>1, <3>1, EpochAdded
  <2>3. CASE m.kind # "Epoch"
    <3>1. out'[w] = out[w]
      BY <1>1, <1>2, <1>6, <2>3
    <3> QED BY <3>1, GrownSame
  <2> QED BY <2>2, <2>3
<1> QED BY <1>1, <1>2, <1>3, <1>4, <1>5, <1>6

LEMMA UneventfulMarks ==
  ASSUME TypeOK, TypeOK', Settled, Rounds, MarksOnWay, Uneventful PROVE Rounds' /\ MarksOnWay'
<1>1. "BarrierMarker" \notin Dull /\ "AbsBarrier" \notin Dull
  BY DEF Dull
<1>2. ASSUME NEW w \in InitWorkers
      PROVE  /\ MarkSame(out[w], out'[w])
             /\ \A r \in Others(w) : MarkSame(chan[<<r, w>>], chan'[<<r, w>>]) /\ barred'[w][r] = barred[w][r]
  <2>1. /\ Grown(out[w], out'[w], Dull)
        /\ \A r \in Others(w) : Grown(chan[<<r, w>>], chan'[<<r, w>>], Dull) /\ barred'[w][r] = barred[w][r]
    BY MarkTypes DEF Uneventful
  <2> QED BY <1>1, <2>1, QueueTypes, GrownMarks
<1>3. UNCHANGED <<localBarrier, taken, persisted, barrierRound>>
  BY DEF Uneventful, alignVars
<1> QED BY <1>2, <1>3, MarksKept

LEMMA TakesMarks ==
  ASSUME TypeOK, TypeOK', Settled, Rounds, MarksOnWay, PolledUnbarred,
         NEW w \in Workers, NEW r \in Workers, NEW m, Takes(w, r, m)
  PROVE  Rounds' /\ MarksOnWay'
<1>1. /\ w \in InitWorkers /\ r \in Others(w) /\ m = Head(chan[<<r, w>>]) /\ m = chan[<<r, w>>][1]
      /\ 1 \in DOMAIN chan[<<r, w>>] /\ chan[<<r, w>>] # <<>> /\ chan'[<<r, w>>] = Tail(chan[<<r, w>>])
      /\ m \in NetworkMessage
      /\ \A x \in InitWorkers : \A y \in Others(x) :
           <<y, x>> # <<r, w>> => Grown(chan[<<y, x>>], chan'[<<y, x>>], {"AckUpgrade"})
      /\ \A x \in InitWorkers : x # w => out'[x] = out[x]
      /\ m.kind = "Data" => out'[w] = Append(out[w], [kind |-> "Data", data |-> m.data])
      /\ m.kind = "Data" => [kind |-> "Data", data |-> m.data] \in OperatorMessage
      /\ m.kind # "Data" => Grown(out[w], out'[w], {"Epoch"})
      /\ UNCHANGED alignVars
  BY TakesQueues
<1>2. UNCHANGED <<localBarrier, taken, persisted, barrierRound>>
  BY <1>1 DEF alignVars
<1>3. ~barred[w][r] /\ barred' = IF m.kind = "BarrierMarker" THEN [barred EXCEPT ![w][r] = TRUE] ELSE barred
  BY DEF Takes, PolledUnbarred
<1>4. ASSUME NEW x \in InitWorkers PROVE MarkSame(out[x], out'[x])
  <2> DEFINE d == [kind |-> "Data", data |-> m.data]
  <2>1. out[x] \in Seq(OperatorMessage) /\ out'[x] \in Seq(OperatorMessage)
    BY QueueTypes
  <2>2. CASE x # w
    BY <1>1, <2>2 DEF MarkSame
  <2>3. CASE x = w /\ m.kind # "Data"
    BY <1>1, <2>1, <2>3, GrownMarks
  <2>4. CASE x = w /\ m.kind = "Data"
    <3>1. d \in OperatorMessage /\ d.kind \in {"Data"} /\ out'[x] = Append(out[x], d)
      BY <1>1, <2>4
    <3> HIDE DEF d
    <3>2. Grown(out[x], out'[x], {"Data"})
      BY <2>1, <3>1, GrownAppend
    <3> QED BY <2>1, <3>2, GrownMarks
  <2> QED BY <2>2, <2>3, <2>4
<1>5. ASSUME NEW x \in InitWorkers, NEW y \in Others(x), <<y, x>> # <<r, w>>
      PROVE  MarkSame(chan[<<y, x>>], chan'[<<y, x>>])
  <2>1. Grown(chan[<<y, x>>], chan'[<<y, x>>], {"AckUpgrade"})
    BY <1>1, <1>5
  <2> QED BY <2>1, QueueTypes, GrownMarks
<1>6. /\ OneMark(chan[<<r, w>>]) /\ OneMark(chan'[<<r, w>>])
      /\ Marked(chan'[<<r, w>>]) <=> Marked(chan[<<r, w>>]) /\ ~IsMark(m)
  <2>1. OneMark(chan[<<r, w>>])
    BY <1>1 DEF MarksOnWay
  <2> QED BY <1>1, <2>1, QueueTypes, MarksTaken
<1>7. barred \in [Workers -> [Workers -> BOOLEAN]] /\ \A x \in InitWorkers : x \in Workers /\ \A y \in Others(x) : y \in Workers
  BY MarkTypes DEF TypeOK, PeerTypeOK
<1>8. CASE m.kind # "BarrierMarker"
  <2>1. ~IsMark(m)
    <3>1. m.kind # "AbsBarrier"
      BY <1>1 DEF NetworkMessage
    <3> QED BY <1>8, <3>1 DEF IsMark
  <2>2. MarkSame(chan[<<r, w>>], chan'[<<r, w>>])
    BY <1>6, <2>1 DEF MarkSame
  <2>3. \A x \in InitWorkers : \A y \in Others(x) : MarkSame(chan[<<y, x>>], chan'[<<y, x>>]) /\ barred'[x][y] = barred[x][y]
    BY <1>3, <1>5, <1>8, <2>2
  <2> QED BY <1>2, <1>4, <2>3, MarksKept
<1>9. CASE m.kind = "BarrierMarker"
  <2>1. Marked(chan[<<r, w>>]) /\ IsMark(m)
    BY <1>1, <1>9 DEF Marked, IsMark
  <2>2. taken[r] = barrierRound /\ Waits(w)
    BY <1>1, <2>1 DEF MarksOnWay
  <2>3. Rounds'
    BY <1>2 DEF Rounds, Waits, Others
  <2>4. \A x \in InitWorkers : Waits(x)' <=> Waits(x)
    BY <1>2 DEF Waits
  <2>5. ASSUME NEW x \in InitWorkers
        PROVE  OneMark(out'[x]) /\ (Marked(out'[x]) <=> ~Waits(x)' /\ persisted'[x] < barrierRound')
    BY <1>2, <1>4, <2>4 DEF MarksOnWay, MarkSame
  <2>6. ASSUME NEW x \in InitWorkers, NEW y \in Others(x)
        PROVE  /\ OneMark(chan'[<<y, x>>])
               /\ Marked(chan'[<<y, x>>]) <=> taken'[y] = barrierRound' /\ Waits(x)' /\ ~barred'[x][y]
               /\ barred'[x][y] => taken'[y] = barrierRound' /\ Waits(x)'
    <3>1. CASE <<y, x>> = <<r, w>>
      <4>1. y = r /\ x = w /\ barred'[x][y]
        BY <1>3, <1>7, <1>9, <3>1
      <4> QED BY <1>2, <1>6, <2>1, <2>2, <2>4, <4>1
    <3>2. CASE <<y, x>> # <<r, w>>
      <4>1. barred'[x][y] = barred[x][y]
        BY <1>3, <1>7, <1>9, <3>2
      <4> QED BY <1>2, <1>5, <2>4, <3>2, <4>1 DEF MarksOnWay, MarkSame
    <3> QED BY <3>1, <3>2
  <2>7. MarksOnWay'
    BY <2>5, <2>6 DEF MarksOnWay, Others, OneMark, Marked, Waits
  <2> QED BY <2>3, <2>7
<1> QED BY <1>8, <1>9

\* What Emits does to the queues.
LEMMA EmitsQueues ==
  ASSUME TypeOK, Settled, NEW w \in InitWorkers, NEW d \in DataMessage, Emits(w, d)
  PROVE  /\ [kind |-> "Data", data |-> d] \in OperatorMessage
         /\ [kind |-> "Data", data |-> d, version |-> version[w]] \in NetworkMessage
         /\ \/ /\ out'[w] = Append(out[w], [kind |-> "Data", data |-> d])
               /\ \A x \in InitWorkers : x # w => out'[x] = out[x]
               /\ chan' = chan
            \/ \E y \in Others(w) :
               /\ chan'[<<w, y>>] = Append(chan[<<w, y>>], [kind |-> "Data", data |-> d, version |-> version[w]])
               /\ \A x \in InitWorkers : \A z \in Others(x) :
                     <<z, x>> # <<w, y>> => chan'[<<z, x>>] = chan[<<z, x>>]
               /\ out' = out
<1>1. /\ w \in Workers /\ version[w] \in Nat /\ out \in [Workers -> Seq(OperatorMessage)]
      /\ chan \in [Links -> Seq(NetworkMessage)]
      /\ \A x \in InitWorkers : x \in Workers /\ \A z \in Others(x) : <<z, x>> \in Links /\ <<x, z>> \in Links
  BY SettledWorkers DEF TypeOK, RouterTypeOK
<1> DEFINE o == [kind |-> "Data", data |-> d]
           m == [kind |-> "Data", data |-> d, version |-> version[w]]
<1>2. o \in OperatorMessage /\ m \in NetworkMessage
  BY <1>1, MessageTypes
<1>3. \/ out' = [out EXCEPT ![w] = Append(@, o)] /\ chan' = chan
      \/ (\E y \in Others(w) : chan' = [chan EXCEPT ![<<w, y>>] = Append(@, m)]) /\ out' = out
  BY DEF Emits
<1> HIDE DEF o, m
<1>4. CASE out' = [out EXCEPT ![w] = Append(@, o)] /\ chan' = chan
  <2>1. out'[w] = Append(out[w], o) /\ \A x \in InitWorkers : x # w => out'[x] = out[x]
    BY <1>1, <1>4
  <2> QED BY <1>2, <1>4, <2>1 DEF o, m
<1>5. ASSUME NEW y \in Others(w), chan' = [chan EXCEPT ![<<w, y>>] = Append(@, m)], out' = out
      PROVE  /\ chan'[<<w, y>>] = Append(chan[<<w, y>>], m)
             /\ \A x \in InitWorkers : \A z \in Others(x) : <<z, x>> # <<w, y>> => chan'[<<z, x>>] = chan[<<z, x>>]
  BY <1>1, <1>5
<1> QED BY <1>2, <1>3, <1>4, <1>5 DEF o, m

LEMMA EmitsMarks ==
  ASSUME TypeOK, TypeOK', Settled, Rounds, MarksOnWay, NEW w \in InitWorkers, NEW d \in DataMessage, Emits(w, d)
  PROVE  Rounds' /\ MarksOnWay'
<1> DEFINE o == [kind |-> "Data", data |-> d]
           m == [kind |-> "Data", data |-> d, version |-> version[w]]
<1>1. /\ o \in OperatorMessage /\ m \in NetworkMessage /\ o.kind \in {"Data"} /\ m.kind \in {"Data"}
      /\ \A x \in InitWorkers : out'[x] = out[x] \/ out'[x] = Append(out[x], o)
      /\ \A x \in InitWorkers : \A y \in Others(x) :
            chan'[<<y, x>>] = chan[<<y, x>>] \/ chan'[<<y, x>>] = Append(chan[<<y, x>>], m)
  BY EmitsQueues
<1> HIDE DEF o, m
<1>2. UNCHANGED <<localBarrier, taken, persisted, barrierRound, barred>>
  BY DEF Emits
<1>3. ASSUME NEW x \in InitWorkers PROVE MarkSame(out[x], out'[x])
  <2>1. Grown(out[x], out[x], {"Data"}) /\ Grown(out[x], Append(out[x], o), {"Data"})
    BY <1>1, QueueTypes, GrownSame, GrownAppend
  <2>2. Grown(out[x], out'[x], {"Data"})
    BY <1>1, <2>1
  <2> QED BY <2>2, QueueTypes, GrownMarks
<1>4. ASSUME NEW x \in InitWorkers, NEW y \in Others(x) PROVE MarkSame(chan[<<y, x>>], chan'[<<y, x>>])
  <2>1. Grown(chan[<<y, x>>], chan[<<y, x>>], {"Data"}) /\ Grown(chan[<<y, x>>], Append(chan[<<y, x>>], m), {"Data"})
    BY <1>1, QueueTypes, GrownSame, GrownAppend
  <2>2. Grown(chan[<<y, x>>], chan'[<<y, x>>], {"Data"})
    BY <1>1, <2>1
  <2> QED BY <2>2, QueueTypes, GrownMarks
<1> QED BY <1>2, <1>3, <1>4, MarksKept

\* What a local epoch does to the queues.
LEMMA LocalEpochQueues ==
  ASSUME TypeOK, Settled, NEW w \in InitWorkers, LocalEpoch(w)
  PROVE  /\ \A x \in InitWorkers : Grown(out[x], out'[x], {"Epoch"})
         /\ \A x \in InitWorkers : \A y \in Others(x) : Grown(chan[<<y, x>>], chan'[<<y, x>>], {"Epoch"})
         /\ UNCHANGED <<localBarrier, taken, persisted, barrierRound, barred, opState, snapshot, cut, nextId>>
<1>1. PICK e \in (localFrontier[w] + 1)..MaxEpoch :
        /\ chan' = Broadcast(chan, w, [kind |-> "Epoch", ts |-> e])
        /\ out' = [out EXCEPT ![w] = @ \o HandleEpoch(w, frontier[w], e)]
  BY DEF LocalEpoch
<1>2. /\ w \in Workers /\ localFrontier[w] \in Nat /\ out \in [Workers -> Seq(OperatorMessage)]
      /\ frontier[w] \in [Workers -> Nat]
  BY SettledWorkers DEF TypeOK, LocalTypeOK, PeerTypeOK
<1>3. e \in Nat \ {NoTime}
  BY <1>1, <1>2, DistributorAssumption DEF NoTime
<1>4. ASSUME NEW x \in InitWorkers PROVE Grown(out[x], out'[x], {"Epoch"})
  <2>1. Grown(out[w], out[w] \o HandleEpoch(w, frontier[w], e), {"Epoch"}) /\ Grown(out[x], out[x], {"Epoch"})
    BY <1>2, <1>3, EpochAdded, GrownSame
  <2>2. out'[x] = IF x = w THEN out[w] \o HandleEpoch(w, frontier[w], e) ELSE out[x]
    BY <1>1, <1>2, SettledWorkers
  <2> QED BY <2>1, <2>2
<1>5. ASSUME NEW x \in InitWorkers, NEW y \in Others(x) PROVE Grown(chan[<<y, x>>], chan'[<<y, x>>], {"Epoch"})
  <2> DEFINE m == [kind |-> "Epoch", ts |-> e]
  <2>1. m \in NetworkMessage /\ m.kind = "Epoch" /\ chan' = Broadcast(chan, w, m)
    BY <1>1, <1>3, MessageTypes
  <2> HIDE DEF m
  <2>2. \A l \in Links : Grown(chan[l], Broadcast(chan, w, m)[l], {m.kind})
    BY <2>1, Broadcasting
  <2> QED BY <2>1, <2>2, MarkTypes
<1>6. UNCHANGED <<localBarrier, taken, persisted, barrierRound, barred, opState, snapshot, cut, nextId>>
  BY DEF LocalEpoch, remoteVars, opVars, envVars, histVars
<1> QED BY <1>4, <1>5, <1>6

LEMMA LocalEpochMarks ==
  ASSUME TypeOK, TypeOK', Settled, Rounds, MarksOnWay, NEW w \in InitWorkers, LocalEpoch(w)
  PROVE  Rounds' /\ MarksOnWay'
<1>1. \A x \in InitWorkers : MarkSame(out[x], out'[x])
  BY LocalEpochQueues, QueueTypes, GrownMarks
<1>2. ASSUME NEW x \in InitWorkers, NEW y \in Others(x) PROVE MarkSame(chan[<<y, x>>], chan'[<<y, x>>])
  <2>1. Grown(chan[<<y, x>>], chan'[<<y, x>>], {"Epoch"})
    BY LocalEpochQueues
  <2>2. chan[<<y, x>>] \in Seq(NetworkMessage) /\ chan'[<<y, x>>] \in Seq(NetworkMessage)
    BY QueueTypes
  <2> QED BY <2>1, <2>2, GrownMarks
<1>3. UNCHANGED <<localBarrier, taken, persisted, barrierRound>> /\ barred' = barred
  BY LocalEpochQueues
<1>4. \A x \in InitWorkers : \A y \in Others(x) : barred'[x][y] = barred[x][y]
  BY <1>3
<1> QED BY <1>1, <1>2, <1>3, <1>4, MarksKept

\* What a local barrier does to the queues.
LEMMA LocalBarrierQueues ==
  ASSUME TypeOK, Settled, NEW w \in InitWorkers, LocalBarrier(w)
  PROVE  /\ [kind |-> "BarrierMarker"] \in NetworkMessage
         /\ \A x \in InitWorkers : \A y \in Others(x) : chan'[<<y, x>>] =
              IF y = w THEN Append(chan[<<y, x>>], [kind |-> "BarrierMarker"]) ELSE chan[<<y, x>>]
         /\ \A x \in InitWorkers : taken'[x] = IF x = w THEN taken[w] + 1 ELSE taken[x]
         /\ \A x \in InitWorkers : localBarrier'[x] <=> x = w \/ localBarrier[x]
         /\ ~localBarrier[w] /\ taken[w] < barrierRound
         /\ UNCHANGED <<out, persisted, barrierRound, barred, opState, snapshot, cut, nextId>>
<1>1. /\ \A x \in InitWorkers : x \in Workers /\ \A y \in Others(x) : x \in Others(y) /\ y \in InitWorkers
      /\ taken \in [Workers -> Nat] /\ localBarrier \in [Workers -> BOOLEAN]
  BY MarkTypes DEF TypeOK, EnvTypeOK, LocalTypeOK
<1>2. /\ taken' = [taken EXCEPT ![w] = @ + 1] /\ localBarrier' = [localBarrier EXCEPT ![w] = TRUE]
      /\ chan' = Broadcast(chan, w, [kind |-> "BarrierMarker"])
      /\ ~localBarrier[w] /\ taken[w] < barrierRound
      /\ UNCHANGED <<out, persisted, barrierRound, barred, opState, snapshot, cut, nextId>>
  BY DEF LocalBarrier, MayReceiveLocal, remoteVars, opVars, histVars
<1>3. [kind |-> "BarrierMarker"] \in NetworkMessage
  BY MessageTypes
<1>4. ASSUME NEW x \in InitWorkers, NEW y \in Others(x)
      PROVE  chan'[<<y, x>>] = IF y = w THEN Append(chan[<<y, x>>], [kind |-> "BarrierMarker"]) ELSE chan[<<y, x>>]
  <2> DEFINE m == [kind |-> "BarrierMarker"]
  <2> HIDE DEF m
  <2>1. m \in NetworkMessage /\ chan' = Broadcast(chan, w, m)
    BY <1>2, <1>3 DEF m
  <2>2. Broadcast(chan, w, m)[<<y, x>>] = IF y = w THEN Append(chan[<<y, x>>], m) ELSE chan[<<y, x>>]
    BY <1>1, <2>1, Broadcasting
  <2> QED BY <2>1, <2>2 DEF m
<1>5. \A x \in InitWorkers : taken'[x] = IF x = w THEN taken[w] + 1 ELSE taken[x]
  BY <1>1, <1>2
<1>6. \A x \in InitWorkers : localBarrier'[x] <=> x = w \/ localBarrier[x]
  BY <1>1, <1>2
<1> QED BY <1>2, <1>3, <1>4, <1>5, <1>6

LEMMA LocalBarrierMarks ==
  ASSUME TypeOK, TypeOK', Settled, Rounds, MarksOnWay, NEW w \in InitWorkers, LocalBarrier(w)
  PROVE  Rounds' /\ MarksOnWay' /\ taken[w] + 1 = barrierRound /\ \A x \in InitWorkers : Waits(x)' <=> Waits(x)
<1> DEFINE b == [kind |-> "BarrierMarker"]
<1>1. /\ b \in NetworkMessage
      /\ \A x \in InitWorkers : \A y \in Others(x) : chan'[<<y, x>>] =
              IF y = w THEN Append(chan[<<y, x>>], b) ELSE chan[<<y, x>>]
      /\ \A x \in InitWorkers : taken'[x] = IF x = w THEN taken[w] + 1 ELSE taken[x]
      /\ \A x \in InitWorkers : localBarrier'[x] <=> x = w \/ localBarrier[x]
      /\ ~localBarrier[w] /\ taken[w] < barrierRound
      /\ UNCHANGED <<out, persisted, barrierRound, barred>>
  BY LocalBarrierQueues
<1>2. IsMark(b)
  BY DEF IsMark
<1> HIDE DEF b
<1>3. barrierRound \in Nat /\ \A x \in InitWorkers : taken[x] \in Nat /\ persisted[x] \in Nat
  BY MarkTypes
<1>4. taken[w] + 1 = barrierRound /\ persisted[w] < barrierRound
  BY <1>1, <1>3 DEF Rounds
<1>5. \A x \in InitWorkers : Waits(x)' <=> Waits(x)
  BY <1>1, <1>3, <1>4 DEF Waits
<1>6. ASSUME NEW x \in InitWorkers
      PROVE  /\ persisted'[x] <= taken'[x] /\ taken'[x] <= barrierRound' /\ persisted'[x] + 1 >= barrierRound'
             /\ localBarrier'[x] => taken'[x] = barrierRound' /\ persisted'[x] < barrierRound'
             /\ ~Waits(x)' => \A r \in Others(x) : taken'[r] = barrierRound'
  <2>1. /\ persisted[x] <= taken[x] /\ taken[x] <= barrierRound /\ persisted[x] + 1 >= barrierRound
        /\ localBarrier[x] => taken[x] = barrierRound /\ persisted[x] < barrierRound
        /\ ~Waits(x) => \A r \in Others(x) : taken[r] = barrierRound
    BY DEF Rounds
  <2>2. ~Waits(x)' => \A r \in Others(x) : taken'[r] = barrierRound'
    BY <1>1, <1>4, <1>5, <2>1, MarkTypes
  <2> QED BY <1>1, <1>3, <1>4, <2>1, <2>2
<1>7. Rounds'
  BY <1>6 DEF Rounds, Others, Waits
<1>8. ASSUME NEW x \in InitWorkers
      PROVE  OneMark(out'[x]) /\ (Marked(out'[x]) <=> ~Waits(x)' /\ persisted'[x] < barrierRound')
  BY <1>1, <1>5 DEF MarksOnWay
<1>9. ASSUME NEW x \in InitWorkers, NEW y \in Others(x)
      PROVE  /\ OneMark(chan'[<<y, x>>])
             /\ Marked(chan'[<<y, x>>]) <=> taken'[y] = barrierRound' /\ Waits(x)' /\ ~barred'[x][y]
             /\ barred'[x][y] => taken'[y] = barrierRound' /\ Waits(x)'
  <2>1. /\ OneMark(chan[<<y, x>>])
        /\ Marked(chan[<<y, x>>]) <=> taken[y] = barrierRound /\ Waits(x) /\ ~barred[x][y]
        /\ barred[x][y] => taken[y] = barrierRound /\ Waits(x)
        /\ y \in InitWorkers /\ chan[<<y, x>>] \in Seq(NetworkMessage)
    BY MarkTypes DEF MarksOnWay
  <2>2. CASE y # w
    BY <1>1, <1>5, <2>1, <2>2
  <2>3. CASE y = w
    <3>1. taken[y] # barrierRound /\ taken'[y] = barrierRound'
      BY <1>1, <1>3, <1>4, <2>1, <2>3
    <3>2. Waits(x)
      BY <3>1 DEF Rounds
    <3>3. ~Marked(chan[<<y, x>>]) /\ ~barred[x][y]
      BY <2>1, <3>1
    <3>4. Marked(chan'[<<y, x>>]) /\ OneMark(chan'[<<y, x>>])
      BY <1>1, <1>2, <2>1, <2>3, <3>3, MarksSent
    <3> QED BY <1>1, <1>5, <3>1, <3>2, <3>3, <3>4
  <2> QED BY <2>2, <2>3
<1>10. MarksOnWay'
  BY <1>8, <1>9 DEF MarksOnWay, Others, OneMark, Marked, Waits
<1> QED BY <1>4, <1>5, <1>7, <1>10

\* What Passes does: all remotes have sent their barrier, none has suspended.
LEMMA PassesQueues ==
  ASSUME TypeOK, TypeOK', Settled, BarrierInv, NEW w \in Workers, Passes(w)
  PROVE  /\ w \in InitWorkers /\ localBarrier[w] /\ taken[w] = barrierRound /\ persisted[w] < barrierRound
         /\ \A r \in Others(w) : barred[w][r] /\ taken[r] = barrierRound
         /\ \A x \in InitWorkers : localBarrier'[x] <=> x # w /\ localBarrier[x]
         /\ \A x \in InitWorkers : \A y \in Others(x) : barred'[x][y] <=> x # w /\ barred[x][y]
         /\ \A x \in InitWorkers : \A y \in Others(x) : Grown(chan[<<y, x>>], chan'[<<y, x>>], Dull)
         /\ \A x \in InitWorkers : x # w => out'[x] = out[x]
         /\ [kind |-> "AbsBarrier"] \in OperatorMessage
         /\ Grown(Append(out[w], [kind |-> "AbsBarrier"]), out'[w], Dull)
         /\ UNCHANGED <<taken, persisted, barrierRound, opState, snapshot, cut, nextId>>
<1>1. /\ w \in InitWorkers /\ localBarrier[w] /\ \A r \in Others(w) : barred[w][r] \/ sentSuspend[w][r]
      /\ localBarrier' = [localBarrier EXCEPT ![w] = FALSE]
      /\ barred' = [barred EXCEPT ![w] = [r \in Workers |-> FALSE]]
      /\ \A l \in Links : Grown(chan[l], chan'[l], Dull)
      /\ \A x \in Workers \ {w} : out'[x] = out[x]
      /\ Grown(Append(out[w], [kind |-> "AbsBarrier"]), out'[w], Dull)
      /\ UNCHANGED <<taken, persisted, barrierRound, opState, snapshot, cut, nextId>>
  BY DEF Passes
<1>2. taken[w] = barrierRound /\ persisted[w] < barrierRound
  BY <1>1 DEF BarrierInv, Rounds
<1>3. barrierRound \in Nat /\ persisted[w] \in Nat
  BY <1>1, MarkTypes
<1>4. ~suspending
  BY <1>1, <1>2, <1>3 DEF BarrierInv, SuspendedLater
<1>5. \A r \in Others(w) : barred[w][r]
  BY <1>1, <1>4 DEF BarrierInv, SuspendedLater, NoSuspends
<1>6. \A r \in Others(w) : taken[r] = barrierRound
  BY <1>1, <1>5 DEF BarrierInv, MarksOnWay
<1>7. /\ barred \in [Workers -> [Workers -> BOOLEAN]] /\ localBarrier \in [Workers -> BOOLEAN]
      /\ \A x \in InitWorkers : x \in Workers /\ \A y \in Others(x) : y \in Workers /\ <<y, x>> \in Links
  BY MarkTypes DEF TypeOK, PeerTypeOK, LocalTypeOK
<1>8. \A x \in InitWorkers : localBarrier'[x] <=> x # w /\ localBarrier[x]
  BY <1>1, <1>7
<1>9. \A x \in InitWorkers : \A y \in Others(x) : barred'[x][y] <=> x # w /\ barred[x][y]
  BY <1>1, <1>7
<1> QED BY <1>1, <1>2, <1>5, <1>6, <1>7, <1>8, <1>9, MessageTypes

LEMMA PassesMarks ==
  ASSUME TypeOK, TypeOK', Settled, BarrierInv, NEW w \in Workers, Passes(w)
  PROVE  Rounds' /\ MarksOnWay' /\ \A x \in InitWorkers : Waits(x)' <=> x # w /\ Waits(x)
<1> DEFINE b == [kind |-> "AbsBarrier"]
<1>1. /\ w \in InitWorkers /\ localBarrier[w] /\ taken[w] = barrierRound /\ persisted[w] < barrierRound
      /\ \A r \in Others(w) : barred[w][r] /\ taken[r] = barrierRound
      /\ \A x \in InitWorkers : localBarrier'[x] <=> x # w /\ localBarrier[x]
      /\ \A x \in InitWorkers : \A y \in Others(x) : barred'[x][y] <=> x # w /\ barred[x][y]
      /\ \A x \in InitWorkers : \A y \in Others(x) : Grown(chan[<<y, x>>], chan'[<<y, x>>], Dull)
      /\ \A x \in InitWorkers : x # w => out'[x] = out[x]
      /\ b \in OperatorMessage /\ Grown(Append(out[w], b), out'[w], Dull)
      /\ UNCHANGED <<taken, persisted, barrierRound>>
  BY PassesQueues
<1>2. IsMark(b)
  BY DEF IsMark
<1> HIDE DEF b
<1>3. Rounds /\ MarksOnWay
  BY DEF BarrierInv
<1>4. "BarrierMarker" \notin Dull /\ "AbsBarrier" \notin Dull
  BY DEF Dull
<1>5. barrierRound \in Nat
  BY MarkTypes
<1>6. \A x \in InitWorkers : Waits(x)' <=> x # w /\ Waits(x)
  BY <1>1, <1>5 DEF Waits
<1>7. ASSUME NEW x \in InitWorkers
      PROVE  /\ persisted'[x] <= taken'[x] /\ taken'[x] <= barrierRound' /\ persisted'[x] + 1 >= barrierRound'
             /\ localBarrier'[x] => taken'[x] = barrierRound' /\ persisted'[x] < barrierRound'
             /\ ~Waits(x)' => \A r \in Others(x) : taken'[r] = barrierRound'
  BY <1>1, <1>3, <1>6 DEF Rounds
<1>8. Rounds'
  BY <1>7 DEF Rounds, Others, Waits
<1>9. ASSUME NEW x \in InitWorkers
      PROVE  OneMark(out'[x]) /\ (Marked(out'[x]) <=> ~Waits(x)' /\ persisted'[x] < barrierRound')
  <2>1. CASE x # w
    BY <1>1, <1>3, <1>6, <2>1 DEF MarksOnWay
  <2>2. CASE x = w
    <3>1. OneMark(out[w]) /\ ~Marked(out[w])
      BY <1>1, <1>3 DEF MarksOnWay, Waits
    <3>2. Marked(Append(out[w], b)) /\ OneMark(Append(out[w], b))
      BY <1>1, <1>2, <3>1, QueueTypes, MarksSent
    <3>3. Append(out[w], b) \in Seq(OperatorMessage) /\ out'[w] \in Seq(OperatorMessage)
      BY <1>1, QueueTypes, AppendAt
    <3>4. MarkSame(Append(out[w], b), out'[w])
      BY <1>1, <1>4, <3>3, GrownMarks
    <3> QED BY <1>1, <1>6, <2>2, <3>2, <3>4 DEF MarkSame
  <2> QED BY <2>1, <2>2
<1>10. ASSUME NEW x \in InitWorkers, NEW y \in Others(x)
      PROVE  /\ OneMark(chan'[<<y, x>>])
             /\ Marked(chan'[<<y, x>>]) <=> taken'[y] = barrierRound' /\ Waits(x)' /\ ~barred'[x][y]
             /\ barred'[x][y] => taken'[y] = barrierRound' /\ Waits(x)'
  <2>1. MarkSame(chan[<<y, x>>], chan'[<<y, x>>])
    BY <1>1, <1>4, QueueTypes, GrownMarks
  <2>2. /\ OneMark(chan[<<y, x>>])
        /\ Marked(chan[<<y, x>>]) <=> taken[y] = barrierRound /\ Waits(x) /\ ~barred[x][y]
        /\ barred[x][y] => taken[y] = barrierRound /\ Waits(x)
    BY <1>3 DEF MarksOnWay
  <2> QED BY <1>1, <1>6, <2>1, <2>2 DEF MarkSame
<1>11. MarksOnWay'
  BY <1>9, <1>10 DEF MarksOnWay, Others, OneMark, Marked, Waits
<1> QED BY <1>6, <1>8, <1>11

\* What Consumes does.
LEMMA ConsumesQueues ==
  ASSUME TypeOK, Settled, NEW w \in Workers, NEW m, Consumes(w, m)
  PROVE  /\ w \in InitWorkers /\ out[w] # <<>> /\ m = Head(out[w]) /\ m = out[w][1] /\ 1 \in DOMAIN out[w]
         /\ m \in OperatorMessage /\ out'[w] = Tail(out[w]) /\ chan' = chan
         /\ \A x \in InitWorkers : x # w => out'[x] = out[x]
         /\ \A x \in InitWorkers : persisted'[x] = IF x = w /\ m.kind = "AbsBarrier" THEN persisted[x] + 1 ELSE persisted[x]
         /\ UNCHANGED <<barred, localBarrier, taken, barrierRound, cut, nextId>>
<1>1. /\ w \in InitWorkers /\ out[w] # <<>> /\ m = Head(out[w]) /\ m \in OperatorMessage
      /\ out' = [out EXCEPT ![w] = Tail(@)] /\ chan' = chan
      /\ persisted' = IF m.kind = "AbsBarrier" THEN [persisted EXCEPT ![w] = @ + 1] ELSE persisted
      /\ UNCHANGED <<barred, localBarrier, taken, barrierRound, cut, nextId>>
  BY DEF Consumes
<1>2. out \in [Workers -> Seq(OperatorMessage)] /\ persisted \in [Workers -> Nat] /\ \A x \in InitWorkers : x \in Workers
  BY SettledWorkers DEF TypeOK, OperatorTypeOK
<1>3. out'[w] = Tail(out[w]) /\ \A x \in InitWorkers : x # w => out'[x] = out[x]
  BY <1>1, <1>2
<1>4. \A x \in InitWorkers : persisted'[x] = IF x = w /\ m.kind = "AbsBarrier" THEN persisted[x] + 1 ELSE persisted[x]
  BY <1>1, <1>2
<1>5. m = out[w][1] /\ 1 \in DOMAIN out[w]
  BY <1>1, <1>2, TailAt
<1> QED BY <1>1, <1>3, <1>4, <1>5

LEMMA ConsumesMarks ==
  ASSUME TypeOK, TypeOK', Settled, BarrierInv, NEW w \in Workers, NEW m, Consumes(w, m)
  PROVE  /\ Rounds' /\ MarksOnWay' /\ \A x \in InitWorkers : Waits(x)' <=> Waits(x)
         /\ m.kind = "AbsBarrier" => persisted[w] + 1 = barrierRound /\ ~Waits(w) /\ ~Marked(out'[w])
<1>1. /\ w \in InitWorkers /\ out[w] # <<>> /\ m = Head(out[w]) /\ m = out[w][1] /\ 1 \in DOMAIN out[w]
      /\ m \in OperatorMessage /\ out'[w] = Tail(out[w]) /\ chan' = chan
      /\ \A x \in InitWorkers : x # w => out'[x] = out[x]
      /\ \A x \in InitWorkers : persisted'[x] = IF x = w /\ m.kind = "AbsBarrier" THEN persisted[x] + 1 ELSE persisted[x]
      /\ UNCHANGED <<barred, localBarrier, taken, barrierRound>>
  BY ConsumesQueues
<1>2. Rounds /\ MarksOnWay
  BY DEF BarrierInv
<1>3. \A x \in InitWorkers : Waits(x)' <=> Waits(x)
  BY <1>1 DEF Waits
<1>4. OneMark(out'[w]) /\ (Marked(out'[w]) <=> Marked(out[w]) /\ ~IsMark(m))
  <2>1. OneMark(out[w])
    BY <1>1, <1>2 DEF MarksOnWay
  <2> QED BY <1>1, <2>1, MarkTypes, MarksTaken
<1>5. m.kind = "AbsBarrier" => persisted[w] + 1 = barrierRound /\ ~Waits(w) /\ ~Marked(out'[w])
  <2> SUFFICES ASSUME m.kind = "AbsBarrier" PROVE persisted[w] + 1 = barrierRound /\ ~Waits(w) /\ ~Marked(out'[w])
    OBVIOUS
  <2>1. IsMark(m) /\ Marked(out[w])
    BY <1>1 DEF IsMark, Marked
  <2>2. ~Waits(w) /\ persisted[w] < barrierRound
    BY <1>1, <1>2, <2>1 DEF MarksOnWay
  <2>3. persisted[w] + 1 >= barrierRound /\ persisted[w] \in Nat /\ barrierRound \in Nat
    BY <1>1, <1>2, MarkTypes DEF Rounds
  <2> QED BY <1>4, <2>1, <2>2, <2>3
<1>6. CASE m.kind # "AbsBarrier"
  <2>1. ~IsMark(m)
    <3>1. m.kind # "BarrierMarker"
      BY <1>1 DEF OperatorMessage
    <3> QED BY <1>6, <3>1 DEF IsMark
  <2>2. persisted' = persisted
    BY <1>6 DEF Consumes
  <2>3. \A x \in InitWorkers : MarkSame(out[x], out'[x])
    BY <1>1, <1>4, <2>1 DEF MarkSame
  <2>4. \A x \in InitWorkers : \A y \in Others(x) : MarkSame(chan[<<y, x>>], chan'[<<y, x>>]) /\ barred'[x][y] = barred[x][y]
    BY <1>1 DEF MarkSame
  <2> QED BY <1>1, <1>2, <1>3, <1>5, <2>2, <2>3, <2>4, MarksKept
<1>7. CASE m.kind = "AbsBarrier"
  <2>1. taken[w] = barrierRound /\ persisted'[w] = barrierRound
    <3>1. taken[w] \in Nat /\ barrierRound \in Nat /\ taken[w] <= barrierRound
      BY <1>1, <1>2, MarkTypes DEF Rounds
    <3> QED BY <1>1, <1>5, <1>7, <3>1 DEF Waits
  <2>2. ~localBarrier[w] /\ barrierRound \in Nat
    BY <1>5, <1>7, MarkTypes DEF Waits
  <2>3. ASSUME NEW x \in InitWorkers
        PROVE  /\ persisted'[x] <= taken'[x] /\ taken'[x] <= barrierRound' /\ persisted'[x] + 1 >= barrierRound'
               /\ localBarrier'[x] => taken'[x] = barrierRound' /\ persisted'[x] < barrierRound'
               /\ ~Waits(x)' => \A r \in Others(x) : taken'[r] = barrierRound'
    <3>1. CASE x # w
      BY <1>1, <1>2, <1>3, <3>1 DEF Rounds
    <3>2. CASE x = w
      BY <1>1, <1>2, <1>3, <2>1, <2>2, <3>2 DEF Rounds
    <3> QED BY <3>1, <3>2
  <2>4. Rounds'
    BY <2>3 DEF Rounds, Others, Waits
  <2>5. ASSUME NEW x \in InitWorkers
        PROVE  OneMark(out'[x]) /\ (Marked(out'[x]) <=> ~Waits(x)' /\ persisted'[x] < barrierRound')
    <3>1. CASE x # w
      BY <1>1, <1>2, <1>3, <3>1 DEF MarksOnWay
    <3>2. CASE x = w
      BY <1>1, <1>4, <1>5, <1>7, <2>1, <2>2, <3>2
    <3> QED BY <3>1, <3>2
  <2>6. ASSUME NEW x \in InitWorkers, NEW y \in Others(x)
        PROVE  /\ OneMark(chan'[<<y, x>>])
               /\ Marked(chan'[<<y, x>>]) <=> taken'[y] = barrierRound' /\ Waits(x)' /\ ~barred'[x][y]
               /\ barred'[x][y] => taken'[y] = barrierRound' /\ Waits(x)'
    BY <1>1, <1>2, <1>3 DEF MarksOnWay
  <2>7. MarksOnWay'
    BY <2>5, <2>6 DEF MarksOnWay, Others, OneMark, Marked, Waits
  <2> QED BY <1>3, <1>5, <2>4, <2>7
<1> QED BY <1>6, <1>7

\* Between two snapshots there is no barrier anywhere.
LEMMA SnapshotOver ==
  ASSUME TypeOK, Settled, BarrierInv, SnapshotDone
  PROVE  \A w \in InitWorkers :
           /\ taken[w] = barrierRound /\ persisted[w] = barrierRound /\ ~localBarrier[w] /\ ~Waits(w)
           /\ ~Marked(out[w]) /\ \A r \in Others(w) : ~Marked(chan[<<r, w>>]) /\ ~barred[w][r]
<1> SUFFICES ASSUME NEW w \in InitWorkers
             PROVE  /\ taken[w] = barrierRound /\ persisted[w] = barrierRound /\ ~localBarrier[w] /\ ~Waits(w)
                    /\ ~Marked(out[w]) /\ \A r \in Others(w) : ~Marked(chan[<<r, w>>]) /\ ~barred[w][r]
  OBVIOUS
<1>1. barrierRound \in Nat /\ taken[w] \in Nat /\ persisted[w] = barrierRound
  BY MarkTypes DEF SnapshotDone, Settled
<1>2. taken[w] = barrierRound /\ ~localBarrier[w]
  BY <1>1 DEF BarrierInv, Rounds
<1>3. ~Waits(w)
  BY <1>1, <1>2 DEF Waits
<1> QED BY <1>1, <1>2, <1>3 DEF BarrierInv, MarksOnWay

LEMMA StartSnapshotMarks ==
  ASSUME TypeOK, TypeOK', Settled, BarrierInv, StartSnapshot PROVE Rounds' /\ MarksOnWay'
<1>1. /\ SnapshotDone /\ barrierRound' = barrierRound + 1
      /\ UNCHANGED <<chan, out, barred, localBarrier, taken, persisted>>
  BY DEF StartSnapshot, remoteVars, localVars, opVars
<1>2. \A w \in InitWorkers :
        /\ taken[w] = barrierRound /\ persisted[w] = barrierRound /\ ~localBarrier[w]
        /\ ~Marked(out[w]) /\ \A r \in Others(w) : ~Marked(chan[<<r, w>>]) /\ ~barred[w][r]
  BY <1>1, SnapshotOver
<1>3. barrierRound \in Nat /\ \A w \in InitWorkers : \A r \in Others(w) : r \in InitWorkers
  BY MarkTypes
<1>4. \A w \in InitWorkers : Waits(w)'
  BY <1>1, <1>2, <1>3 DEF Waits
<1>5. Rounds'
  BY <1>1, <1>2, <1>3, <1>4 DEF Rounds, Others
<1>6. ASSUME NEW w \in InitWorkers
      PROVE  OneMark(out'[w]) /\ (Marked(out'[w]) <=> ~Waits(w)' /\ persisted'[w] < barrierRound')
  BY <1>1, <1>2, <1>4 DEF BarrierInv, MarksOnWay
<1>7. ASSUME NEW w \in InitWorkers, NEW r \in Others(w)
      PROVE  /\ OneMark(chan'[<<r, w>>])
             /\ Marked(chan'[<<r, w>>]) <=> taken'[r] = barrierRound' /\ Waits(w)' /\ ~barred'[w][r]
             /\ barred'[w][r] => taken'[r] = barrierRound' /\ Waits(w)'
  BY <1>1, <1>2, <1>3, <1>4 DEF BarrierInv, MarksOnWay
<1>8. MarksOnWay'
  BY <1>6, <1>7 DEF MarksOnWay, Others, OneMark, Marked, Waits
<1> QED BY <1>5, <1>8

LEMMA SuspendedDone ==
  ASSUME Steady, IInv, IInv', Settled, BarrierInv, [Next]_vars, suspending'
  PROVE  \A w \in InitWorkers : taken'[w] = barrierRound' /\ persisted'[w] = barrierRound'
<1> USE DEF IInv
<1>1. suspending \/ StartSuspend
  BY SuspendingMoves
<1>2. CASE StartSuspend
  <2>1. SnapshotDone /\ UNCHANGED <<taken, persisted, barrierRound>>
    BY <1>2 DEF StartSuspend, opVars
  <2> QED BY <2>1, SnapshotOver
<1>3. CASE suspending
  <2>1. /\ barrierRound \in Nat
        /\ \A w \in InitWorkers : taken[w] = barrierRound /\ persisted[w] = barrierRound
    BY <1>3, MarkTypes DEF BarrierInv, SuspendedLater
  <2>2. CASE UNCHANGED <<taken, persisted, barrierRound>>
    BY <2>1, <2>2
  <2>3. CASE Uneventful
    BY <2>2, <2>3 DEF Uneventful, alignVars
  <2>4. ASSUME NEW w \in Workers, NEW r \in Workers, Takes(w, r, Head(chan[<<r, w>>]))
        PROVE  UNCHANGED <<taken, persisted, barrierRound>>
    BY <2>4 DEF Takes, alignVars
  <2>5. ASSUME NEW w \in InitWorkers, NEW d \in DataMessage, Emits(w, d)
        PROVE  UNCHANGED <<taken, persisted, barrierRound>>
    BY <2>5 DEF Emits
  <2>6. ASSUME NEW w \in InitWorkers, LocalEpoch(w) \/ LocalBarrier(w)
        PROVE  UNCHANGED <<taken, persisted, barrierRound>>
    <3>1. taken[w] = barrierRound /\ barrierRound \in Nat
      BY <2>1
    <3>2. ~(taken[w] < barrierRound)
      BY <3>1
    <3>3. ~LocalBarrier(w)
      BY <3>2 DEF LocalBarrier
    <3> QED BY <2>6, <3>3, LocalEpochQueues
  <2>7. ASSUME NEW w \in Workers, Passes(w) PROVE UNCHANGED <<taken, persisted, barrierRound>>
    BY <2>7 DEF Passes
  <2>8. ASSUME NEW w \in Workers, Consumes(w, Head(out[w])) PROVE UNCHANGED <<taken, persisted, barrierRound>>
    <3> DEFINE m == Head(out[w])
    <3>1. m.kind = "AbsBarrier" => persisted[w] + 1 = barrierRound
      BY <2>8, ConsumesMarks
    <3>2. w \in InitWorkers
      BY <2>8 DEF Consumes
    <3>3. m.kind # "AbsBarrier"
      BY <2>1, <3>1, <3>2
    <3> QED BY <2>8, <3>3 DEF Consumes
  <2>9. ~StartSnapshot
    BY <1>3 DEF StartSnapshot
  <2> QED BY <2>2, <2>3, <2>4, <2>5, <2>6, <2>7, <2>8, <2>9, NextSteady
<1> QED BY <1>1, <1>2, <1>3

LEMMA NextBarriers ==
  ASSUME Steady, IInv, IInv', Settled, BarrierInv, [Next]_vars PROVE BarrierInv'
<1> USE DEF IInv
<1>1. Rounds /\ MarksOnWay /\ PolledUnbarred
  BY DEF BarrierInv
<1>2. Rounds' /\ MarksOnWay'
  BY <1>1, NextSteady, UneventfulMarks, TakesMarks, EmitsMarks, LocalEpochMarks, LocalBarrierMarks, PassesMarks,
     ConsumesMarks, StartSnapshotMarks
<1>3. PolledUnbarred'
  BY <1>1, NextPolled
<1>4. SuspendedLater'
  BY SuspendedDone, NextSilent DEF SuspendedLater
<1> QED BY <1>2, <1>3, <1>4 DEF BarrierInv

LEMMA InitBarriers == ASSUME Init PROVE BarrierInv
<1>1. InitWorkers \subseteq Workers
  BY DistributorAssumption DEF WorkerSets
<1>2. ASSUME NEW w \in InitWorkers
      PROVE  /\ out[w] = <<>> /\ ~localBarrier[w] /\ taken[w] = 0 /\ persisted[w] = 0
             /\ \A r \in Others(w) : /\ chan[<<r, w>>] = <<>> /\ ~barred[w][r] /\ ~sentSuspend[w][r]
                                     /\ taken[r] = 0
  BY <1>1 DEF Init, Others, Links
<1>3. barrierRound = 0 /\ ~suspending /\ turn.poll = {}
  BY DEF Init, Idle
<1>4. ~Marked(<<>>) /\ OneMark(<<>>) /\ Silent(<<>>)
  BY DEF Marked, OneMark, Silent
<1>5. \A w \in InitWorkers : ~Waits(w)
  BY <1>2, <1>3 DEF Waits
<1>6. Rounds
  <2>1. ASSUME NEW w \in InitWorkers
        PROVE  /\ persisted[w] <= taken[w] /\ taken[w] <= barrierRound /\ persisted[w] + 1 >= barrierRound
               /\ ~localBarrier[w] /\ \A r \in Others(w) : taken[r] = barrierRound
    <3>1. /\ persisted[w] = 0 /\ taken[w] = 0 /\ ~localBarrier[w]
          /\ \A r \in Others(w) : taken[r] = 0
      BY <1>2
    <3>2. barrierRound = 0
      BY <1>3
    <3>3. persisted[w] <= taken[w] /\ taken[w] <= barrierRound /\ persisted[w] + 1 >= barrierRound
      BY <3>1, <3>2
    <3> QED BY <3>1, <3>2, <3>3
  <2> QED BY <2>1 DEF Rounds
<1>7. MarksOnWay
  BY <1>2, <1>3, <1>4, <1>5 DEF MarksOnWay
<1>8. PolledUnbarred /\ SuspendedLater
  BY <1>2, <1>3, <1>4 DEF PolledUnbarred, SuspendedLater, NoSuspends
<1> QED BY <1>6, <1>7, <1>8 DEF BarrierInv

----------------------------------------------------------------------------
\* The cut.

LEMMA GrownHas ==
  ASSUME NEW q, NEW p, NEW K, Grown(q, p, K), "Data" \notin K PROVE \A i : Has(p, i) <=> Has(q, i)
  BY DEF Grown, Has, Carries

LEMMA CutEarly ==
  ASSUME NEW q, NEW c, NEW B, NEW e, NEW f, CutAt(q, c, B, e), e <=> f PROVE CutAt(q, c, B, f)
  BY DEF CutAt

\* Steps that move messages without changing the worker they are at.
LEMMA FoundStays ==
  ASSUME TypeOK, Found, OneHome, nextId' = nextId, \A w \in InitWorkers, i \in Ids : At(w, i)' <=> At(w, i)
  PROVE  Found' /\ OneHome'
<1>1. Accepted' = Accepted /\ Accepted \subseteq Ids
  BY DistributorAssumption DEF Accepted, Ids, TypeOK, EnvTypeOK
<1>2. (\A i \in Accepted' : \E w \in InitWorkers : At(w, i)') /\ \A i \in Ids : \A w \in InitWorkers : At(w, i)' => i < nextId'
  BY <1>1 DEF Found
<1>3. \E home \in [Ids -> Workers] : \A i \in Ids, w \in InitWorkers : At(w, i)' => home[i] = w
  BY DEF OneHome
<1>4. Found'
  BY <1>2 DEF Found, Ids, At, Folded, Has, Carries, Others
<1>5. OneHome'
  BY <1>3 DEF OneHome, Ids, At, Folded, Has, Carries, Others
<1> QED BY <1>4, <1>5

\* Steps that add neither data nor barriers.
LEMMA CutKept ==
  ASSUME TypeOK, TypeOK', Settled, CutInv, NEW K, "Data" \notin K, "BarrierMarker" \notin K, "AbsBarrier" \notin K,
         \A w \in InitWorkers : /\ Grown(out[w], out'[w], K)
                                /\ \A r \in Others(w) : Grown(chan[<<r, w>>], chan'[<<r, w>>], K),
         UNCHANGED <<localBarrier, taken, persisted, barrierRound, opState, snapshot, cut, nextId>>
  PROVE  CutInv'
<1>1. ASSUME NEW w \in InitWorkers
      PROVE  /\ CutAt(out'[w], cut', barrierRound', Waits(w)')
             /\ \A r \in Others(w) : CutAt(chan'[<<r, w>>], cut', barrierRound', taken'[r] < barrierRound')
  <2>1. CutAt(out[w], cut, barrierRound, Waits(w))
        /\ \A r \in Others(w) : CutAt(chan[<<r, w>>], cut, barrierRound, taken[r] < barrierRound)
    BY DEF CutInv, QueuesAreCut
  <2>2. CutAt(out'[w], cut, barrierRound, Waits(w))
    BY <2>1, QueueTypes, GrownCut
  <2>3. ASSUME NEW r \in Others(w) PROVE CutAt(chan'[<<r, w>>], cut, barrierRound, taken[r] < barrierRound)
    BY <2>1, QueueTypes, GrownCut
  <2>4. Waits(w)' <=> Waits(w)
    BY DEF Waits
  <2> QED BY <2>2, <2>3, <2>4, CutEarly
<1>2. QueuesAreCut'
  BY <1>1 DEF QueuesAreCut, CutAt, IsMark, Waits, Others
<1>3. StatesAreCut'
  BY DEF CutInv, StatesAreCut, Folded
<1>4. ASSUME NEW w \in InitWorkers, NEW i \in Ids PROVE At(w, i)' <=> At(w, i)
  <2>1. Folded(w)' = Folded(w)
    BY DEF Folded
  <2>2. Has(out'[w], i) <=> Has(out[w], i)
    BY GrownHas
  <2>3. \A r \in Others(w) : Has(chan'[<<r, w>>], i) <=> Has(chan[<<r, w>>], i)
    BY GrownHas
  <2>4. At(w, i)' <=> i \in Folded(w)' \/ Has(out'[w], i) \/ \E r \in Others(w) : Has(chan'[<<r, w>>], i)
    BY DEF At, Others, Has, Carries
  <2> QED BY <2>1, <2>2, <2>3, <2>4 DEF At
<1>5. Found' /\ OneHome'
  BY <1>4, FoundStays DEF CutInv
<1> QED BY <1>2, <1>3, <1>5 DEF CutInv

LEMMA AtNext ==
  ASSUME NEW w \in InitWorkers, NEW i
  PROVE  At(w, i)' <=> i \in Folded(w)' \/ Has(out'[w], i) \/ \E r \in Others(w) : Has(chan'[<<r, w>>], i)
  BY DEF At, Others, Has, Carries

LEMMA QueuesNext ==
  ASSUME \A w \in InitWorkers : CutAt(out'[w], cut', barrierRound', Waits(w)'),
         \A w \in InitWorkers : \A r \in Others(w) : CutAt(chan'[<<r, w>>], cut', barrierRound', taken'[r] < barrierRound')
  PROVE  QueuesAreCut'
  BY DEF QueuesAreCut, CutAt, IsMark, Waits, Others

\* The round of the message at the head of a link is known by the barriers its
\* reader has and waits for.
LEMMA HeadOfLink ==
  ASSUME TypeOK, Settled, BarrierInv, CutInv, NEW w \in InitWorkers, NEW r \in Others(w), ~barred[w][r],
         chan[<<r, w>>] # <<>>, Head(chan[<<r, w>>]).kind = "Data"
  PROVE  LET i == Head(chan[<<r, w>>]).data.id
         IN  cut[i] + 1 >= barrierRound /\ cut[i] <= barrierRound /\ (cut[i] < barrierRound <=> Waits(w))
<1> DEFINE q == chan[<<r, w>>]
           i == Head(q).data.id
<1>1. q \in Seq(NetworkMessage) /\ barrierRound \in Nat /\ taken[r] \in Nat /\ r \in InitWorkers
  BY MarkTypes
<1>2. 1 \in DOMAIN q /\ Head(q) = q[1] /\ \A n \in DOMAIN q : n \in Nat /\ n >= 1
  BY <1>1, TailAt
<1>3. CutAt(q, cut, barrierRound, taken[r] < barrierRound)
  BY DEF CutInv, QueuesAreCut
<1>4. /\ Marked(q) <=> taken[r] = barrierRound /\ Waits(w)
      /\ taken[r] <= barrierRound /\ (~Waits(w) => taken[r] = barrierRound)
  BY <1>1 DEF BarrierInv, MarksOnWay, Rounds
<1> HIDE DEF q
<1>5. q[1].kind = "Data" /\ i = q[1].data.id
  BY <1>2 DEF q
<1> HIDE DEF i
<1>6. /\ cut[i] + 1 >= barrierRound /\ cut[i] <= barrierRound
      /\ cut[i] < barrierRound <=> (taken[r] < barrierRound \/ \E m \in DOMAIN q : m > 1 /\ IsMark(q[m]))
  BY <1>2, <1>3, <1>5 DEF CutAt
<1>7. Marked(q) <=> \E m \in DOMAIN q : m > 1 /\ IsMark(q[m])
  <2>1. ~IsMark(q[1])
    BY <1>5 DEF IsMark
  <2>2. \A m \in DOMAIN q : m > 1 \/ m = 1
    BY <1>2
  <2> QED BY <2>1, <2>2 DEF Marked
<1>8. cut[i] < barrierRound <=> Waits(w)
  <2>1. taken[r] < barrierRound \/ taken[r] = barrierRound
    BY <1>1, <1>4
  <2>2. taken[r] < barrierRound => taken[r] # barrierRound
    BY <1>1
  <2> QED BY <1>4, <1>6, <1>7, <2>1, <2>2
<1> QED BY <1>6, <1>8 DEF i, q

LEMMA TakesCut ==
  ASSUME TypeOK, TypeOK', Settled, BarrierInv, CutInv, NEW w \in Workers, NEW r \in Workers, NEW m, Takes(w, r, m)
  PROVE  CutInv'
<1> DEFINE d == [kind |-> "Data", data |-> m.data]
<1>1. /\ w \in InitWorkers /\ r \in Others(w) /\ m = Head(chan[<<r, w>>])
      /\ chan[<<r, w>>] # <<>> /\ chan'[<<r, w>>] = Tail(chan[<<r, w>>])
      /\ \A x \in InitWorkers : \A y \in Others(x) :
           <<y, x>> # <<r, w>> => Grown(chan[<<y, x>>], chan'[<<y, x>>], {"AckUpgrade"})
      /\ \A x \in InitWorkers : x # w => out'[x] = out[x]
      /\ m.kind = "Data" => out'[w] = Append(out[w], d)
      /\ m.kind = "Data" => d \in OperatorMessage
      /\ m.kind # "Data" => Grown(out[w], out'[w], {"Epoch"})
      /\ UNCHANGED alignVars
  BY TakesQueues
<1>2. UNCHANGED <<localBarrier, taken, persisted, barrierRound, opState, snapshot, cut, nextId>>
  BY <1>1 DEF alignVars
<1>3. ~barred[w][r]
  BY DEF Takes, BarrierInv, PolledUnbarred
<1>4. d.kind = "Data" /\ d.data = m.data
  OBVIOUS
<1> HIDE DEF d
<1>5. m.kind = "Data" => /\ cut[d.data.id] + 1 >= barrierRound /\ cut[d.data.id] <= barrierRound
                         /\ cut[d.data.id] < barrierRound <=> Waits(w)
  BY <1>1, <1>3, <1>4, HeadOfLink
<1>6. \A x \in InitWorkers : (Waits(x)' <=> Waits(x)) /\ Waits(x) \in BOOLEAN
  BY <1>2 DEF Waits
<1>7. ASSUME NEW x \in InitWorkers PROVE CutAt(out'[x], cut', barrierRound', Waits(x)')
  <2>1. CutAt(out[x], cut, barrierRound, Waits(x)) /\ out[x] \in Seq(OperatorMessage) /\ out'[x] \in Seq(OperatorMessage)
    BY QueueTypes DEF CutInv, QueuesAreCut
  <2>2. CutAt(out'[x], cut, barrierRound, Waits(x))
    <3>1. CASE x # w
      BY <1>1, <2>1, <3>1
    <3>2. CASE x = w /\ m.kind # "Data"
      BY <1>1, <2>1, <3>2, GrownCut
    <3>3. CASE x = w /\ m.kind = "Data"
      <4>1. ~IsMark(d)
        BY <1>4 DEF IsMark
      <4>2. CutAt(Append(out[x], d), cut, barrierRound, Waits(x))
        BY <1>1, <1>4, <1>5, <1>6, <2>1, <3>3, <4>1, CutSent
      <4> QED BY <1>1, <3>3, <4>2
    <3> QED BY <3>1, <3>2, <3>3
  <2> QED BY <1>2, <1>6, <2>2, CutEarly
<1>8. ASSUME NEW x \in InitWorkers, NEW y \in Others(x)
      PROVE  CutAt(chan'[<<y, x>>], cut', barrierRound', taken'[y] < barrierRound')
  <2>1. CutAt(chan[<<y, x>>], cut, barrierRound, taken[y] < barrierRound)
        /\ chan[<<y, x>>] \in Seq(NetworkMessage) /\ chan'[<<y, x>>] \in Seq(NetworkMessage)
    BY QueueTypes DEF CutInv, QueuesAreCut
  <2>2. CASE <<y, x>> = <<r, w>>
    <3>1. CutAt(Tail(chan[<<y, x>>]), cut, barrierRound, taken[y] < barrierRound)
      BY <1>1, <2>1, <2>2, CutTaken
    <3> QED BY <1>1, <1>2, <2>2, <3>1
  <2>3. CASE <<y, x>> # <<r, w>>
    <3>1. Grown(chan[<<y, x>>], chan'[<<y, x>>], {"AckUpgrade"})
      BY <1>1, <2>3
    <3>2. CutAt(chan'[<<y, x>>], cut, barrierRound, taken[y] < barrierRound)
      BY <2>1, <3>1, GrownCut
    <3> QED BY <1>2, <3>2
  <2> QED BY <2>2, <2>3
<1>9. QueuesAreCut'
  BY <1>7, <1>8, QueuesNext
<1>10. StatesAreCut'
  BY <1>2 DEF CutInv, StatesAreCut, Folded
<1>11. ASSUME NEW x \in InitWorkers, NEW i \in Ids PROVE At(x, i)' <=> At(x, i)
  <2>1. Folded(x)' = Folded(x)
    BY <1>2 DEF Folded
  <2>2. ASSUME NEW y \in Others(x), <<y, x>> # <<r, w>> PROVE Has(chan'[<<y, x>>], i) <=> Has(chan[<<y, x>>], i)
    <3>1. Grown(chan[<<y, x>>], chan'[<<y, x>>], {"AckUpgrade"})
      BY <1>1, <2>2
    <3> QED BY <3>1, GrownHas
  <2>3. CASE x # w
    <3>1. \A y \in Others(x) : Has(chan'[<<y, x>>], i) <=> Has(chan[<<y, x>>], i)
      BY <2>2, <2>3
    <3> QED BY <1>1, <2>1, <2>3, <3>1, AtNext DEF At
  <2>4. CASE x = w
    <3>1. Has(chan[<<r, w>>], i) <=> Has(chan'[<<r, w>>], i) \/ Carries(m, i)
      BY <1>1, QueueTypes, HasTaken
    <3>2. Has(out'[w], i) <=> Has(out[w], i) \/ Carries(m, i)
      <4>1. CASE m.kind # "Data"
        <5>1. Has(out'[w], i) <=> Has(out[w], i)
          BY <1>1, <4>1, GrownHas
        <5> QED BY <4>1, <5>1 DEF Carries
      <4>2. CASE m.kind = "Data"
        <5>1. out[w] \in Seq(OperatorMessage)
          BY <1>1, QueueTypes
        <5>2. Has(Append(out[w], d), i) <=> Has(out[w], i) \/ Carries(d, i)
          <6>1. d \in OperatorMessage
            BY <1>1, <4>2
          <6> QED BY <5>1, <6>1, AppendAt DEF Has
        <5> QED BY <1>1, <1>4, <4>2, <5>2 DEF Carries
      <4> QED BY <4>1, <4>2
    <3>3. \A y \in Others(w) : y # r => (Has(chan'[<<y, w>>], i) <=> Has(chan[<<y, w>>], i))
      BY <2>2, <2>4
    <3> QED BY <1>1, <2>1, <2>4, <3>1, <3>2, <3>3, AtNext DEF At
  <2> QED BY <2>3, <2>4
<1>12. Found' /\ OneHome'
  BY <1>2, <1>11, FoundStays DEF CutInv
<1> QED BY <1>9, <1>10, <1>12 DEF CutInv

\* An accepted message is new: nothing in the queues and states has its id.
LEMMA NewId ==
  ASSUME TypeOK, Settled, CutInv, NEW x \in InitWorkers, NEW c2, \A i \in Ids : i < nextId => c2[i] = cut[i]
  PROVE  /\ CutAt(out[x], c2, barrierRound, Waits(x))
         /\ \A y \in Others(x) : CutAt(chan[<<y, x>>], c2, barrierRound, taken[y] < barrierRound)
         /\ \A i \in Folded(x) : c2[i] = cut[i]
<1>1. ASSUME NEW i \in Ids, At(x, i) PROVE c2[i] = cut[i]
  BY <1>1 DEF CutInv, Found
<1>2. CutAt(out[x], c2, barrierRound, Waits(x))
  <2>1. \A n \in DOMAIN out[x] : out[x][n].kind = "Data" => out[x][n].data.id \in Ids /\ Has(out[x], out[x][n].data.id)
    <3>1. out[x] \in Seq(OperatorMessage)
      BY MarkTypes
    <3> QED BY <3>1, QueueTimes DEF Has, Carries
  <2>2. \A n \in DOMAIN out[x] : out[x][n].kind = "Data" => c2[out[x][n].data.id] = cut[out[x][n].data.id]
    BY <1>1, <2>1 DEF At
  <2> QED BY <2>2, CutOthers DEF CutInv, QueuesAreCut
<1>3. ASSUME NEW y \in Others(x) PROVE CutAt(chan[<<y, x>>], c2, barrierRound, taken[y] < barrierRound)
  <2> DEFINE q == chan[<<y, x>>]
  <2>1. \A n \in DOMAIN q : q[n].kind = "Data" => q[n].data.id \in Ids /\ Has(q, q[n].data.id)
    <3>1. q \in Seq(NetworkMessage)
      BY MarkTypes
    <3> QED BY <3>1, LinkTimes DEF Has, Carries
  <2>2. \A n \in DOMAIN q : q[n].kind = "Data" => c2[q[n].data.id] = cut[q[n].data.id]
    BY <1>1, <2>1 DEF At
  <2> QED BY <2>2, CutOthers DEF CutInv, QueuesAreCut
<1>4. \A i \in Folded(x) : c2[i] = cut[i]
  <2>1. Folded(x) \subseteq Ids
    BY MarkTypes DEF Folded, TypeOK, OperatorTypeOK
  <2> QED BY <1>1, <2>1 DEF At
<1> QED BY <1>2, <1>3, <1>4

\* The accepted message is at its owner from now on.
LEMMA EmitsFound ==
  ASSUME TypeOK, TypeOK', Settled, CutInv, NEW w \in InitWorkers, NEW d \in DataMessage, Emits(w, d)
  PROVE  Found' /\ OneHome'
<1> DEFINE o == [kind |-> "Data", data |-> d]
           m == [kind |-> "Data", data |-> d, version |-> version[w]]
<1>1. /\ o \in OperatorMessage /\ m \in NetworkMessage
      /\ \/ /\ out'[w] = Append(out[w], o)
            /\ \A x \in InitWorkers : x # w => out'[x] = out[x]
            /\ chan' = chan
         \/ \E y \in Others(w) :
            /\ chan'[<<w, y>>] = Append(chan[<<w, y>>], m)
            /\ \A x \in InitWorkers : \A z \in Others(x) : <<z, x>> # <<w, y>> => chan'[<<z, x>>] = chan[<<z, x>>]
            /\ out' = out
  BY EmitsQueues
<1>2. nextId' = nextId + 1 /\ opState' = opState /\ d.id = nextId /\ nextId \in Nat /\ nextId \in Ids
  BY DEF Emits, DataMessage, Ids
<1>3. \A i : (Carries(o, i) <=> i = nextId) /\ (Carries(m, i) <=> i = nextId)
  BY <1>2 DEF Carries
<1> HIDE DEF o, m
<1>4. \A i : \A x \in InitWorkers : (Has(Append(out[x], o), i) <=> Has(out[x], i) \/ Carries(o, i))
  <2>1. ASSUME NEW x \in InitWorkers PROVE out[x] \in Seq(OperatorMessage)
    BY MarkTypes
  <2> QED BY <1>1, <2>1, HasAdded
<1>5. \A i : \A x \in InitWorkers : \A y \in Others(x) :
         (Has(Append(chan[<<y, x>>], m), i) <=> Has(chan[<<y, x>>], i) \/ Carries(m, i))
  <2>1. ASSUME NEW x \in InitWorkers, NEW y \in Others(x) PROVE chan[<<y, x>>] \in Seq(NetworkMessage)
    BY MarkTypes
  <2> QED BY <1>1, <2>1, HasAdded
<1>6. \A x \in InitWorkers : Folded(x)' = Folded(x)
  BY <1>2 DEF Folded
<1>7. PICK t \in InitWorkers : \A x \in InitWorkers, i \in Ids : At(x, i)' <=> At(x, i) \/ (x = t /\ i = nextId)
  <2>1. CASE /\ out'[w] = Append(out[w], o)
             /\ \A x \in InitWorkers : x # w => out'[x] = out[x]
             /\ chan' = chan
    <3>1. ASSUME NEW x \in InitWorkers, NEW i \in Ids PROVE At(x, i)' <=> At(x, i) \/ (x = w /\ i = nextId)
      <4>1. Has(out'[x], i) <=> Has(out[x], i) \/ (x = w /\ i = nextId)
        BY <1>3, <1>4, <2>1
      <4> QED BY <1>6, <2>1, <4>1, AtNext DEF At
    <3> QED BY <3>1
  <2>2. ASSUME NEW y \in Others(w), chan'[<<w, y>>] = Append(chan[<<w, y>>], m),
               \A x \in InitWorkers : \A z \in Others(x) : <<z, x>> # <<w, y>> => chan'[<<z, x>>] = chan[<<z, x>>],
               out' = out
        PROVE  \E t \in InitWorkers : \A x \in InitWorkers, i \in Ids : At(x, i)' <=> At(x, i) \/ (x = t /\ i = nextId)
    <3>1. y \in InitWorkers /\ w \in Others(y)
      BY MarkTypes
    <3>2. ASSUME NEW x \in InitWorkers, NEW i \in Ids PROVE At(x, i)' <=> At(x, i) \/ (x = y /\ i = nextId)
      <4>1. ASSUME NEW z \in Others(x) PROVE Has(chan'[<<z, x>>], i) <=> Has(chan[<<z, x>>], i) \/ (z = w /\ x = y /\ i = nextId)
        <5>1. CASE <<z, x>> # <<w, y>>
          BY <2>2, <5>1
        <5>2. CASE <<z, x>> = <<w, y>>
          BY <1>3, <1>5, <2>2, <3>1, <5>2
        <5> QED BY <5>1, <5>2
      <4>2. (\E z \in Others(x) : Has(chan'[<<z, x>>], i)) <=>
               (\E z \in Others(x) : Has(chan[<<z, x>>], i)) \/ (x = y /\ i = nextId)
        BY <3>1, <4>1
      <4> QED BY <1>6, <2>2, <4>2, AtNext DEF At
    <3> QED BY <3>1, <3>2
  <2> QED BY <1>1, <2>1, <2>2
<1>8. t \in Workers /\ ~\E x \in InitWorkers : At(x, nextId)
  <2>1. ~(nextId < nextId)
    BY <1>2
  <2> QED BY <1>2, <2>1, SettledWorkers DEF CutInv, Found
<1>9. Accepted' = Accepted \cup {nextId} /\ Accepted \subseteq Ids
  BY <1>2, DistributorAssumption DEF Accepted, Ids, TypeOK, EnvTypeOK
<1>10. \A i \in Accepted' : \E w2 \in InitWorkers : At(w2, i)'
  BY <1>2, <1>7, <1>9 DEF CutInv, Found
<1>11. \A i \in Ids : \A x \in InitWorkers : At(x, i)' => i < nextId'
  <2>1. \A i \in Ids : i \in Nat
    BY DEF Ids
  <2> QED BY <1>2, <1>7, <2>1 DEF CutInv, Found
<1>12. Found'
  BY <1>10, <1>11 DEF Found, Ids, At, Folded, Has, Carries, Others
<1>13. PICK home \in [Ids -> Workers] : \A i \in Ids, x \in InitWorkers : At(x, i) => home[i] = x
  BY DEF CutInv, OneHome
<1> DEFINE home2 == [home EXCEPT ![nextId] = t]
<1>14. home2 \in [Ids -> Workers] /\ \A i \in Ids, x \in InitWorkers : At(x, i)' => home2[i] = x
  <2>1. home2 \in [Ids -> Workers]
    BY <1>8, <1>13
  <2>2. ASSUME NEW i \in Ids, NEW x \in InitWorkers, At(x, i)' PROVE home2[i] = x
    <3>1. home2[i] = IF i = nextId THEN t ELSE home[i]
      BY <1>13
    <3>2. At(x, i) \/ (x = t /\ i = nextId)
      BY <1>7, <2>2
    <3>3. CASE i = nextId
      BY <1>8, <3>1, <3>2, <3>3
    <3>4. CASE i # nextId
      BY <1>13, <3>1, <3>2, <3>4
    <3> QED BY <3>3, <3>4
  <2> QED BY <2>1, <2>2
<1> HIDE DEF home2
<1>15. OneHome'
  BY <1>14 DEF OneHome, Ids, At, Folded, Has, Carries, Others
<1> QED BY <1>12, <1>15

LEMMA EmitsCut ==
  ASSUME TypeOK, TypeOK', Settled, BarrierInv, CutInv, NEW w \in InitWorkers, NEW d \in DataMessage, Emits(w, d)
  PROVE  CutInv'
<1> DEFINE o == [kind |-> "Data", data |-> d]
           m == [kind |-> "Data", data |-> d, version |-> version[w]]
<1>1. /\ o \in OperatorMessage /\ m \in NetworkMessage
      /\ \A x \in InitWorkers : out'[x] = out[x] \/ (x = w /\ out'[x] = Append(out[x], o))
      /\ \A x \in InitWorkers : \A y \in Others(x) :
            chan'[<<y, x>>] = chan[<<y, x>>] \/ (y = w /\ chan'[<<y, x>>] = Append(chan[<<y, x>>], m))
  <2>1. \A y \in Others(w) : \A x \in InitWorkers : \A z \in Others(x) : <<z, x>> = <<w, y>> => z = w
    OBVIOUS
  <2> QED BY <2>1, EmitsQueues
<1>2. /\ o.kind = "Data" /\ o.data = d /\ ~IsMark(o) /\ m.kind = "Data" /\ m.data = d /\ ~IsMark(m)
  BY DEF IsMark
<1> HIDE DEF o, m
<1>3. /\ d.id = nextId /\ ~localBarrier[w] /\ cut' = [cut EXCEPT ![nextId] = taken[w]] /\ nextId \in Ids
      /\ UNCHANGED <<localBarrier, taken, persisted, barrierRound, opState, snapshot>>
  BY DEF Emits, DataMessage
<1>4. /\ barrierRound \in Nat /\ taken[w] \in Nat /\ persisted[w] \in Nat /\ cut \in [Ids -> Nat]
      /\ \A x \in InitWorkers : out[x] \in Seq(OperatorMessage) /\ persisted[x] \in Nat
      /\ \A x \in InitWorkers : \A y \in Others(x) : chan[<<y, x>>] \in Seq(NetworkMessage)
  BY MarkTypes DEF TypeOK, EnvTypeOK
<1>5. cut'[nextId] = taken[w] /\ \A i \in Ids : i < nextId => cut'[i] = cut[i]
  BY <1>3, <1>4 DEF Ids
<1>6. taken[w] + 1 >= barrierRound /\ taken[w] <= barrierRound /\ (taken[w] < barrierRound <=> Waits(w))
  BY <1>3, <1>4 DEF BarrierInv, Rounds, Waits
<1>7. \A x \in InitWorkers : (Waits(x)' <=> Waits(x)) /\ Waits(x) \in BOOLEAN
  BY <1>3 DEF Waits
<1>8. ASSUME NEW x \in InitWorkers PROVE CutAt(out'[x], cut', barrierRound', Waits(x)')
  <2>1. CutAt(out[x], cut', barrierRound, Waits(x))
    BY <1>5, NewId
  <2>2. CutAt(out'[x], cut', barrierRound, Waits(x))
    <3>1. CASE x = w /\ out'[x] = Append(out[x], o)
      <4>1. /\ cut'[o.data.id] + 1 >= barrierRound /\ cut'[o.data.id] <= barrierRound
            /\ cut'[o.data.id] < barrierRound <=> Waits(x)
        BY <1>2, <1>3, <1>5, <1>6, <3>1
      <4>2. out[x] \in Seq(OperatorMessage) /\ Waits(x) \in BOOLEAN
        BY <1>4, <1>7
      <4>3. CutAt(Append(out[x], o), cut', barrierRound, Waits(x))
        BY <1>1, <1>2, <2>1, <4>1, <4>2, CutSent
      <4> QED BY <3>1, <4>3
    <3> QED BY <1>1, <2>1, <3>1
  <2> QED BY <1>3, <1>7, <2>2, CutEarly
<1>9. ASSUME NEW x \in InitWorkers, NEW y \in Others(x)
      PROVE  CutAt(chan'[<<y, x>>], cut', barrierRound', taken'[y] < barrierRound')
  <2>1. CutAt(chan[<<y, x>>], cut', barrierRound, taken[y] < barrierRound)
    BY <1>5, NewId
  <2>2. CASE y = w /\ chan'[<<y, x>>] = Append(chan[<<y, x>>], m)
    <3>1. CutAt(Append(chan[<<y, x>>], m), cut', barrierRound, taken[y] < barrierRound)
      <4>1. (taken[y] < barrierRound) \in BOOLEAN
        BY <1>4, <2>2
      <4>2. /\ cut'[m.data.id] + 1 >= barrierRound /\ cut'[m.data.id] <= barrierRound
            /\ cut'[m.data.id] < barrierRound <=> taken[y] < barrierRound
        BY <1>2, <1>3, <1>5, <1>6, <2>2
      <4>3. chan[<<y, x>>] \in Seq(NetworkMessage)
        BY <1>4
      <4> QED BY <1>1, <1>2, <2>1, <4>1, <4>2, <4>3, CutSent
    <3> QED BY <1>3, <2>2, <3>1
  <2> QED BY <1>1, <1>3, <2>1, <2>2
<1>10. QueuesAreCut'
  BY <1>8, <1>9, QueuesNext
<1>11. StatesAreCut'
  <2>1. \A x \in InitWorkers : Folded(x)' = Folded(x)
    BY <1>3 DEF Folded
  <2>2. \A x \in InitWorkers : \A i \in Folded(x) : cut'[i] = cut[i]
    BY <1>5, NewId
  <2>3. ASSUME NEW x \in InitWorkers
        PROVE  /\ \A i \in Folded(x)' :
                    cut'[i] <= barrierRound' /\ (persisted'[x] < barrierRound' => cut'[i] < barrierRound')
               /\ \A n \in 1..persisted'[x] : snapshot'[n][x] = {i \in Folded(x)' : cut'[i] < n}
    <3>1. /\ \A i \in Folded(x) : cut[i] <= barrierRound /\ (persisted[x] < barrierRound => cut[i] < barrierRound)
          /\ \A n \in 1..persisted[x] : snapshot[n][x] = {i \in Folded(x) : cut[i] < n}
      BY DEF CutInv, StatesAreCut
    <3>2. \A n : {i \in Folded(x)' : cut'[i] < n} = {i \in Folded(x) : cut[i] < n}
      BY <2>1, <2>2
    <3> QED BY <1>3, <2>1, <2>2, <3>1, <3>2
  <2> QED BY <2>3 DEF StatesAreCut, Folded
<1> QED BY <1>10, <1>11, EmitsFound DEF CutInv

LEMMA LocalBarrierCut ==
  ASSUME TypeOK, TypeOK', Settled, BarrierInv, CutInv, NEW w \in InitWorkers, LocalBarrier(w) PROVE CutInv'
<1> DEFINE b == [kind |-> "BarrierMarker"]
<1>1. /\ b \in NetworkMessage
      /\ \A x \in InitWorkers : \A y \in Others(x) : chan'[<<y, x>>] =
              IF y = w THEN Append(chan[<<y, x>>], b) ELSE chan[<<y, x>>]
      /\ \A x \in InitWorkers : taken'[x] = IF x = w THEN taken[w] + 1 ELSE taken[x]
      /\ taken[w] < barrierRound
      /\ UNCHANGED <<out, persisted, barrierRound, opState, snapshot, cut, nextId>>
  BY LocalBarrierQueues
<1>2. taken[w] + 1 = barrierRound /\ \A x \in InitWorkers : Waits(x)' <=> Waits(x)
  BY LocalBarrierMarks DEF BarrierInv
<1>3. IsMark(b) /\ b.kind = "BarrierMarker"
  BY DEF IsMark
<1> HIDE DEF b
<1>4. ASSUME NEW x \in InitWorkers PROVE CutAt(out'[x], cut', barrierRound', Waits(x)')
  <2>1. CutAt(out[x], cut, barrierRound, Waits(x))
    BY DEF CutInv, QueuesAreCut
  <2> QED BY <1>1, <1>2, <2>1, CutEarly
<1>5. ASSUME NEW x \in InitWorkers, NEW y \in Others(x)
      PROVE  CutAt(chan'[<<y, x>>], cut', barrierRound', taken'[y] < barrierRound')
  <2>1. CutAt(chan[<<y, x>>], cut, barrierRound, taken[y] < barrierRound) /\ chan[<<y, x>>] \in Seq(NetworkMessage)
        /\ y \in InitWorkers
    BY MarkTypes DEF CutInv, QueuesAreCut
  <2>2. CASE y # w
    BY <1>1, <2>1, <2>2
  <2>3. CASE y = w
    <3>1. CutAt(chan[<<y, x>>], cut, barrierRound, TRUE)
      BY <1>1, <2>1, <2>3, CutEarly
    <3>2. CutAt(Append(chan[<<y, x>>], b), cut, barrierRound, FALSE)
      BY <1>1, <1>3, <2>1, <3>1, CutMarked
    <3>3. ~(taken'[y] < barrierRound)
      BY <1>1, <1>2, <2>1, <2>3, MarkTypes
    <3>4. CutAt(Append(chan[<<y, x>>], b), cut, barrierRound, taken'[y] < barrierRound)
      BY <3>2, <3>3, CutEarly
    <3> QED BY <1>1, <2>3, <3>4
  <2> QED BY <2>2, <2>3
<1>6. QueuesAreCut'
  BY <1>4, <1>5, QueuesNext
<1>7. StatesAreCut'
  BY <1>1 DEF CutInv, StatesAreCut, Folded
<1>8. ASSUME NEW x \in InitWorkers, NEW i \in Ids PROVE At(x, i)' <=> At(x, i)
  <2>1. Folded(x)' = Folded(x)
    BY <1>1 DEF Folded
  <2>2. ASSUME NEW y \in Others(x) PROVE Has(chan'[<<y, x>>], i) <=> Has(chan[<<y, x>>], i)
    <3>1. Grown(chan[<<y, x>>], Append(chan[<<y, x>>], b), {"BarrierMarker"})
      BY <1>1, <1>3, MarkTypes, GrownAppend
    <3>2. Has(Append(chan[<<y, x>>], b), i) <=> Has(chan[<<y, x>>], i)
      BY <3>1, GrownHas
    <3> QED BY <1>1, <3>2
  <2> QED BY <1>1, <2>1, <2>2, AtNext DEF At
<1>9. Found' /\ OneHome'
  BY <1>1, <1>8, FoundStays DEF CutInv
<1> QED BY <1>6, <1>7, <1>9 DEF CutInv

LEMMA PassesCut ==
  ASSUME TypeOK, TypeOK', Settled, BarrierInv, CutInv, NEW w \in Workers, Passes(w) PROVE CutInv'
<1> DEFINE b == [kind |-> "AbsBarrier"]
<1>1. /\ w \in InitWorkers /\ localBarrier[w]
      /\ \A x \in InitWorkers : \A y \in Others(x) : Grown(chan[<<y, x>>], chan'[<<y, x>>], Dull)
      /\ \A x \in InitWorkers : x # w => out'[x] = out[x]
      /\ b \in OperatorMessage /\ Grown(Append(out[w], b), out'[w], Dull)
      /\ UNCHANGED <<taken, persisted, barrierRound, opState, snapshot, cut, nextId>>
  BY PassesQueues
<1>2. \A x \in InitWorkers : Waits(x)' <=> x # w /\ Waits(x)
  BY PassesMarks
<1>3. IsMark(b) /\ b.kind = "AbsBarrier"
  BY DEF IsMark
<1> HIDE DEF b
<1>4. "BarrierMarker" \notin Dull /\ "AbsBarrier" \notin Dull /\ "Data" \notin Dull
  BY DEF Dull
<1>5. /\ out[w] \in Seq(OperatorMessage) /\ out'[w] \in Seq(OperatorMessage)
      /\ Append(out[w], b) \in Seq(OperatorMessage)
  BY <1>1, QueueTypes, AppendAt
<1>6. ASSUME NEW x \in InitWorkers PROVE CutAt(out'[x], cut', barrierRound', Waits(x)')
  <2>1. CutAt(out[x], cut, barrierRound, Waits(x))
    BY DEF CutInv, QueuesAreCut
  <2>2. CASE x # w
    <3>1. Waits(x)' <=> Waits(x)
      BY <1>2, <2>2
    <3> QED BY <1>1, <2>1, <2>2, <3>1, CutEarly
  <2>3. CASE x = w
    <3>1. Waits(x)
      BY <1>1, <2>3 DEF Waits
    <3>2. CutAt(out[x], cut, barrierRound, TRUE)
      BY <2>1, <3>1, CutEarly
    <3>3. CutAt(Append(out[x], b), cut, barrierRound, FALSE)
      BY <1>1, <1>3, <1>5, <2>3, <3>2, CutMarked
    <3>4. CutAt(out'[x], cut, barrierRound, FALSE)
      BY <1>1, <1>4, <1>5, <2>3, <3>3, GrownCut
    <3>5. Waits(x)' <=> FALSE
      BY <1>2, <2>3
    <3>6. CutAt(out'[x], cut, barrierRound, Waits(x)')
      BY <3>4, <3>5, CutEarly
    <3> QED BY <1>1, <3>6
  <2> QED BY <2>2, <2>3
<1>7. ASSUME NEW x \in InitWorkers, NEW y \in Others(x)
      PROVE  CutAt(chan'[<<y, x>>], cut', barrierRound', taken'[y] < barrierRound')
  <2>1. CutAt(chan[<<y, x>>], cut, barrierRound, taken[y] < barrierRound)
    BY DEF CutInv, QueuesAreCut
  <2>2. CutAt(chan'[<<y, x>>], cut, barrierRound, taken[y] < barrierRound)
    BY <1>1, <1>4, <2>1, QueueTypes, GrownCut
  <2> QED BY <1>1, <2>2
<1>8. QueuesAreCut'
  BY <1>6, <1>7, QueuesNext
<1>9. StatesAreCut'
  BY <1>1 DEF CutInv, StatesAreCut, Folded
<1>10. ASSUME NEW x \in InitWorkers, NEW i \in Ids PROVE At(x, i)' <=> At(x, i)
  <2>1. Folded(x)' = Folded(x)
    BY <1>1 DEF Folded
  <2>2. \A y \in Others(x) : Has(chan'[<<y, x>>], i) <=> Has(chan[<<y, x>>], i)
    BY <1>1, <1>4, GrownHas
  <2>3. Has(out'[x], i) <=> Has(out[x], i)
    <3>1. Has(Append(out[w], b), i) <=> Has(out[w], i)
      <4>1. Grown(out[w], Append(out[w], b), {"AbsBarrier"})
        BY <1>1, <1>3, <1>5, GrownAppend
      <4> QED BY <4>1, GrownHas
    <3>2. Has(out'[w], i) <=> Has(Append(out[w], b), i)
      BY <1>1, <1>4, GrownHas
    <3> QED BY <1>1, <3>1, <3>2
  <2> QED BY <2>1, <2>2, <2>3, AtNext DEF At
<1>11. Found' /\ OneHome'
  BY <1>1, <1>10, FoundStays DEF CutInv
<1> QED BY <1>8, <1>9, <1>11 DEF CutInv

\* The round of the message at the head of the operator's queue.
LEMMA HeadOfQueue ==
  ASSUME TypeOK, Settled, BarrierInv, CutInv, NEW w \in InitWorkers, out[w] # <<>>, Head(out[w]).kind = "Data"
  PROVE  LET i == Head(out[w]).data.id
         IN  /\ i \in Ids /\ cut[i] \in Nat /\ cut[i] <= barrierRound
             /\ persisted[w] < barrierRound => cut[i] < barrierRound
             /\ \A n \in 1..persisted[w] : ~(cut[i] < n)
<1> DEFINE q == out[w]
           i == Head(q).data.id
<1>1. q \in Seq(OperatorMessage) /\ barrierRound \in Nat /\ taken[w] \in Nat /\ persisted[w] \in Nat
  BY MarkTypes
<1>2. 1 \in DOMAIN q /\ Head(q) = q[1] /\ \A n \in DOMAIN q : n \in Nat /\ n >= 1
  BY <1>1, TailAt
<1>3. CutAt(q, cut, barrierRound, Waits(w))
  BY DEF CutInv, QueuesAreCut
<1>4. /\ Marked(q) <=> ~Waits(w) /\ persisted[w] < barrierRound
      /\ persisted[w] <= taken[w] /\ persisted[w] + 1 >= barrierRound
      /\ localBarrier[w] => persisted[w] < barrierRound
      /\ taken[w] <= barrierRound
  BY DEF BarrierInv, MarksOnWay, Rounds
<1>5. i \in Ids /\ cut[i] \in Nat
  <2>1. i \in Ids
    BY <1>1, <1>2, QueueTimes
  <2> QED BY <2>1 DEF TypeOK, EnvTypeOK
<1> HIDE DEF q
<1>6. q[1].kind = "Data" /\ i = q[1].data.id
  BY <1>2 DEF q
<1> HIDE DEF i
<1>7. /\ cut[i] + 1 >= barrierRound /\ cut[i] <= barrierRound
      /\ cut[i] < barrierRound <=> (Waits(w) \/ \E m \in DOMAIN q : m > 1 /\ IsMark(q[m]))
  BY <1>2, <1>3, <1>6 DEF CutAt
<1>8. Marked(q) <=> \E m \in DOMAIN q : m > 1 /\ IsMark(q[m])
  <2>1. ~IsMark(q[1])
    BY <1>6 DEF IsMark
  <2>2. \A m \in DOMAIN q : m > 1 \/ m = 1
    BY <1>2
  <2> QED BY <2>1, <2>2 DEF Marked
<1>9. persisted[w] < barrierRound => cut[i] < barrierRound
  BY <1>4, <1>7, <1>8
<1>10. ASSUME NEW n \in 1..persisted[w] PROVE ~(cut[i] < n)
  <2>1. CASE persisted[w] < barrierRound
    BY <1>1, <1>5, <1>7, <1>10, <2>1
  <2>2. CASE ~(persisted[w] < barrierRound)
    <3>1. ~Waits(w)
      BY <1>1, <1>4, <2>2 DEF Waits
    <3>2. ~(cut[i] < barrierRound)
      BY <1>4, <1>7, <1>8, <2>2, <3>1
    <3> QED BY <1>1, <1>4, <1>5, <1>10, <3>2
  <2> QED BY <2>1, <2>2
<1> QED BY <1>5, <1>7, <1>9, <1>10 DEF i, q

\* What the operator does to its state and to the snapshots.
LEMMA ConsumesState ==
  ASSUME TypeOK, Settled, BarrierInv, NEW w \in Workers, NEW m, Consumes(w, m)
  PROVE  /\ \A x \in InitWorkers : Folded(x)' = IF x = w /\ m.kind = "Data" THEN Folded(x) \cup {m.data.id} ELSE Folded(x)
         /\ \A x \in InitWorkers : \A n \in 1..MaxBarriers :
              snapshot'[n][x] = IF x = w /\ m.kind = "AbsBarrier" /\ n = persisted[w] + 1 THEN Folded(w) ELSE snapshot[n][x]
<1>1. /\ w \in InitWorkers /\ m \in OperatorMessage
      /\ opState' = IF m.kind = "Data" THEN [opState EXCEPT ![w][m.data.key] = @ \cup {m.data.id}] ELSE opState
      /\ snapshot' = IF m.kind = "AbsBarrier"
                     THEN [snapshot EXCEPT ![persisted[w] + 1][w] = Folded(w)] ELSE snapshot
  BY DEF Consumes
<1>2. /\ opState \in [Workers -> [Keys -> SUBSET Ids]] /\ snapshot \in [1..MaxBarriers -> [Workers -> SUBSET Ids]]
      /\ \A x \in InitWorkers : x \in Workers
  BY SettledWorkers DEF TypeOK, OperatorTypeOK
<1>3. m.kind = "Data" => m.data.key \in Keys
  BY <1>1, OperatorFields DEF DataMessage
<1>4. ASSUME NEW x \in InitWorkers
      PROVE  Folded(x)' = IF x = w /\ m.kind = "Data" THEN Folded(x) \cup {m.data.id} ELSE Folded(x)
  <2>1. CASE ~(x = w /\ m.kind = "Data")
    <3>1. opState'[x] = opState[x]
      BY <1>1, <1>2, <2>1
    <3> QED BY <2>1, <3>1 DEF Folded
  <2>2. CASE x = w /\ m.kind = "Data"
    <3>1. \A k \in Keys : opState'[w][k] = IF k = m.data.key THEN opState[w][k] \cup {m.data.id} ELSE opState[w][k]
      BY <1>1, <1>2, <1>3, <2>2
    <3>2. ASSUME NEW i PROVE i \in Folded(w)' <=> i \in Folded(w) \/ i = m.data.id
      <4>1. i \in Folded(w)' <=> \E k \in Keys : i \in opState'[w][k]
        BY DEF Folded
      <4>2. i \in Folded(w) <=> \E k \in Keys : i \in opState[w][k]
        BY DEF Folded
      <4>3. (\E k \in Keys : i \in opState'[w][k]) <=> (\E k \in Keys : i \in opState[w][k]) \/ i = m.data.id
        <5>1. m.data.key \in Keys
          BY <1>3, <2>2
        <5>2. \A k \in Keys : i \in opState'[w][k] <=> i \in opState[w][k] \/ (k = m.data.key /\ i = m.data.id)
          BY <3>1
        <5> QED BY <5>1, <5>2
      <4> QED BY <4>1, <4>2, <4>3
    <3>3. Folded(w)' = Folded(w) \cup {m.data.id}
      BY <3>2
    <3> QED BY <2>2, <3>3
  <2> QED BY <2>1, <2>2
<1>5. ASSUME NEW x \in InitWorkers, NEW n \in 1..MaxBarriers
      PROVE  snapshot'[n][x] = IF x = w /\ m.kind = "AbsBarrier" /\ n = persisted[w] + 1 THEN Folded(w) ELSE snapshot[n][x]
  <2> HIDE DEF Folded
  <2> QED BY <1>1, <1>2
<1> QED BY <1>4, <1>5

LEMMA ConsumesStates ==
  ASSUME TypeOK, TypeOK', Settled, BarrierInv, CutInv, NEW w \in Workers, NEW m, Consumes(w, m) PROVE StatesAreCut'
<1>1. /\ w \in InitWorkers /\ out[w] # <<>> /\ m = Head(out[w])
      /\ \A x \in InitWorkers : persisted'[x] = IF x = w /\ m.kind = "AbsBarrier" THEN persisted[x] + 1 ELSE persisted[x]
      /\ UNCHANGED <<barrierRound, cut>>
  BY ConsumesQueues
<1>2. m.kind = "AbsBarrier" => persisted[w] + 1 = barrierRound
  BY ConsumesMarks
<1>3. /\ \A x \in InitWorkers : Folded(x)' = IF x = w /\ m.kind = "Data" THEN Folded(x) \cup {m.data.id} ELSE Folded(x)
      /\ \A x \in InitWorkers : \A n \in 1..MaxBarriers :
           snapshot'[n][x] = IF x = w /\ m.kind = "AbsBarrier" /\ n = persisted[w] + 1 THEN Folded(w) ELSE snapshot[n][x]
  BY ConsumesState
<1>4. barrierRound \in 0..MaxBarriers /\ MaxBarriers \in Nat /\ \A x \in InitWorkers : persisted[x] \in Nat
  BY MarkTypes, DistributorAssumption DEF TypeOK, EnvTypeOK
<1>5. ASSUME NEW x \in InitWorkers
      PROVE  /\ \A i \in Folded(x)' :
                  cut'[i] <= barrierRound' /\ (persisted'[x] < barrierRound' => cut'[i] < barrierRound')
             /\ \A n \in 1..persisted'[x] : snapshot'[n][x] = {i \in Folded(x)' : cut'[i] < n}
  <2>1. /\ \A i \in Folded(x) : cut[i] <= barrierRound /\ (persisted[x] < barrierRound => cut[i] < barrierRound)
        /\ \A n \in 1..persisted[x] : snapshot[n][x] = {i \in Folded(x) : cut[i] < n}
    BY DEF CutInv, StatesAreCut
  <2>2. persisted[x] <= barrierRound /\ \A n \in 1..persisted[x] : n \in 1..MaxBarriers
    <3>1. persisted[x] <= taken[x] /\ taken[x] <= barrierRound /\ taken[x] \in Nat
      BY MarkTypes DEF BarrierInv, Rounds
    <3> QED BY <1>4, <3>1
  <2>3. CASE ~(x = w /\ m.kind \in {"Data", "AbsBarrier"})
    <3>1. Folded(x)' = Folded(x) /\ persisted'[x] = persisted[x]
      BY <1>1, <1>3, <2>3
    <3>2. \A n \in 1..persisted[x] : snapshot'[n][x] = snapshot[n][x]
      BY <1>3, <2>2, <2>3
    <3> QED BY <1>1, <2>1, <3>1, <3>2
  <2>4. CASE x = w /\ m.kind = "Data"
    <3> DEFINE j == m.data.id
    <3>1. /\ cut[j] <= barrierRound /\ (persisted[w] < barrierRound => cut[j] < barrierRound)
          /\ \A n \in 1..persisted[w] : ~(cut[j] < n)
      BY <1>1, <2>4, HeadOfQueue
    <3> HIDE DEF j
    <3>2. Folded(x)' = Folded(x) \cup {j} /\ persisted'[x] = persisted[x]
      BY <1>1, <1>3, <2>4 DEF j
    <3>3. \A n \in 1..persisted[x] : snapshot'[n][x] = snapshot[n][x]
      BY <1>3, <2>2, <2>4
    <3>4. \A n \in 1..persisted[x] : {i \in Folded(x)' : cut'[i] < n} = {i \in Folded(x) : cut[i] < n}
      BY <1>1, <2>4, <3>1, <3>2
    <3> QED BY <1>1, <2>1, <2>4, <3>1, <3>2, <3>3, <3>4
  <2>5. CASE x = w /\ m.kind = "AbsBarrier"
    <3>1. persisted'[x] = barrierRound /\ persisted[x] + 1 = barrierRound /\ Folded(x)' = Folded(x)
      BY <1>1, <1>2, <1>3, <2>5
    <3>2. persisted[x] < barrierRound /\ barrierRound \in 1..MaxBarriers /\ ~(barrierRound < barrierRound)
      BY <1>4, <3>1
    <3>3. \A i \in Folded(x) : cut[i] < barrierRound /\ cut[i] <= barrierRound
      BY <2>1, <3>2
    <3>4. snapshot'[barrierRound][x] = Folded(x)
      BY <1>3, <2>5, <3>1, <3>2
    <3>5. snapshot'[barrierRound][x] = {i \in Folded(x)' : cut'[i] < barrierRound}
      BY <1>1, <3>1, <3>3, <3>4
    <3>6. ASSUME NEW n \in 1..persisted'[x] PROVE snapshot'[n][x] = {i \in Folded(x)' : cut'[i] < n}
      <4>1. CASE n = barrierRound
        BY <3>5, <4>1
      <4>2. CASE n # barrierRound
        <5>1. n \in 1..persisted[x] /\ n # persisted[w] + 1 /\ n \in 1..MaxBarriers
          BY <1>4, <2>2, <2>5, <3>1, <4>2
        <5>2. snapshot'[n][x] = snapshot[n][x]
          BY <1>3, <5>1
        <5> QED BY <1>1, <2>1, <3>1, <5>1, <5>2
      <4> QED BY <4>1, <4>2
    <3> QED BY <1>1, <3>1, <3>2, <3>3, <3>6
  <2> QED BY <2>3, <2>4, <2>5
<1> QED BY <1>5 DEF StatesAreCut, Folded

LEMMA ConsumesCut ==
  ASSUME TypeOK, TypeOK', Settled, BarrierInv, CutInv, NEW w \in Workers, NEW m, Consumes(w, m) PROVE CutInv'
<1>1. /\ w \in InitWorkers /\ out[w] # <<>> /\ m = Head(out[w]) /\ out'[w] = Tail(out[w]) /\ chan' = chan
      /\ \A x \in InitWorkers : x # w => out'[x] = out[x]
      /\ UNCHANGED <<taken, barrierRound, cut, nextId>>
  BY ConsumesQueues
<1>2. \A x \in InitWorkers : Waits(x)' <=> Waits(x)
  BY ConsumesMarks
<1>3. ASSUME NEW x \in InitWorkers PROVE CutAt(out'[x], cut', barrierRound', Waits(x)')
  <2>1. CutAt(out[x], cut, barrierRound, Waits(x)) /\ out[x] \in Seq(OperatorMessage)
    BY MarkTypes DEF CutInv, QueuesAreCut
  <2>2. x = w => CutAt(Tail(out[x]), cut, barrierRound, Waits(x))
    BY <1>1, <2>1, CutTaken
  <2>3. CutAt(out'[x], cut, barrierRound, Waits(x))
    BY <1>1, <2>1, <2>2
  <2> QED BY <1>1, <1>2, <2>3, CutEarly
<1>4. ASSUME NEW x \in InitWorkers, NEW y \in Others(x)
      PROVE  CutAt(chan'[<<y, x>>], cut', barrierRound', taken'[y] < barrierRound')
  BY <1>1 DEF CutInv, QueuesAreCut
<1>5. QueuesAreCut'
  BY <1>3, <1>4, QueuesNext
<1>6. ASSUME NEW x \in InitWorkers, NEW i \in Ids PROVE At(x, i)' <=> At(x, i)
  <2>1. Folded(x)' = IF x = w /\ m.kind = "Data" THEN Folded(x) \cup {m.data.id} ELSE Folded(x)
    BY ConsumesState
  <2>2. Has(out[w], i) <=> Has(out'[w], i) \/ Carries(m, i)
    BY <1>1, MarkTypes, HasTaken
  <2>3. CASE x # w
    BY <1>1, <2>1, <2>3, AtNext DEF At
  <2>4. CASE x = w
    <3>1. i \in Folded(w)' <=> i \in Folded(w) \/ Carries(m, i)
      BY <2>1, <2>4 DEF Carries
    <3> QED BY <1>1, <2>2, <2>4, <3>1, AtNext DEF At
  <2> QED BY <2>3, <2>4
<1>7. Found' /\ OneHome'
  BY <1>1, <1>6, FoundStays DEF CutInv
<1> QED BY <1>5, <1>7, ConsumesStates DEF CutInv

LEMMA StartSnapshotCut ==
  ASSUME TypeOK, TypeOK', Settled, BarrierInv, CutInv, StartSnapshot PROVE CutInv'
<1>1. /\ SnapshotDone /\ barrierRound' = barrierRound + 1
      /\ UNCHANGED <<chan, out, localBarrier, taken, persisted, opState, snapshot, cut, nextId>>
  BY DEF StartSnapshot, localVars, opVars, histVars
<1>2. \A w \in InitWorkers :
        /\ taken[w] = barrierRound /\ persisted[w] = barrierRound /\ ~Waits(w)
        /\ ~Marked(out[w]) /\ \A r \in Others(w) : ~Marked(chan[<<r, w>>])
  BY <1>1, SnapshotOver
<1>3. barrierRound \in Nat /\ cut \in [Ids -> Nat]
  BY MarkTypes DEF TypeOK, EnvTypeOK
<1>4. ASSUME NEW w \in InitWorkers PROVE CutAt(out'[w], cut', barrierRound', Waits(w)')
  <2>1. CutAt(out[w], cut, barrierRound, FALSE)
    BY <1>2 DEF CutInv, QueuesAreCut, CutAt
  <2>2. \A n \in DOMAIN out[w] : out[w][n].kind = "Data" => cut[out[w][n].data.id] \in Nat
    <3>1. out[w] \in Seq(OperatorMessage)
      BY MarkTypes
    <3> QED BY <1>3, <3>1, QueueTimes
  <2>3. CutAt(out[w], cut, barrierRound + 1, TRUE)
    BY <1>2, <1>3, <2>1, <2>2, CutNextRound
  <2>4. Waits(w)' <=> TRUE
    BY <1>1, <1>2, <1>3 DEF Waits
  <2>5. CutAt(out[w], cut, barrierRound + 1, Waits(w)')
    BY <2>3, <2>4, CutEarly
  <2> QED BY <1>1, <2>5
<1>5. ASSUME NEW w \in InitWorkers, NEW r \in Others(w)
      PROVE  CutAt(chan'[<<r, w>>], cut', barrierRound', taken'[r] < barrierRound')
  <2>1. taken[r] = barrierRound /\ chan[<<r, w>>] \in Seq(NetworkMessage)
    BY <1>2, MarkTypes
  <2>2. CutAt(chan[<<r, w>>], cut, barrierRound, taken[r] < barrierRound)
    BY DEF CutInv, QueuesAreCut
  <2>3. ~(taken[r] < barrierRound) /\ taken[r] < barrierRound + 1
    BY <1>3, <2>1
  <2>4. CutAt(chan[<<r, w>>], cut, barrierRound, FALSE)
    BY <2>2, <2>3 DEF CutAt
  <2>5. \A n \in DOMAIN chan[<<r, w>>] : chan[<<r, w>>][n].kind = "Data" => cut[chan[<<r, w>>][n].data.id] \in Nat
    BY <1>3, <2>1, LinkTimes
  <2>6. CutAt(chan[<<r, w>>], cut, barrierRound + 1, TRUE)
    BY <1>2, <1>3, <2>4, <2>5, CutNextRound
  <2>7. CutAt(chan[<<r, w>>], cut, barrierRound + 1, taken[r] < barrierRound + 1)
    BY <2>3, <2>6, CutEarly
  <2> QED BY <1>1, <2>7
<1>6. QueuesAreCut'
  BY <1>4, <1>5, QueuesNext
<1>7. ASSUME NEW w \in InitWorkers
      PROVE  /\ \A i \in Folded(w)' :
                  cut'[i] <= barrierRound' /\ (persisted'[w] < barrierRound' => cut'[i] < barrierRound')
             /\ \A n \in 1..persisted'[w] : snapshot'[n][w] = {i \in Folded(w)' : cut'[i] < n}
  <2>1. Folded(w)' = Folded(w) /\ Folded(w) \subseteq Ids
    BY <1>1, MarkTypes DEF Folded, TypeOK, OperatorTypeOK
  <2>2. /\ \A i \in Folded(w) : cut[i] <= barrierRound
        /\ \A n \in 1..persisted[w] : snapshot[n][w] = {i \in Folded(w) : cut[i] < n}
    BY DEF CutInv, StatesAreCut
  <2>3. \A i \in Folded(w) : cut[i] <= barrierRound + 1 /\ cut[i] < barrierRound + 1
    BY <1>3, <2>1, <2>2
  <2> QED BY <1>1, <2>1, <2>2, <2>3
<1>8. StatesAreCut'
  BY <1>7 DEF StatesAreCut, Folded
<1>9. \A w \in InitWorkers, i \in Ids : At(w, i)' <=> At(w, i)
  BY <1>1 DEF At, Folded
<1>10. Found' /\ OneHome'
  BY <1>1, <1>9, FoundStays DEF CutInv
<1> QED BY <1>6, <1>8, <1>10 DEF CutInv

LEMMA NextCut ==
  ASSUME Steady, IInv, IInv', Settled, BarrierInv, CutInv, [Next]_vars PROVE CutInv'
<1> USE DEF IInv
<1>1. CASE Uneventful
  <2>1. "Data" \notin Dull /\ "BarrierMarker" \notin Dull /\ "AbsBarrier" \notin Dull
    BY DEF Dull
  <2>2. \A w \in InitWorkers : /\ Grown(out[w], out'[w], Dull)
                               /\ \A r \in Others(w) : Grown(chan[<<r, w>>], chan'[<<r, w>>], Dull)
    BY <1>1, MarkTypes DEF Uneventful
  <2>3. UNCHANGED <<localBarrier, taken, persisted, barrierRound, opState, snapshot, cut, nextId>>
    BY <1>1 DEF Uneventful, alignVars
  <2> QED BY <2>1, <2>2, <2>3, CutKept
<1>2. ASSUME NEW w \in InitWorkers, LocalEpoch(w) PROVE CutInv'
  <2>1. /\ \A x \in InitWorkers : Grown(out[x], out'[x], {"Epoch"})
        /\ \A x \in InitWorkers : \A y \in Others(x) : Grown(chan[<<y, x>>], chan'[<<y, x>>], {"Epoch"})
        /\ UNCHANGED <<localBarrier, taken, persisted, barrierRound, opState, snapshot, cut, nextId>>
    BY <1>2, LocalEpochQueues
  <2> QED BY <2>1, CutKept
<1> QED BY <1>1, <1>2, NextSteady, TakesCut, EmitsCut, LocalBarrierCut, PassesCut, ConsumesCut, StartSnapshotCut

LEMMA InitCut == ASSUME Init PROVE CutInv
<1>1. InitWorkers \subseteq Workers
  BY DistributorAssumption DEF WorkerSets
<1>2. ASSUME NEW w \in InitWorkers
      PROVE  out[w] = <<>> /\ persisted[w] = 0 /\ Folded(w) = {} /\ \A r \in Others(w) : chan[<<r, w>>] = <<>>
  BY <1>1 DEF Init, Others, Links, Folded
<1>3. QueuesAreCut
  BY <1>2 DEF QueuesAreCut, CutAt
<1>4. StatesAreCut
  BY <1>2 DEF StatesAreCut
<1>5. \A w \in InitWorkers : \A i : ~At(w, i)
  <2>1. \A i : ~Has(<<>>, i)
    BY DEF Has
  <2> QED BY <1>2, <2>1 DEF At
<1>6. Accepted = {}
  BY DEF Init, Accepted
<1>7. Found
  BY <1>5, <1>6 DEF Found
<1>8. OneHome
  <2>1. \E v : v \in Workers
    BY DistributorAssumption DEF WorkerSets
  <2>2. PICK v : v \in Workers
    BY <2>1
  <2>3. [i \in Ids |-> v] \in [Ids -> Workers]
    BY <2>2
  <2> QED BY <1>5, <2>3 DEF OneHome
<1> QED BY <1>3, <1>4, <1>7, <1>8 DEF CutInv

LEMMA CutInductive == ASSUME Steady PROVE Spec => [](IInv /\ Settled /\ BarrierInv /\ CutInv)
<1>1. Init => Settled /\ BarrierInv /\ CutInv
  BY InitSettled, InitBarriers, InitCut
<1>2. IInv /\ IInv' /\ (Settled /\ BarrierInv /\ CutInv) /\ [Next]_vars => (Settled /\ BarrierInv /\ CutInv)'
  BY NextSteady, NextBarriers, NextCut
<1> QED BY <1>1, <1>2, Inductive, PTL DEF Spec

\* What is still in a queue belongs to no snapshot that its reader has persisted.
LEMMA QueuedIsLater ==
  ASSUME NEW q, NEW i, Has(q, i), NEW e, NEW B \in Nat, cut[i] \in Nat, CutAt(q, cut, B, e),
         NEW p \in Nat, p <= B, p = B => ~e /\ ~Marked(q), NEW n \in Nat, n <= p
  PROVE  ~(cut[i] < n)
<1>1. PICK k \in DOMAIN q : q[k].kind = "Data" /\ q[k].data.id = i
  BY DEF Has, Carries
<1>2. cut[i] + 1 >= B /\ (cut[i] < B <=> (e \/ \E m \in DOMAIN q : m > k /\ IsMark(q[m])))
  BY <1>1 DEF CutAt
<1>3. CASE p < B
  BY <1>2, <1>3
<1>4. CASE p = B
  <2>1. ~(cut[i] < B)
    BY <1>2, <1>4 DEF Marked
  <2> QED BY <1>4, <2>1
<1> QED BY <1>3, <1>4

LEMMA PersistedIsCut ==
  ASSUME TypeOK, Settled, BarrierInv, CutInv PROVE SnapshotIsCut
<1>1. alive = InitWorkers /\ barrierRound \in Nat /\ cut \in [Ids -> Nat] /\ nextId \in 1..(MaxData + 1) /\ MaxData \in Nat
  BY MarkTypes, DistributorAssumption DEF Settled, TypeOK, EnvTypeOK
<1>2. \A w \in InitWorkers : Folded(w) \subseteq Ids
  BY MarkTypes DEF Folded, TypeOK, OperatorTypeOK
<1>3. SUFFICES ASSUME NEW n \in 1..barrierRound, \A w \in InitWorkers : persisted[w] >= n
      PROVE  /\ UNION {snapshot[n][w] : w \in InitWorkers} = {i \in Accepted : cut[i] < n}
             /\ \A v, w \in InitWorkers : v # w => snapshot[n][v] \cap snapshot[n][w] = {}
  BY <1>1 DEF SnapshotIsCut
<1>4. n \in Nat /\ \A w \in InitWorkers : snapshot[n][w] = {i \in Folded(w) : cut[i] < n}
  <2>1. ASSUME NEW w \in InitWorkers PROVE n \in 1..persisted[w]
    <3>1. persisted[w] \in Nat /\ persisted[w] >= n
      BY <1>3, MarkTypes
    <3> QED BY <1>1, <1>3, <3>1
  <2> QED BY <1>1, <1>3, <2>1 DEF CutInv, StatesAreCut
<1>5. \A i \in Ids, w \in InitWorkers : i \in Folded(w) => At(w, i)
  BY DEF At
<1>6. ASSUME NEW i \in Accepted, cut[i] < n PROVE \E w \in InitWorkers : i \in Folded(w)
  <2>1. i \in Ids /\ cut[i] \in Nat
    BY <1>1 DEF Accepted, Ids
  <2>2. PICK w \in InitWorkers : At(w, i)
    BY DEF CutInv, Found
  <2>3. /\ persisted[w] \in Nat /\ taken[w] \in Nat /\ n <= persisted[w] /\ persisted[w] <= taken[w] /\ taken[w] <= barrierRound
        /\ persisted[w] <= barrierRound
        /\ localBarrier[w] => persisted[w] < barrierRound
        /\ ~Waits(w) => \A r \in Others(w) : taken[r] = barrierRound
        /\ Marked(out[w]) <=> ~Waits(w) /\ persisted[w] < barrierRound
        /\ \A r \in Others(w) : Marked(chan[<<r, w>>]) => Waits(w)
    <3>1. persisted[w] \in Nat /\ taken[w] \in Nat /\ n <= persisted[w]
      BY <1>3, <1>4, MarkTypes
    <3>2. persisted[w] <= taken[w] /\ taken[w] <= barrierRound /\ (localBarrier[w] => persisted[w] < barrierRound)
          /\ (~Waits(w) => \A r \in Others(w) : taken[r] = barrierRound)
      BY DEF BarrierInv, Rounds
    <3>3. (Marked(out[w]) <=> ~Waits(w) /\ persisted[w] < barrierRound) /\ \A r \in Others(w) : Marked(chan[<<r, w>>]) => Waits(w)
      BY DEF BarrierInv, MarksOnWay
    <3> QED BY <1>1, <3>1, <3>2, <3>3
  <2>4. persisted[w] = barrierRound => ~Waits(w)
    BY <1>1, <2>3 DEF Waits
  <2>5. ~Has(out[w], i)
    <3>1. CutAt(out[w], cut, barrierRound, Waits(w))
      BY DEF CutInv, QueuesAreCut
    <3>2. persisted[w] = barrierRound => ~Waits(w) /\ ~Marked(out[w])
      BY <1>1, <2>3, <2>4
    <3> QED BY <1>1, <1>4, <1>6, <2>1, <2>3, <3>1, <3>2, QueuedIsLater
  <2>6. ASSUME NEW r \in Others(w) PROVE ~Has(chan[<<r, w>>], i)
    <3>1. CutAt(chan[<<r, w>>], cut, barrierRound, taken[r] < barrierRound)
      BY DEF CutInv, QueuesAreCut
    <3>2. persisted[w] = barrierRound => ~(taken[r] < barrierRound) /\ ~Marked(chan[<<r, w>>])
      BY <1>1, <2>3, <2>4
    <3> QED BY <1>1, <1>4, <1>6, <2>1, <2>3, <3>1, <3>2, QueuedIsLater
  <2> QED BY <2>2, <2>5, <2>6 DEF At
<1>7. ASSUME NEW w \in InitWorkers, NEW i \in Folded(w) PROVE i \in Accepted
  <2>1. i \in Ids /\ i < nextId
    BY <1>2, <1>5 DEF CutInv, Found
  <2> QED BY <1>1, <2>1 DEF Ids, Accepted
<1>8. UNION {snapshot[n][w] : w \in InitWorkers} = {i \in Accepted : cut[i] < n}
  BY <1>4, <1>6, <1>7
<1>9. ASSUME NEW v \in InitWorkers, NEW w \in InitWorkers, v # w PROVE snapshot[n][v] \cap snapshot[n][w] = {}
  <2>1. PICK home \in [Ids -> Workers] : \A i \in Ids, x \in InitWorkers : At(x, i) => home[i] = x
    BY DEF CutInv, OneHome
  <2>2. ASSUME NEW i \in Folded(v), i \in Folded(w) PROVE FALSE
    BY <1>2, <1>5, <1>9, <2>1, <2>2
  <2> QED BY <1>4, <2>2
<1> QED BY <1>8, <1>9

\* In every cluster that keeps its workers, whatever the partitioner and however
\* many snapshots are taken: a barrier is passed on only when the local upstream
\* and all remotes have sent theirs, and what the operators persist then is a
\* consistent cut of the accepted messages.
THEOREM SnapshotsAreCuts == ASSUME Steady PROVE Spec => []SnapshotIsCut
<1>1. IInv /\ Settled /\ BarrierInv /\ CutInv => SnapshotIsCut
  BY PersistedIsCut DEF IInv
<1> QED BY <1>1, CutInductive, PTL
=============================================================================
