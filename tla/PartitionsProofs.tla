-------------------------- MODULE PartitionsProofs --------------------------
(***************************************************************************)
(* What is proved of partitioned sources and sinks: a partition is in one  *)
(* place, a stateful source reads every record once and in order, no source*)
(* skips a record, nothing is left to read when MAX has been sent, and a   *)
(* sink counts every record.  A sink partition that its new owner has begun*)
(* ahead of its state (early) is excepted where the code does not keep it. *)
(*                                                                         *)
(* All of it rests on one inductive invariant, IInv: where partitions may  *)
(* be in the phases of a rescale (Placement), that there is one place per  *)
(* partition (SinglePlace), and how the positions of the partitions, of the*)
(* snapshots and of the broker relate to what has been read.               *)
(***************************************************************************)
EXTENDS Partitions, FiniteSetTheorems, SequenceTheorems, TLAPS

Configurations == Scales \cup {InitWorkers}
State == Nat \cup {None}
Position == [Parts -> State]
Acquires == [op : Operators, part : Parts, to : AllWorkers, state : Nat]
Snapshots == [pos : Position, log : [Parts -> Seq(Nat)], workers : Configurations]

\* The types that the proofs need: TypeOK and the shape of the rest.
Types ==
  /\ flavour \in Flavours
  /\ workers \in Configurations /\ target \in Configurations
  /\ phase \in [Operators -> [AllWorkers -> {"normal", "collect", "finished"}]]
  /\ give \in [Operators -> [AllWorkers -> SUBSET Parts]]
  /\ moving \subseteq Acquires
  /\ listed \in BOOLEAN /\ toBuild \subseteq Parts
  /\ parts \in [Operators -> [AllWorkers -> Position]]
  /\ marked \in [AllWorkers -> SUBSET Parts]
  /\ clients \in [AllWorkers -> SUBSET AllWorkers]
  /\ wire \in [AllWorkers -> [AllWorkers -> Seq(Parts)]]
  /\ maxSent \in [AllWorkers -> BOOLEAN]
  /\ toSink \in [Parts -> Nat] /\ ahead \in [Parts -> Nat] /\ early \subseteq Parts
  /\ panicked \subseteq AllWorkers /\ broker \in [Parts -> Nat]
  /\ snap \in Snapshots /\ committed \in Snapshots
  /\ log \in [Parts -> Seq(Nat)]
  /\ counts \in [scales : Nat, shrinks : Nat, snapshots : Nat, crashes : Nat]

----------------------------------------------------------------------------
(* Where a partition may be.                                               *)

\* The parts that are in one place: not those sink parts that their new owner has
\* begun ahead of the state.
Clean(o, p) == o = "sink" => p \notin early

\* The old owner holds a partition, and once it has been asked for its keys only
\* what is its own or still to be given away; or the new owner does, when the old
\* one has been asked.
HeldWhereItBelongs ==
  \A o \in Operators, w \in AllWorkers : \A p \in Held(o, w) : Clean(o, p) =>
     \/ /\ w = Owner(p, workers)
        /\ phase[o][w] = "normal" \/ Owner(p, target) = w \/ p \in give[o][w]
     \/ w = Owner(p, target) /\ phase[o][Owner(p, workers)] # "normal"

\* Only a worker that has been asked and has not finished gives keys away.
GivesWhileCollecting ==
  \A o \in Operators, w \in AllWorkers : \A p \in give[o][w] :
     w \in Active /\ phase[o][w] # "normal" /\ p \in Held(o, w)

\* A worker finishes when all have been asked and have given away all they had.
FinishedTogether ==
  \A o \in Operators, w \in AllWorkers : phase[o][w] = "finished" =>
     /\ \A v \in Active : phase[o][v] # "normal" /\ give[o][v] = {}
     /\ \A m \in moving : m.op = o => m.to # w

\* A message goes to the owner in the new configuration, from an old one that has
\* been asked for its keys.
SentToOwner ==
  \A m \in moving :
     /\ m.to = Owner(m.part, target)
     /\ Clean(m.op, m.part) => phase[m.op][Owner(m.part, workers)] # "normal"

\* Without a rescale nothing moves.
NothingMovesAtRest ==
  target = workers =>
    moving = {} /\ \A o \in Operators, w \in AllWorkers : phase[o][w] = "normal"

Placement ==
  /\ HeldWhereItBelongs /\ GivesWhileCollecting /\ FinishedTogether
  /\ SentToOwner /\ NothingMovesAtRest

\* One worker holds a partition, or one message, and not both.
SinglePlace ==
  /\ \A o \in Operators, v, w \in AllWorkers : \A p \in Held(o, v) :
        Clean(o, p) /\ p \in Held(o, w) => v = w
  /\ \A m \in moving, w \in AllWorkers : Clean(m.op, m.part) => m.part \notin Held(m.op, w)
  /\ \A m, n \in moving : Clean(m.op, m.part) /\ m.op = n.op /\ m.part = n.part => m = n

----------------------------------------------------------------------------
(* What the positions say of what has been read.                           *)

\* The positions at which part p stands, with a worker or on its way to one.
Stands(p) ==
  {n \in Nat : \/ \E w \in AllWorkers : parts.source[w][p] = n
               \/ \E m \in moving : m.op = "source" /\ m.part = p /\ m.state = n}

\* The records 1 to n have been read, in order.
InOrder(l, n) == Len(l) = n /\ \A i \in 1..Len(l) : l[i] = i

\* A stateful source stands where its records end, also in a snapshot.
StatefulPositions ==
  flavour = "stateful" => \A p \in Parts :
    /\ \A n \in Stands(p) : InOrder(log[p], n)
    /\ Stands(p) = {} => log[p] = <<>>
    /\ \A s \in {snap, committed} :
         IF s.pos[p] = None THEN s.log[p] = <<>> ELSE InOrder(s.log[p], s.pos[p])

\* Every record but the first comes after the one before it.
Chained(l) == \A i \in 1..Len(l) : l[i] = 1 \/ \E j \in 1..(i - 1) : l[j] = l[i] - 1

\* Record n has been read.
Reached(l, n) == n = 0 \/ \E i \in 1..Len(l) : l[i] = n

\* A source stands behind a record that it has read, and so does the broker.
ReachedPositions ==
  (flavour = "kafka" => counts.crashes = 0) => \A p \in Parts :
    /\ Chained(log[p]) /\ \A n \in Stands(p) : Reached(log[p], n)
    /\ flavour = "kafka" => Reached(log[p], broker[p])
    /\ \A s \in {snap, committed} :
         Chained(s.log[p]) /\ (s.pos[p] # None => Reached(s.log[p], s.pos[p]))

\* A bounded source has read at least as many records as its position says.
EnoughRead ==
  flavour # "kafka" => \A p \in Parts :
    /\ \A n \in Stands(p) : Len(log[p]) >= n
    /\ \A s \in {snap, committed} : s.pos[p] # None => Len(s.log[p]) >= s.pos[p]

\* Part p has been read to its end, and will not be read again.
Exhausted(p) ==
  /\ flavour # "kafka"
  /\ (flavour = "stateless" => counts.scales = 0) =>
       Len(log[p]) >= Length[p] /\ Stands(p) = {Length[p]}

\* What a worker knows or is going to hear is true.
KnownIsExhausted ==
  /\ \A w \in AllWorkers : \A p \in marked[w] : Exhausted(p)
  /\ \A v, w \in AllWorkers : \A i \in 1..Len(wire[v][w]) : Exhausted(wire[v][w][i])

MaxAfterAll == \A w \in AllWorkers : maxSent[w] => marked[w] = Parts

NoRescaleYet == counts.scales = 0 => target = workers

IInv ==
  /\ Types /\ Placement /\ SinglePlace
  /\ StatefulPositions /\ ReachedPositions /\ EnoughRead
  /\ KnownIsExhausted /\ MaxAfterAll /\ NoRescaleYet

----------------------------------------------------------------------------
(* The operators.                                                          *)

\* A configuration is a set of workers.
LEMMA ConfigurationType ==
  ASSUME NEW S \in Configurations
  PROVE  S \subseteq AllWorkers /\ \A p \in Parts : Owner(p, S) \in S
BY PartitionsAssumption DEF Configurations

LEMMA ActiveType == Types => Active \subseteq AllWorkers
BY ConfigurationType DEF Types, Active

\* A partition is held where its position is a number.
LEMMA HeldType ==
  ASSUME Types, NEW o \in Operators, NEW w \in AllWorkers, NEW p \in Parts
  PROVE  /\ parts[o][w][p] \in State
         /\ p \in Held(o, w) <=> parts[o][w][p] # None
         /\ p \in Held(o, w) <=> parts[o][w][p] \in Nat
BY SMTT(30), PartitionsAssumption DEF Types, Position, State, Held

\* The counters go up one by one, that of the rescales with that of the departures.
LEMMA CountsStep ==
  ASSUME NEW c \in [scales : Nat, shrinks : Nat, snapshots : Nat, crashes : Nat], NEW d, NEW k \in Nat,
         \/ d = [c EXCEPT !.scales = @ + 1, !.shrinks = k]
         \/ d = [c EXCEPT !.snapshots = @ + 1]
         \/ d = [c EXCEPT !.crashes = @ + 1]
  PROVE  d \in [scales : Nat, shrinks : Nat, snapshots : Nat, crashes : Nat]
<1>1. c.scales \in Nat /\ c.shrinks \in Nat /\ c.snapshots \in Nat /\ c.crashes \in Nat
  OBVIOUS
<1>2. c.scales + 1 \in Nat /\ c.snapshots + 1 \in Nat /\ c.crashes + 1 \in Nat
  BY <1>1
<1> QED BY <1>1, <1>2

\* Where a message ends up that the old owner has had: with the holder, or with an
\* owner when the partition is nowhere.
LEMMA HomeIsRight ==
  ASSUME Types, HeldWhereItBelongs, SentToOwner, NEW o \in Operators, NEW p \in Parts, Home(o, p) # None
  PROVE  /\ Home(o, p) \in Active
         /\ Clean(o, p) =>
              \/ p \in Held(o, Home(o, p))
              \/ /\ \A w \in AllWorkers : p \notin Held(o, w)
                 /\ \A m \in moving : ~(m.op = o /\ m.part = p)
                 /\ \/ Home(o, p) = Owner(p, workers) /\ phase[o][Home(o, p)] = "normal"
                    \/ Home(o, p) = Owner(p, target) /\ phase[o][Owner(p, workers)] # "normal"
<1> DEFINE old == Owner(p, workers)
           new == Owner(p, target)
<1>1. old \in workers /\ new \in target
  BY ConfigurationType DEF Types
<1>2. Clean(o, p) => \A w \in AllWorkers : p \in Held(o, w) => w = old \/ (w = new /\ phase[o][old] # "normal")
  BY DEF HeldWhereItBelongs
<1>3. Clean(o, p) => \A m \in moving : m.op = o /\ m.part = p => phase[o][old] # "normal"
  BY DEF SentToOwner
<1>4. CASE p \in Held(o, old)
  BY <1>1, <1>4 DEF Home, Active
<1>5. CASE p \notin Held(o, old) /\ phase[o][old] = "normal"
  <2>1. Home(o, p) = old
    BY <1>5 DEF Home
  <2> QED BY <1>1, <1>2, <1>3, <1>5, <2>1 DEF Active
<1>6. CASE p \notin Held(o, old) /\ phase[o][old] # "normal"
  <2>1. Home(o, p) = new /\ \A m \in moving : ~(m.op = o /\ m.part = p)
    BY <1>6 DEF Home
  <2> QED BY <1>1, <1>2, <1>6, <2>1 DEF Active
<1> QED BY <1>4, <1>5, <1>6

\* A record is taken by a worker.
LEMMA TakersType ==
  ASSUME Types, HeldWhereItBelongs, SentToOwner, NEW p \in Parts, NEW w \in Takers(p), w # None
  PROVE  w \in AllWorkers
<1>1. Owner(p, target) \in AllWorkers /\ "sink" \in Operators
  BY ConfigurationType DEF Types, Operators
<1>2. w = Owner(p, target) \/ w = Home("sink", p)
  BY DEF Takers
<1> QED BY <1>1, <1>2, HomeIsRight, ActiveType

\* The position that a partition is built with.
LEMMA BuildPartType ==
  ASSUME Types, NEW p \in Parts, NEW s \in State
  PROVE  BuildPart(p, s) \in Nat
BY PartitionsAssumption DEF Types, State, BuildPart, BuildStateful, BuildStateless, BuildKafka

\* Where a part stands, in terms of the workers and the messages.
LEMMA StandsAt ==
  ASSUME Types, NEW p \in Parts
  PROVE  /\ \A n : n \in Stands(p) <=>
               \/ \E w \in AllWorkers : p \in Held("source", w) /\ parts.source[w][p] = n
               \/ \E m \in moving : m.op = "source" /\ m.part = p /\ m.state = n
         /\ Stands(p) \subseteq Nat
<1>1. \A w \in AllWorkers : p \in Held("source", w) <=> parts.source[w][p] \in Nat
  BY HeldType DEF Operators
<1>2. \A m \in moving : m.state \in Nat
  BY DEF Types, Acquires
<1> QED BY <1>1, <1>2 DEF Stands

----------------------------------------------------------------------------
(* What steps leave alone.                                                 *)

LEMMA SinglePlaceFrame ==
  ASSUME Types, SinglePlace, UNCHANGED <<moving, early>>,
         \A o \in Operators, w \in AllWorkers : Held(o, w)' = Held(o, w)
  PROVE  SinglePlace'
BY DEF SinglePlace, Types, Acquires, Clean

\* A message stays right while the phases only go on.
LEMMA SentFrame ==
  ASSUME Types, SentToOwner, UNCHANGED <<workers, target, moving, early>>,
         \A o \in Operators, w \in AllWorkers : phase[o][w] # "normal" => phase'[o][w] # "normal"
  PROVE  SentToOwner'
<1> SUFFICES ASSUME NEW m \in moving
             PROVE  /\ m.to = Owner(m.part, target)
                    /\ Clean(m.op, m.part)' => phase'[m.op][Owner(m.part, workers)] # "normal"
  BY DEF SentToOwner
<1>1. m.op \in Operators /\ Owner(m.part, workers) \in AllWorkers
  BY ConfigurationType DEF Types, Acquires
<1>2. Clean(m.op, m.part)' => Clean(m.op, m.part)
  BY DEF Clean
<1> QED BY <1>1, <1>2 DEF SentToOwner

\* The invariants on places speak of the rescale and of who holds what.
LEMMA PlacesFrame ==
  ASSUME Types, Placement, SinglePlace, UNCHANGED <<workers, target, phase, give, moving, early>>,
         \A o \in Operators, w \in AllWorkers : Held(o, w)' = Held(o, w)
  PROVE  Placement' /\ SinglePlace'
<1>1. HeldWhereItBelongs' /\ GivesWhileCollecting'
  BY DEF Placement, HeldWhereItBelongs, GivesWhileCollecting, Active, Clean
<1>2. FinishedTogether' /\ SentToOwner' /\ NothingMovesAtRest'
  BY DEF Placement, FinishedTogether, SentToOwner, NothingMovesAtRest, Active, Clean
<1>3. SinglePlace'
  BY SinglePlaceFrame
<1> QED BY <1>1, <1>2, <1>3 DEF Placement

\* The invariants on positions speak of the source, its records, the snapshots
\* and the broker.
Positions == StatefulPositions /\ ReachedPositions /\ EnoughRead

Kept == UNCHANGED <<flavour, log, snap, committed, broker>> /\ counts'.crashes = counts.crashes

LEMMA PositionsFrame ==
  ASSUME Positions, Kept, \A p \in Parts : Stands(p)' = Stands(p)
  PROVE  Positions'
<1>1. StatefulPositions'
  BY DEF Positions, StatefulPositions, Kept
<1>2. ReachedPositions'
  BY DEF Positions, ReachedPositions, Kept
<1>3. EnoughRead'
  BY DEF Positions, EnoughRead, Kept
<1> QED BY <1>1, <1>2, <1>3 DEF Positions
\* A part stays exhausted while it stands where it stood.
LEMMA ExhaustedFrame ==
  ASSUME NEW p \in Parts, Exhausted(p), Types, flavour' = flavour, counts'.scales = counts.scales,
         log' = log, Stands(p)' = Stands(p)
  PROVE  Exhausted(p)'
BY DEF Exhausted

Known == KnownIsExhausted /\ MaxAfterAll

LEMMA KnownFrame ==
  ASSUME Types, Known, UNCHANGED <<marked, wire, maxSent>>,
         \A p \in Parts : Exhausted(p) => Exhausted(p)'
  PROVE  Known'
<1>1. \A w \in AllWorkers : \A p \in marked'[w] : Exhausted(p)'
  BY DEF Known, KnownIsExhausted, Types
<1>2. \A v, w \in AllWorkers : \A i \in 1..Len(wire'[v][w]) : Exhausted(wire[v][w][i])'
  <2> SUFFICES ASSUME NEW v \in AllWorkers, NEW w \in AllWorkers, NEW i \in 1..Len(wire[v][w])
               PROVE  Exhausted(wire[v][w][i])'
    OBVIOUS
  <2>1. wire[v][w] \in Seq(Parts)
    BY DEF Types
  <2>2. wire[v][w][i] \in Parts
    BY <2>1
  <2>3. Exhausted(wire[v][w][i])
    BY DEF Known, KnownIsExhausted
  <2> DEFINE q == wire[v][w][i]
  <2>4. q \in Parts /\ q' = q
    BY <2>2
  <2> QED BY <2>2, <2>3
<1> QED BY <1>1, <1>2 DEF Known, KnownIsExhausted, MaxAfterAll
\* Who holds what and where it stands is a matter of two variables.
LEMMA SamePlaces ==
  ASSUME UNCHANGED <<parts, moving>>
  PROVE  /\ \A o \in Operators, w \in AllWorkers : Held(o, w)' = Held(o, w)
         /\ \A p \in Parts : Stands(p)' = Stands(p)
BY DEF Held, Stands

\* A step that moves no partition, reads no record and announces nothing.
LEMMA QuietStep ==
  ASSUME IInv, Types', Kept, UNCHANGED <<parts, moving, marked, wire, maxSent>>,
         counts'.scales = counts.scales
  PROVE  Positions' /\ Known'
<1>1. Types /\ Positions /\ Known
  BY DEF IInv, Positions, Known
<1>2. \A p \in Parts : Stands(p)' = Stands(p)
  BY SamePlaces
<1>3. Positions'
  BY <1>1, <1>2, PositionsFrame
<1>4. \A p \in Parts : Exhausted(p) => Exhausted(p)'
  BY <1>1, <1>2, ExhaustedFrame DEF Kept
<1> QED BY <1>1, <1>3, <1>4, KnownFrame

\* The parts of the invariant, put together.
LEMMA Together ==
  ASSUME Types', Placement', SinglePlace', Positions', Known', NoRescaleYet'
  PROVE  IInv'
BY DEF IInv, Positions, Known

----------------------------------------------------------------------------
(* The initial states.                                                     *)

LEMMA BlankType == ASSUME NEW S \in Configurations PROVE Blank(S) \in Snapshots
<1>1. NoParts \in Position
  BY DEF NoParts, Position, State
<1>2. [p \in Parts |-> <<>>] \in [Parts -> Seq(Nat)]
  OBVIOUS
<1> QED BY <1>1, <1>2 DEF Blank, Snapshots

\* Nothing is held at first.
LEMMA InitIsGood == Init => IInv
<1> SUFFICES ASSUME Init PROVE IInv
  OBVIOUS
<1>1. Types
  <2>1. InitWorkers \in Configurations /\ InitWorkers \subseteq AllWorkers
    BY PartitionsAssumption DEF Configurations
  <2>2. NoParts \in Position
    BY DEF NoParts, Position, State
  <2>3. snap \in Snapshots /\ committed \in Snapshots
    BY <2>1, BlankType DEF Init
  <2>4. parts \in [Operators -> [AllWorkers -> Position]]
    BY <2>2 DEF Init
  <2>5. /\ wire \in [AllWorkers -> [AllWorkers -> Seq(Parts)]]
        /\ log \in [Parts -> Seq(Nat)]
    BY DEF Init
  <2>6. counts \in [scales : Nat, shrinks : Nat, snapshots : Nat, crashes : Nat]
    BY DEF Init
  <2>7. /\ clients \in [AllWorkers -> SUBSET AllWorkers] /\ toSink \in [Parts -> Nat]
        /\ ahead \in [Parts -> Nat] /\ broker \in [Parts -> Nat] /\ maxSent \in [AllWorkers -> BOOLEAN]
        /\ marked \in [AllWorkers -> SUBSET Parts] /\ give \in [Operators -> [AllWorkers -> SUBSET Parts]]
    BY <2>1 DEF Init
  <2>8. phase \in [Operators -> [AllWorkers -> {"normal", "collect", "finished"}]]
    BY DEF Init
  <2> QED BY <2>1, <2>3, <2>4, <2>5, <2>6, <2>7, <2>8 DEF Types, Init
<1>2. \A o \in Operators, w \in AllWorkers : Held(o, w) = {}
  BY DEF Init, Held, NoParts
<1>3. Placement
  BY <1>2 DEF Init, Placement, HeldWhereItBelongs, GivesWhileCollecting, FinishedTogether, SentToOwner,
     NothingMovesAtRest
<1>4. SinglePlace
  BY <1>2 DEF Init, SinglePlace
<1>5. \A p \in Parts : Stands(p) = {}
  BY <1>1, <1>2, StandsAt DEF Init, Operators
<1>6. \A p \in Parts : log[p] = <<>> /\ broker[p] = 0
  BY DEF Init
<1>7. \A p \in Parts, s \in {snap, committed} : s.pos[p] = None /\ s.log[p] = <<>>
  BY DEF Init, Blank, NoParts
<1>8. StatefulPositions
  BY <1>5, <1>6, <1>7 DEF StatefulPositions
<1>9. ReachedPositions
  BY <1>5, <1>6, <1>7 DEF ReachedPositions, Reached, Chained
<1>10. EnoughRead
  BY <1>5, <1>7 DEF EnoughRead
<1>11. KnownIsExhausted /\ MaxAfterAll /\ NoRescaleYet
  BY DEF Init, KnownIsExhausted, MaxAfterAll, NoRescaleYet
<1> QED BY <1>1, <1>3, <1>4, <1>8, <1>9, <1>10, <1>11 DEF IInv

----------------------------------------------------------------------------
(* Steps that move no partition.                                           *)

LEMMA ListPartsStep == IInv /\ ListParts => IInv'
<1> SUFFICES ASSUME IInv, ListParts PROVE IInv'
  OBVIOUS
<1>1. /\ listed' = TRUE /\ toBuild' = Parts
      /\ UNCHANGED <<flavour, workers, target, phase, give, moving, parts, marked, clients, wire, maxSent,
                     toSink, ahead, early, panicked, broker, barred, snap, committed, log, counts>>
  BY DEF ListParts, moveVars, markVars, snapVars, flowVars
<1>2. Types'
  BY <1>1 DEF IInv, Types
<1>3. Placement' /\ SinglePlace'
  BY <1>1, SamePlaces, PlacesFrame DEF IInv
<1>4. Positions' /\ Known'
  BY <1>1, <1>2, QuietStep DEF Kept
<1>5. NoRescaleYet'
  BY <1>1 DEF IInv, NoRescaleYet
<1> QED BY <1>2, <1>3, <1>4, <1>5, Together

LEMMA OnInterrogateStep ==
  ASSUME IInv, NEW o \in Operators, NEW w \in AllWorkers, OnInterrogate(o, w)
  PROVE  IInv'
<1>1. /\ UNCHANGED <<flavour, workers, target, listed, toBuild, moving, parts, marked, clients, wire, maxSent,
                     toSink, ahead, early, panicked, broker, barred, snap, committed, log, counts>>
      /\ target # workers /\ w \in Active /\ phase[o][w] = "normal"
  BY DEF OnInterrogate, jobVars, markVars, snapVars, flowVars
<1>2. /\ Keys(o, w) = Held(o, w)
      /\ phase' = [phase EXCEPT ![o][w] = "collect"]
      /\ give' = [give EXCEPT ![o][w] = {p \in Keys(o, w) : Owner(p, OldSet(w)) # Owner(p, target)}]
  BY DEF OnInterrogate, Keys, SourceKeys, SinkKeys, Operators
<1>3. Types /\ Placement /\ SinglePlace
  BY DEF IInv
<1>4. Types'
  <2>1. {p \in Keys(o, w) : Owner(p, OldSet(w)) # Owner(p, target)} \in SUBSET Parts
    BY <1>2 DEF Held
  <2>2. give' \in [Operators -> [AllWorkers -> SUBSET Parts]]
    BY <1>2, <1>3, <2>1 DEF Types
  <2>3. phase' \in [Operators -> [AllWorkers -> {"normal", "collect", "finished"}]]
    BY <1>2, <1>3 DEF Types
  <2> QED BY <1>1, <1>3, <2>2, <2>3 DEF Types
<1>5. \A x \in Operators, v \in AllWorkers : Held(x, v)' = Held(x, v)
  BY <1>1, SamePlaces
<1>a. \A x \in Operators, v \in AllWorkers :
         IF x = o /\ v = w
         THEN /\ phase'[x][v] = "collect"
              /\ give'[x][v] = {p \in Held(x, v) : Owner(p, OldSet(v)) # Owner(p, target)}
         ELSE phase'[x][v] = phase[x][v] /\ give'[x][v] = give[x][v]
  BY <1>2, <1>3 DEF Types
<1>b. HeldWhereItBelongs'
  <2> SUFFICES ASSUME NEW x \in Operators, NEW v \in AllWorkers, NEW p \in Held(x, v), Clean(x, p)
               PROVE  \/ /\ v = Owner(p, workers)
                         /\ phase'[x][v] = "normal" \/ Owner(p, target) = v \/ p \in give'[x][v]
                      \/ v = Owner(p, target) /\ phase'[x][Owner(p, workers)] # "normal"
    BY <1>1, <1>5 DEF HeldWhereItBelongs, Clean
  <2>1. \/ /\ v = Owner(p, workers)
           /\ phase[x][v] = "normal" \/ Owner(p, target) = v \/ p \in give[x][v]
        \/ v = Owner(p, target) /\ phase[x][Owner(p, workers)] # "normal"
    BY <1>3 DEF Placement, HeldWhereItBelongs
  <2>2. p \in Parts /\ Owner(p, workers) \in workers /\ workers \subseteq AllWorkers
    BY <1>3, ConfigurationType DEF Held, Types
  <2>3. CASE v = Owner(p, workers) /\ x = o /\ v = w
    BY <1>a, <2>2, <2>3 DEF OldSet
  <2>4. CASE v = Owner(p, workers) /\ ~(x = o /\ v = w)
    BY <1>a, <2>1, <2>2, <2>4
  <2>5. CASE v # Owner(p, workers)
    BY <1>a, <2>1, <2>2, <2>5
  <2> QED BY <2>3, <2>4, <2>5
<1>c. \A x \in Operators, v \in AllWorkers : \A p \in give'[x][v] :
         v \in Active' /\ phase'[x][v] # "normal" /\ p \in Held(x, v)'
  BY <1>1, <1>3, <1>5, <1>a DEF Placement, GivesWhileCollecting, Active
<1>6. HeldWhereItBelongs' /\ GivesWhileCollecting'
  BY <1>b, <1>c DEF GivesWhileCollecting
<1>7. FinishedTogether'
  BY <1>1, <1>3, <1>a, ActiveType DEF Placement, FinishedTogether, Active
<1>8. SentToOwner' /\ NothingMovesAtRest'
  <2>1. \A x \in Operators, v \in AllWorkers : phase[x][v] # "normal" => phase'[x][v] # "normal"
    BY <1>a
  <2>2. SentToOwner'
    BY <1>1, <1>3, <2>1, SentFrame DEF Placement
  <2> QED BY <1>1, <1>3, <2>2 DEF Placement, NothingMovesAtRest
<1>9. SinglePlace'
  BY <1>1, <1>3, <1>5, SinglePlaceFrame
<1>10. Positions' /\ Known'
  BY <1>1, <1>4, QuietStep DEF Kept
<1>11. NoRescaleYet'
  BY <1>1 DEF IInv, NoRescaleYet
<1> QED BY <1>4, <1>6, <1>7, <1>8, <1>9, <1>10, <1>11, Together DEF Placement
LEMMA OnRescaleStep ==
  ASSUME IInv, NEW o \in Operators, NEW w \in AllWorkers, OnRescale(o, w)
  PROVE  IInv'
<1>1. /\ UNCHANGED <<flavour, workers, target, listed, toBuild, give, moving, parts, marked, wire, maxSent,
                     toSink, ahead, early, panicked, broker, barred, snap, committed, log, counts>>
      /\ target # workers /\ w \in Active /\ phase[o][w] = "collect"
      /\ \A v \in Active : phase[o][v] # "normal" /\ give[o][v] = {}
      /\ \A m \in moving : m.op = o => m.to # w
  BY DEF OnRescale, jobVars, snapVars, flowVars
<1>2. /\ phase' = [phase EXCEPT ![o][w] = "finished"]
      /\ clients' = IF o = "source" THEN [clients EXCEPT ![w] = @ \cap target] ELSE clients
  BY DEF OnRescale
<1>3. Types /\ Placement /\ SinglePlace
  BY DEF IInv
<1>4. Types'
  <2>1. clients' \in [AllWorkers -> SUBSET AllWorkers]
    BY <1>2, <1>3 DEF Types
  <2>2. phase' \in [Operators -> [AllWorkers -> {"normal", "collect", "finished"}]]
    BY <1>2, <1>3 DEF Types
  <2> QED BY <1>1, <1>3, <2>1, <2>2 DEF Types
<1>5. \A x \in Operators, v \in AllWorkers : Held(x, v)' = Held(x, v)
  BY <1>1, SamePlaces
<1>6. \A x \in Operators, v \in AllWorkers :
         phase'[x][v] = IF x = o /\ v = w THEN "finished" ELSE phase[x][v]
  BY <1>2, <1>3 DEF Types
<1>7. HeldWhereItBelongs'
  <2>1. \A x \in Operators, v \in AllWorkers : phase'[x][v] = "normal" <=> phase[x][v] = "normal"
    BY <1>1, <1>6
  <2>2. \A p \in Parts : Owner(p, workers) \in AllWorkers
    BY <1>3, ConfigurationType DEF Types
  <2>3. \A x \in Operators, v \in AllWorkers : Held(x, v) \subseteq Parts
    BY DEF Held
  <2> QED BY <1>1, <1>3, <1>5, <2>1, <2>2, <2>3 DEF Placement, HeldWhereItBelongs, Clean
<1>8. GivesWhileCollecting'
  BY <1>1, <1>3, <1>5, <1>6 DEF Placement, GivesWhileCollecting, Active
<1>9. FinishedTogether'
  BY <1>1, <1>3, <1>6, ActiveType DEF Placement, FinishedTogether, Active
<1>10. SentToOwner' /\ NothingMovesAtRest'
  <2>1. \A x \in Operators, v \in AllWorkers : phase[x][v] # "normal" => phase'[x][v] # "normal"
    BY <1>6
  <2>2. SentToOwner'
    BY <1>1, <1>3, <2>1, SentFrame DEF Placement
  <2> QED BY <1>1, <1>3, <2>2 DEF Placement, NothingMovesAtRest
<1>11. SinglePlace'
  BY <1>1, <1>3, <1>5, SinglePlaceFrame
<1>12. Positions' /\ Known'
  BY <1>1, <1>4, QuietStep DEF Kept
<1>13. NoRescaleYet'
  BY <1>1 DEF IInv, NoRescaleYet
<1> QED BY <1>4, <1>7, <1>8, <1>9, <1>10, <1>11, <1>12, <1>13, Together DEF Placement

\* Whoever leaves holds nothing: all have finished, so what a worker holds is its
\* own in the new configuration.
LEMMA RescaleDoneStep == IInv /\ RescaleDone => IInv'
<1> SUFFICES ASSUME IInv, RescaleDone PROVE IInv'
  OBVIOUS
<1>1. /\ UNCHANGED <<flavour, target, listed, toBuild, give, moving, parts, marked, clients, wire, maxSent,
                     early, panicked, broker, barred, snap, committed, log, counts>>
      /\ target # workers /\ workers' = target
      /\ \A o \in Operators, w \in Active : phase[o][w] = "finished"
      /\ phase' = [o \in Operators |-> [w \in AllWorkers |-> "normal"]]
      /\ toSink' = [p \in Parts |-> toSink[p] + ahead[p]] /\ ahead' = [p \in Parts |-> 0]
  BY DEF RescaleDone, markVars, snapVars, flowVars
<1>2. Types /\ Placement /\ SinglePlace /\ Active \subseteq AllWorkers
  BY ActiveType DEF IInv
<1>3. Types'
  <2>1. phase' \in [Operators -> [AllWorkers -> {"normal", "collect", "finished"}]]
    BY <1>1
  <2>2. toSink' \in [Parts -> Nat] /\ ahead' \in [Parts -> Nat]
    BY <1>1, <1>2 DEF Types
  <2> QED BY <1>1, <1>2, <2>1, <2>2 DEF Types
<1>4. \A x \in Operators, v \in AllWorkers : Held(x, v)' = Held(x, v)
  BY <1>1, SamePlaces
<1>5. \A x \in Operators, v \in AllWorkers : give[x][v] = {}
  BY <1>1, <1>2 DEF Placement, FinishedTogether, GivesWhileCollecting, Types
<1>6. \A x \in Operators, v \in AllWorkers : \A p \in Held(x, v) : Clean(x, p) => v = Owner(p, target)
  <2>1. \A p \in Parts : Owner(p, workers) \in Active
    BY <1>2, ConfigurationType DEF Types, Active
  <2>2. \A x \in Operators, v \in AllWorkers : Held(x, v) \subseteq Parts
    BY DEF Held
  <2> QED BY <1>1, <1>2, <1>5, <2>1, <2>2 DEF Placement, HeldWhereItBelongs
<1>7. moving = {}
  <2>1. \A m \in moving : m.op \in Operators /\ m.part \in Parts
    BY <1>2 DEF Types, Acquires
  <2>2. \A m \in moving : m.to \in target
    <3>1. \A p \in Parts : Owner(p, target) \in target
      BY <1>2, ConfigurationType DEF Types
    <3> QED BY <1>2, <2>1, <3>1 DEF Placement, SentToOwner
  <2> QED BY <1>1, <1>2, <2>1, <2>2 DEF Placement, FinishedTogether, Active
<1>8. HeldWhereItBelongs'
  <2>1. \A x \in Operators, v \in AllWorkers : phase'[x][v] = "normal"
    BY <1>1
  <2> QED BY <1>1, <1>2, <1>4, <1>6, <2>1 DEF HeldWhereItBelongs, Clean
<1>9. GivesWhileCollecting' /\ FinishedTogether'
  BY <1>1, <1>5 DEF GivesWhileCollecting, FinishedTogether
<1>10. SentToOwner' /\ NothingMovesAtRest'
  BY <1>1, <1>7 DEF SentToOwner, NothingMovesAtRest
<1>11. SinglePlace'
  BY <1>1, <1>2, <1>4, SinglePlaceFrame
<1>12. Positions' /\ Known'
  BY <1>1, <1>3, QuietStep DEF Kept
<1>13. NoRescaleYet'
  BY <1>1 DEF NoRescaleYet
<1> QED BY <1>3, <1>8, <1>9, <1>10, <1>11, <1>12, <1>13, Together DEF Placement

LEMMA RescaleStep ==
  ASSUME IInv, NEW S \in Scales, Rescale(S)
  PROVE  IInv'
<1>1. /\ UNCHANGED <<flavour, workers, listed, toBuild, phase, give, moving, parts, marked, wire, maxSent,
                     toSink, ahead, early, panicked, broker, barred, snap, committed, log>>
      /\ target = workers /\ S # workers /\ target' = S
  BY DEF Rescale, moveVars, snapVars, flowVars
<1>2. /\ clients' = [w \in AllWorkers |-> IF w \in S \ workers THEN S \ {w} ELSE clients[w]]
      /\ counts' = [counts EXCEPT !.scales = @ + 1, !.shrinks = IF workers \subseteq S THEN @ ELSE @ + 1]
  BY DEF Rescale
<1>3. Types /\ Placement /\ SinglePlace /\ Positions /\ Known
  BY DEF IInv, Positions, Known
<1>4. S \in Configurations /\ S \subseteq AllWorkers
  BY ConfigurationType DEF Configurations
<1>5. counts'.crashes = counts.crashes /\ counts'.scales = counts.scales + 1 /\ counts'.snapshots = counts.snapshots
  BY <1>2, <1>3 DEF Types
<1>6. Types'
  <2>1. clients' \in [AllWorkers -> SUBSET AllWorkers]
    BY <1>2, <1>3, <1>4 DEF Types
  <2>2. counts' \in [scales : Nat, shrinks : Nat, snapshots : Nat, crashes : Nat]
    <3>1. counts.shrinks \in Nat
      BY <1>3 DEF Types
    <3>2. (IF workers \subseteq S THEN counts.shrinks ELSE counts.shrinks + 1) \in Nat
      BY <3>1
    <3> QED BY <1>2, <1>3, <3>2, CountsStep DEF Types
  <2> QED BY <1>1, <1>3, <1>4, <2>1, <2>2 DEF Types
<1>7. /\ \A x \in Operators, v \in AllWorkers : Held(x, v)' = Held(x, v)
      /\ \A p \in Parts : Stands(p)' = Stands(p)
  BY <1>1, SamePlaces
<1>8. moving = {} /\ \A x \in Operators, v \in AllWorkers : phase[x][v] = "normal"
  BY <1>1, <1>3 DEF Placement, NothingMovesAtRest
<1>9. HeldWhereItBelongs'
  <2>1. \A p \in Parts : Owner(p, workers) \in AllWorkers
    BY <1>3, ConfigurationType DEF Types
  <2>2. \A x \in Operators, v \in AllWorkers : Held(x, v) \subseteq Parts
    BY DEF Held
  <2> QED BY <1>1, <1>3, <1>7, <1>8, <2>1, <2>2 DEF Placement, HeldWhereItBelongs, Clean
<1>10. GivesWhileCollecting' /\ FinishedTogether' /\ SentToOwner' /\ NothingMovesAtRest'
  BY <1>1, <1>3, <1>8 DEF Placement, GivesWhileCollecting, FinishedTogether, SentToOwner, NothingMovesAtRest
<1>11. SinglePlace'
  BY <1>1, <1>3, <1>7, SinglePlaceFrame
<1>12. Positions'
  BY <1>1, <1>3, <1>5, <1>7, PositionsFrame DEF Kept
<1>13. \A p \in Parts : Exhausted(p) => Exhausted(p)'
  <2>1. counts.scales \in Nat
    BY <1>3 DEF Types
  <2> QED BY <1>1, <1>5, <1>7, <2>1 DEF Exhausted
<1>14. Known'
  BY <1>1, <1>3, <1>13, KnownFrame
<1>15. NoRescaleYet'
  BY <1>3, <1>5 DEF NoRescaleYet, Types
<1> QED BY <1>6, <1>9, <1>10, <1>11, <1>12, <1>14, <1>15, Together DEF Placement
----------------------------------------------------------------------------
(* The broker, snapshots and restarts.                                     *)

\* The broker learns of a position of the part.
LEMMA AutoCommitStep ==
  ASSUME IInv, NEW w \in AllWorkers, NEW q \in Parts, AutoCommit(w, q)
  PROVE  IInv'
<1>1. /\ UNCHANGED <<flavour, workers, target, listed, toBuild, phase, give, moving, parts, marked, clients, wire,
                     maxSent, toSink, ahead, early, panicked, barred, snap, committed, log, counts>>
      /\ flavour = "kafka" /\ q \in Held("source", w)
  BY DEF AutoCommit, jobVars, moveVars, markVars, flowVars
<1>2. broker' = [broker EXCEPT ![q] = parts.source[w][q]]
  BY DEF AutoCommit
<1>3. Types /\ Placement /\ SinglePlace /\ Positions /\ Known
  BY DEF IInv, Positions, Known
<1>4. parts.source[w][q] \in Nat /\ parts.source[w][q] \in Stands(q)
  BY <1>1, <1>3, HeldType, StandsAt DEF Operators
<1>5. broker' \in [Parts -> Nat]
  BY <1>2, <1>3, <1>4 DEF Types
<1>6. \A p \in Parts : broker'[p] = broker[p] \/ broker'[p] \in Stands(p)
  BY <1>2, <1>3, <1>4 DEF Types
<1>7. Types'
  BY <1>1, <1>3, <1>5 DEF Types
<1>8. Placement' /\ SinglePlace'
  BY <1>1, <1>3, SamePlaces, PlacesFrame
<1>9. \A p \in Parts : Stands(p)' = Stands(p)
  BY <1>1, SamePlaces
<1>10. StatefulPositions' /\ EnoughRead'
  BY <1>1, <1>3 DEF StatefulPositions, EnoughRead
<1>11. ReachedPositions'
  BY <1>1, <1>3, <1>6, <1>9 DEF Positions, ReachedPositions
<1>12. \A p \in Parts : Exhausted(p) => Exhausted(p)'
  BY <1>1 DEF Exhausted
<1>13. Known'
  BY <1>1, <1>3, <1>12, KnownFrame
<1>14. NoRescaleYet'
  BY <1>1 DEF IInv, NoRescaleYet
<1> QED BY <1>7, <1>8, <1>10, <1>11, <1>13, <1>14, Together DEF Positions

\* Positions are all that snapshots have to do with.
LEMMA SnapshotFrame ==
  ASSUME IInv, UNCHANGED <<flavour, workers, target, listed, toBuild, phase, give, moving, parts, marked, clients,
                           wire, maxSent, toSink, ahead, early, panicked, log>>,
         counts'.scales = counts.scales,
         broker' \in [Parts -> Nat], snap' \in Snapshots, committed' \in Snapshots,
         counts' \in [scales : Nat, shrinks : Nat, snapshots : Nat, crashes : Nat],
         Positions'
  PROVE  IInv'
<1>1. Types /\ Placement /\ SinglePlace /\ Known
  BY DEF IInv, Known
<1>2. Types'
  BY <1>1 DEF Types
<1>3. Placement' /\ SinglePlace'
  BY <1>1, SamePlaces, PlacesFrame
<1>4. \A p \in Parts : Exhausted(p) => Exhausted(p)'
  BY SamePlaces DEF Exhausted
<1>5. Known'
  BY <1>1, <1>4, KnownFrame
<1>6. NoRescaleYet'
  BY DEF IInv, NoRescaleYet
<1> QED BY <1>2, <1>3, <1>5, <1>6, Together

LEMMA StartSnapshotStep == IInv /\ StartSnapshot => IInv'
<1> SUFFICES ASSUME IInv, StartSnapshot PROVE IInv'
  OBVIOUS
<1>1. /\ UNCHANGED <<flavour, workers, target, listed, toBuild, phase, give, moving, parts, marked, clients, wire,
                     maxSent, toSink, ahead, early, panicked, broker, committed, log>>
      /\ snap' = Blank(workers)
  BY DEF StartSnapshot, jobVars, moveVars, markVars, flowVars
<1>2. counts' = [counts EXCEPT !.snapshots = @ + 1]
  BY DEF StartSnapshot
<1>3. Types /\ Positions
  BY DEF IInv, Positions
<1>4. counts' \in [scales : Nat, shrinks : Nat, snapshots : Nat, crashes : Nat]
  BY <1>2, <1>3, CountsStep DEF Types
<1>5. counts'.scales = counts.scales /\ counts'.crashes = counts.crashes
  BY <1>2, <1>3 DEF Types
<1>6. broker' \in [Parts -> Nat] /\ snap' \in Snapshots /\ committed' \in Snapshots
  BY <1>1, <1>3, BlankType DEF Types
<1>7. \A p \in Parts : snap'.pos[p] = None /\ snap'.log[p] = <<>>
  BY <1>1 DEF Blank, NoParts
<1>8. \A p \in Parts : Stands(p)' = Stands(p)
  BY <1>1, SamePlaces
<1>9. StatefulPositions'
  BY <1>1, <1>3, <1>7, <1>8 DEF Positions, StatefulPositions
<1>10. ReachedPositions'
  BY <1>1, <1>3, <1>5, <1>7, <1>8 DEF Positions, ReachedPositions, Chained
<1>11. EnoughRead'
  BY <1>1, <1>3, <1>7, <1>8 DEF Positions, EnoughRead
<1> QED BY <1>1, <1>4, <1>5, <1>6, <1>9, <1>10, <1>11, SnapshotFrame DEF Positions

LEMMA CommitSnapshotStep == IInv /\ CommitSnapshot => IInv'
<1> SUFFICES ASSUME IInv, CommitSnapshot PROVE IInv'
  OBVIOUS
<1>1. /\ UNCHANGED <<flavour, workers, target, listed, toBuild, phase, give, moving, parts, marked, clients, wire,
                     maxSent, toSink, ahead, early, panicked, broker, snap, log, counts>>
      /\ committed' = snap
  BY DEF CommitSnapshot, jobVars, moveVars, markVars, flowVars
<1>2. Types /\ Positions
  BY DEF IInv, Positions
<1>3. \A p \in Parts : Stands(p)' = Stands(p)
  BY <1>1, SamePlaces
<1>4. StatefulPositions'
  BY <1>1, <1>2, <1>3 DEF Positions, StatefulPositions
<1>5. ReachedPositions'
  BY <1>1, <1>2, <1>3 DEF Positions, ReachedPositions
<1>6. EnoughRead'
  BY <1>1, <1>2, <1>3 DEF Positions, EnoughRead
<1>7. /\ broker' \in [Parts -> Nat] /\ snap' \in Snapshots /\ committed' \in Snapshots
      /\ counts' \in [scales : Nat, shrinks : Nat, snapshots : Nat, crashes : Nat]
  BY <1>1, <1>2 DEF Types
<1> QED BY <1>1, <1>4, <1>5, <1>6, <1>7, SnapshotFrame DEF Positions
\* What a chain has reached it has reached from the record before.
LEMMA ReachedBefore ==
  ASSUME NEW l \in Seq(Nat), Chained(l), NEW n \in Nat, n > 0, Reached(l, n)
  PROVE  Reached(l, n - 1)
<1>1. PICK i \in 1..Len(l) : l[i] = n
  BY DEF Reached
<1>2. n = 1 \/ \E j \in 1..(i - 1) : l[j] = n - 1
  BY <1>1 DEF Chained
<1>3. Len(l) \in Nat
  OBVIOUS
<1> QED BY <1>1, <1>2, <1>3 DEF Reached

\* A partition is persisted together with what has been read of it; what Kafka
\* commits is the record before the position.
LEMMA OnBarrierStep ==
  ASSUME IInv, NEW w \in AllWorkers, NEW acked \in SUBSET Parts, OnBarrier(w, acked)
  PROVE  IInv'
<1>1. /\ UNCHANGED <<flavour, workers, target, listed, toBuild, phase, give, moving, parts, marked, clients, wire,
                     maxSent, toSink, ahead, early, panicked, committed, log, counts>>
      /\ \A p \in acked : p \in Held("source", w) /\ flavour = "kafka" /\ parts.source[w][p] > 0
  BY DEF OnBarrier, jobVars, moveVars, markVars, flowVars
<1>2. /\ snap' = [snap EXCEPT
            !.pos = [p \in Parts |-> IF p \in Held("source", w) THEN parts.source[w][p] ELSE snap.pos[p]],
            !.log = [p \in Parts |-> IF p \in Held("source", w) THEN log[p] ELSE snap.log[p]]]
      /\ broker' = [p \in Parts |-> IF p \in acked THEN parts.source[w][p] - 1 ELSE broker[p]]
  BY DEF OnBarrier, KafkaSnapshot
<1>3. Types /\ Positions
  BY DEF IInv, Positions
<1>4. \A p \in Parts : p \in Held("source", w) =>
         parts.source[w][p] \in Nat /\ parts.source[w][p] \in Stands(p) /\ parts.source[w][p] # None
  BY <1>3, HeldType, StandsAt DEF Operators
<1>5. snap.pos \in Position /\ snap.log \in [Parts -> Seq(Nat)] /\ snap.workers \in Configurations
  BY <1>3 DEF Types, Snapshots
<1>6. snap' = [pos     |-> [p \in Parts |-> IF p \in Held("source", w) THEN parts.source[w][p] ELSE snap.pos[p]],
               log     |-> [p \in Parts |-> IF p \in Held("source", w) THEN log[p] ELSE snap.log[p]],
               workers |-> snap.workers]
  BY <1>2, <1>3 DEF Types, Snapshots
<1>7. snap' \in Snapshots
  <2>1. [p \in Parts |-> IF p \in Held("source", w) THEN parts.source[w][p] ELSE snap.pos[p]] \in Position
    BY <1>4, <1>5 DEF Position, State
  <2>2. [p \in Parts |-> IF p \in Held("source", w) THEN log[p] ELSE snap.log[p]] \in [Parts -> Seq(Nat)]
    BY <1>3, <1>5 DEF Types
  <2> QED BY <1>5, <1>6, <2>1, <2>2 DEF Snapshots
<1>8. \A p \in Parts :
         IF p \in Held("source", w)
         THEN snap'.pos[p] \in Stands(p) /\ snap'.pos[p] # None /\ snap'.log[p] = log[p]
         ELSE snap'.pos[p] = snap.pos[p] /\ snap'.log[p] = snap.log[p]
  BY <1>4, <1>6
<1>9. broker' \in [Parts -> Nat]
  BY SMTT(30), <1>1, <1>2, <1>3, <1>4 DEF Types
<1>10. \A p \in Parts : Stands(p)' = Stands(p)
  BY <1>1, SamePlaces
<1>11. StatefulPositions'
  BY <1>1, <1>3, <1>8, <1>10 DEF Positions, StatefulPositions
<1>12. EnoughRead'
  BY <1>1, <1>3, <1>8, <1>10 DEF Positions, EnoughRead
<1>13. ReachedPositions'
  <2> SUFFICES ASSUME flavour = "kafka" => counts.crashes = 0, NEW p \in Parts
               PROVE  /\ Chained(log[p]) /\ \A n \in Stands(p) : Reached(log[p], n)
                      /\ flavour = "kafka" => Reached(log[p], broker'[p])
                      /\ \A s \in {snap', committed'} :
                           Chained(s.log[p]) /\ (s.pos[p] # None => Reached(s.log[p], s.pos[p]))
    BY <1>1, <1>10 DEF ReachedPositions
  <2>1. /\ Chained(log[p]) /\ \A n \in Stands(p) : Reached(log[p], n)
        /\ flavour = "kafka" => Reached(log[p], broker[p])
        /\ \A s \in {snap, committed} :
             Chained(s.log[p]) /\ (s.pos[p] # None => Reached(s.log[p], s.pos[p]))
    BY <1>3 DEF Positions, ReachedPositions
  <2>2. Reached(log[p], broker'[p]) \/ flavour # "kafka"
    <3>1. CASE p \in acked
      <4>1. broker'[p] = parts.source[w][p] - 1
        BY <1>2, <3>1
      <4>2. log[p] \in Seq(Nat)
        BY <1>3 DEF Types
      <4> QED BY <1>1, <1>4, <2>1, <3>1, <4>1, <4>2, ReachedBefore
    <3>2. CASE p \notin acked
      BY <1>2, <2>1, <3>2
    <3> QED BY <3>1, <3>2
  <2>3. Chained(snap'.log[p]) /\ (snap'.pos[p] # None => Reached(snap'.log[p], snap'.pos[p]))
    BY <1>8, <2>1
  <2> QED BY <1>1, <2>1, <2>2, <2>3
<1>14. counts' \in [scales : Nat, shrinks : Nat, snapshots : Nat, crashes : Nat] /\ committed' \in Snapshots
  BY <1>1, <1>3 DEF Types
<1> QED BY <1>1, <1>7, <1>9, <1>11, <1>12, <1>13, <1>14, SnapshotFrame DEF Positions

\* A restart puts every partition that the snapshot has with its owner.
LEMMA RestartStep == IInv /\ Restart => IInv'
<1> SUFFICES ASSUME IInv, Restart PROVE IInv'
  OBVIOUS
<1> DEFINE c == committed
<1>1. /\ workers' = c.workers /\ target' = c.workers /\ listed' = FALSE /\ toBuild' = {} /\ moving' = {}
      /\ log' = c.log /\ snap' = c /\ UNCHANGED <<flavour, broker, committed>>
  BY DEF Restart, BuildFrom
<1>2. /\ phase' = [o \in Operators |-> [w \in AllWorkers |-> "normal"]]
      /\ give' = [o \in Operators |-> [w \in AllWorkers |-> {}]]
      /\ marked' = [w \in AllWorkers |-> {}]
      /\ clients' = [w \in AllWorkers |-> c.workers \ {w}]
      /\ wire' = [v \in AllWorkers |-> [w \in AllWorkers |-> <<>>]]
      /\ maxSent' = [w \in AllWorkers |-> FALSE]
      /\ toSink' = [p \in Parts |-> 0] /\ ahead' = [p \in Parts |-> 0] /\ early' = {} /\ panicked' = {}
  BY DEF Restart, BuildFrom
<1> DEFINE built(w, p) == IF w \in c.workers /\ c.pos[p] # None /\ Owner(p, c.workers) = w
                          THEN BuildPart(p, c.pos[p]) ELSE None
<1>3. parts' = [source |-> [w \in AllWorkers |-> [p \in Parts |-> built(w, p)]], sink |-> NewSink]
  BY DEF Restart, BuildFrom
<1>4. counts' = [counts EXCEPT !.crashes = @ + 1]
  BY DEF Restart
<1>5. Types /\ Positions
  BY DEF IInv, Positions
<1>6. /\ c.pos \in Position /\ c.log \in [Parts -> Seq(Nat)] /\ c.workers \in Configurations
      /\ c.workers \subseteq AllWorkers /\ \A p \in Parts : c.pos[p] \in State
  BY <1>5, ConfigurationType DEF Types, Snapshots, Position
<1>7. \A p \in Parts : BuildPart(p, c.pos[p]) \in Nat
  BY <1>5, <1>6, BuildPartType
<1>8. \A w \in AllWorkers, p \in Parts : built(w, p) \in State
  BY <1>7 DEF State
<1>9. parts' \in [Operators -> [AllWorkers -> Position]]
  <2> HIDE DEF built
  <2>1. [w \in AllWorkers |-> [p \in Parts |-> built(w, p)]] \in [AllWorkers -> Position]
    BY <1>8 DEF Position
  <2>2. NewSink \in [AllWorkers -> Position]
    BY DEF NewSink, NoParts, Position, State
  <2> QED BY <1>3, <2>1, <2>2 DEF Operators
<1>10. Types'
  <2>1. counts' \in [scales : Nat, shrinks : Nat, snapshots : Nat, crashes : Nat]
    BY <1>4, <1>5, CountsStep DEF Types
  <2>2. /\ phase' \in [Operators -> [AllWorkers -> {"normal", "collect", "finished"}]]
        /\ give' \in [Operators -> [AllWorkers -> SUBSET Parts]]
        /\ marked' \in [AllWorkers -> SUBSET Parts]
    BY <1>2
  <2>3. /\ clients' \in [AllWorkers -> SUBSET AllWorkers]
        /\ maxSent' \in [AllWorkers -> BOOLEAN] /\ toSink' \in [Parts -> Nat]
        /\ ahead' \in [Parts -> Nat] /\ early' \subseteq Parts /\ panicked' \subseteq AllWorkers
    BY <1>2, <1>6
  <2>4. wire' \in [AllWorkers -> [AllWorkers -> Seq(Parts)]]
    BY <1>2
  <2> QED BY <1>1, <1>5, <1>6, <1>9, <2>1, <2>2, <2>3, <2>4 DEF Types
<1>11. \A w \in AllWorkers : NewSink[w] = NoParts
  BY DEF NewSink
<1>12. \A p \in Parts, w \in AllWorkers :
          /\ parts'.source[w][p] = built(w, p)
          /\ parts'.sink[w][p] = None
  <2> HIDE DEF built
  <2> QED BY <1>3, <1>11 DEF NoParts
<1>13. \A o \in Operators, w \in AllWorkers : \A p : p \in Held(o, w)' =>
          /\ o = "source" /\ p \in Parts /\ w \in c.workers /\ c.pos[p] # None /\ Owner(p, c.workers) = w
  BY <1>12 DEF Held, Operators
<1>14. HeldWhereItBelongs'
  BY <1>1, <1>2, <1>13 DEF HeldWhereItBelongs, Active
<1>15. GivesWhileCollecting' /\ FinishedTogether' /\ SentToOwner' /\ NothingMovesAtRest'
  BY <1>1, <1>2 DEF GivesWhileCollecting, FinishedTogether, SentToOwner, NothingMovesAtRest
<1>16. SinglePlace'
  BY <1>1, <1>13 DEF SinglePlace
<1>17. \A p \in Parts : Stands(p)' = IF c.pos[p] = None THEN {} ELSE {BuildPart(p, c.pos[p])}
  <2> SUFFICES ASSUME NEW p \in Parts
               PROVE  Stands(p)' = IF c.pos[p] = None THEN {} ELSE {BuildPart(p, c.pos[p])}
    OBVIOUS
  <2>1. Stands(p)' = {n \in Nat : \E w \in AllWorkers : built(w, p) = n}
    BY <1>1, <1>12 DEF Stands
  <2>2. Owner(p, c.workers) \in c.workers
    BY <1>6, ConfigurationType
  <2> QED BY <1>6, <1>7, <2>1, <2>2, PartitionsAssumption
<1>18. \A p \in Parts : c.pos[p] \in Nat \/ c.pos[p] = None
  BY <1>6 DEF State
<1>19. StatefulPositions'
  BY <1>1, <1>5, <1>17, <1>18 DEF Positions, StatefulPositions, BuildPart, BuildStateful
<1>a. \A p \in Parts : flavour # "kafka" /\ c.pos[p] # None => BuildPart(p, c.pos[p]) \in {0, c.pos[p]}
  BY <1>5, PartitionsAssumption DEF Types, BuildPart, BuildStateful, BuildStateless
<1>20. EnoughRead'
  <2> SUFFICES ASSUME flavour # "kafka", NEW p \in Parts
               PROVE  /\ \A n \in Stands(p)' : Len(c.log[p]) >= n
                      /\ c.pos[p] # None => Len(c.log[p]) >= c.pos[p]
    BY <1>1 DEF EnoughRead
  <2>1. c.pos[p] # None => Len(c.log[p]) >= c.pos[p]
    BY <1>5 DEF Positions, EnoughRead
  <2>2. Len(c.log[p]) >= 0
    BY <1>6
  <2> QED BY <1>17, <1>a, <2>1, <2>2
<1>21. ReachedPositions'
  <2>1. counts'.crashes # 0
    BY <1>4, <1>5 DEF Types
  <2> SUFFICES ASSUME flavour # "kafka", NEW p \in Parts
               PROVE  /\ Chained(c.log[p]) /\ \A n \in Stands(p)' : Reached(c.log[p], n)
                      /\ c.pos[p] # None => Reached(c.log[p], c.pos[p])
    BY <1>1, <2>1 DEF ReachedPositions
  <2>2. Chained(c.log[p]) /\ (c.pos[p] # None => Reached(c.log[p], c.pos[p]))
    BY <1>5 DEF Positions, ReachedPositions
  <2>3. Reached(c.log[p], 0)
    BY DEF Reached
  <2> QED BY <1>17, <1>a, <2>2, <2>3
<1>22. Known'
  BY <1>2 DEF Known, KnownIsExhausted, MaxAfterAll
<1>23. NoRescaleYet'
  BY <1>1 DEF NoRescaleYet
<1> QED BY <1>10, <1>14, <1>15, <1>16, <1>19, <1>20, <1>21, <1>22, <1>23, Together DEF Placement, Positions
----------------------------------------------------------------------------
(* Steps that give a worker a partition.                                   *)

\* One partition of one worker changes.
Put(o, w, p, x) == [parts EXCEPT ![o][w][p] = x]

LEMMA CellStep ==
  ASSUME Types, NEW o \in Operators, NEW w \in AllWorkers, NEW p \in Parts, NEW x \in State,
         parts' = Put(o, w, p, x)
  PROVE  /\ parts' \in [Operators -> [AllWorkers -> Position]]
         /\ \A y \in Operators, v \in AllWorkers, q \in Parts :
              parts'[y][v][q] = IF y = o /\ v = w /\ q = p THEN x ELSE parts[y][v][q]
         /\ \A y \in Operators, v \in AllWorkers :
              Held(y, v)' = IF y = o /\ v = w
                            THEN (IF x = None THEN Held(y, v) \ {p} ELSE Held(y, v) \cup {p})
                            ELSE Held(y, v)
<1>1. parts \in [Operators -> [AllWorkers -> [Parts -> State]]]
  BY DEF Types, Position
<1>2. parts' \in [Operators -> [AllWorkers -> [Parts -> State]]]
  BY <1>1 DEF Put
<1>3. \A y \in Operators, v \in AllWorkers, q \in Parts :
         parts'[y][v][q] = IF y = o /\ v = w /\ q = p THEN x ELSE parts[y][v][q]
  BY <1>1 DEF Put
<1>4. \A y \in Operators, v \in AllWorkers :
         Held(y, v)' = IF y = o /\ v = w
                       THEN (IF x = None THEN Held(y, v) \ {p} ELSE Held(y, v) \cup {p})
                       ELSE Held(y, v)
  BY <1>3 DEF Held
<1> QED BY <1>2, <1>3, <1>4 DEF Position

\* A message is delivered to a worker that has the partition from then on: where
\* the part is or may be, if it is to stay in one place.
LEMMA DeliveryKeepsPlaces ==
  ASSUME Types, Placement, SinglePlace, UNCHANGED <<workers, target, phase, give, moving>>,
         early \subseteq early', NEW w \in AllWorkers, w # None,
         NEW o \in Operators, NEW p \in Parts, Clean(o, p)' => w = Home(o, p),
         \A x \in Operators, v \in AllWorkers :
            Held(x, v)' = IF x = o /\ v = w THEN Held(x, v) \cup {p} ELSE Held(x, v)
  PROVE  Placement' /\ SinglePlace'
<1>1. \A x \in Operators, q \in Parts : Clean(x, q)' => Clean(x, q)
  BY DEF Clean
<1>2. Clean(o, p)' =>
         \/ p \in Held(o, w)
         \/ /\ \A v \in AllWorkers : p \notin Held(o, v)
            /\ \A m \in moving : ~(m.op = o /\ m.part = p)
            /\ \/ w = Owner(p, workers) /\ phase[o][w] = "normal"
               \/ w = Owner(p, target) /\ phase[o][Owner(p, workers)] # "normal"
  BY <1>1, HomeIsRight DEF Placement
<1>3. \A x \in Operators, v \in AllWorkers : \A q \in Held(x, v)' :
         q \in Parts /\ (q \in Held(x, v) \/ (x = o /\ v = w /\ q = p))
  BY DEF Held
<1>4. HeldWhereItBelongs'
  <2> SUFFICES ASSUME NEW x \in Operators, NEW v \in AllWorkers, NEW q \in Held(x, v)', Clean(x, q)'
               PROVE  \/ /\ v = Owner(q, workers)
                         /\ phase[x][v] = "normal" \/ Owner(q, target) = v \/ q \in give[x][v]
                      \/ v = Owner(q, target) /\ phase[x][Owner(q, workers)] # "normal"
    BY DEF HeldWhereItBelongs
  <2>1. CASE q \in Held(x, v)
    <3>1. Clean(x, q)
      BY <1>1, <1>3
    <3> QED BY <2>1, <3>1 DEF Placement, HeldWhereItBelongs
  <2>2. CASE q \notin Held(x, v)
    <3>1. x = o /\ v = w /\ q = p /\ Clean(o, p)'
      BY <1>3, <2>2
    <3> QED BY <1>2, <2>2, <3>1
  <2> QED BY <2>1, <2>2
<1>5. GivesWhileCollecting'
  BY DEF Placement, GivesWhileCollecting, Active
<1>6. FinishedTogether' /\ SentToOwner' /\ NothingMovesAtRest'
  <2>1. \A m \in moving : Clean(m.op, m.part)' => Clean(m.op, m.part)
    BY <1>1 DEF Types, Acquires
  <2>2. SentToOwner'
    BY <2>1 DEF Placement, SentToOwner
  <2> QED BY <2>2 DEF Placement, FinishedTogether, NothingMovesAtRest, Active
<1>7. SinglePlace'
  <2>1. \A m \in moving : m.op \in Operators /\ m.part \in Parts
    BY DEF Types, Acquires
  <2>2. \A x \in Operators, u, v \in AllWorkers : \A q \in Held(x, u)' :
           Clean(x, q)' /\ q \in Held(x, v)' => u = v
    <3> SUFFICES ASSUME NEW x \in Operators, NEW u \in AllWorkers, NEW v \in AllWorkers,
                        NEW q \in Held(x, u)', Clean(x, q)', q \in Held(x, v)'
                 PROVE  u = v
      OBVIOUS
    <3>1. Clean(x, q)
      BY <1>1, <1>3
    <3>2. CASE q \in Held(x, u) /\ q \in Held(x, v)
      BY <3>1, <3>2 DEF SinglePlace
    <3>3. CASE q \notin Held(x, u) \/ q \notin Held(x, v)
      <4>1. x = o /\ q = p
        BY <1>3, <3>3
      <4>2. CASE p \in Held(o, w)
        <5>1. \A y \in AllWorkers : Held(o, y)' = Held(o, y)
          BY <4>2
        <5> QED BY <3>3, <4>1, <5>1
      <4>3. CASE p \notin Held(o, w)
        BY <1>2, <1>3, <4>1, <4>3
      <4> QED BY <4>2, <4>3
    <3> QED BY <3>2, <3>3
  <2>3. \A m \in moving, v \in AllWorkers : Clean(m.op, m.part)' => m.part \notin Held(m.op, v)'
    <3> SUFFICES ASSUME NEW m \in moving, NEW v \in AllWorkers, Clean(m.op, m.part)', m.part \in Held(m.op, v)'
                 PROVE  FALSE
      OBVIOUS
    <3>1. m.part \notin Held(m.op, v)
      BY <1>1, <2>1 DEF SinglePlace
    <3>2. m.op = o /\ v = w /\ m.part = p
      BY <1>3, <2>1, <3>1
    <3> QED BY <1>2, <3>1, <3>2
  <2>4. \A m, n \in moving : Clean(m.op, m.part)' /\ m.op = n.op /\ m.part = n.part => m = n
    BY <1>1, <2>1 DEF SinglePlace
  <2> QED BY <2>2, <2>3, <2>4 DEF SinglePlace
<1> QED BY <1>4, <1>5, <1>6, <1>7 DEF Placement

\* A worker counts a record, where the part is or ahead of its state.
LEMMA RecordTaken ==
  ASSUME IInv, NEW p \in Parts, NEW w \in AllWorkers, w # None, parts' = Counts(w, p),
         UNCHANGED <<flavour, workers, target, listed, toBuild, phase, give, moving, panicked, marked, clients,
                     wire, maxSent, broker, snap, committed, log, counts>>,
         toSink' \in [Parts -> Nat], ahead' \in [Parts -> Nat],
         early \subseteq early', early' \subseteq Parts, Clean("sink", p)' => w = Home("sink", p)
  PROVE  IInv'
<1>1. Types /\ Placement /\ SinglePlace /\ Positions /\ Known /\ "sink" \in Operators
  BY DEF IInv, Positions, Known, Operators
<1> DEFINE x == IF parts.sink[w][p] = None THEN 1 ELSE parts.sink[w][p] + 1
<1>2. parts' = Put("sink", w, p, x)
  BY DEF Put, Counts
<1>3. x \in Nat /\ x \in State /\ x # None
  BY <1>1, HeldType, PartitionsAssumption DEF State
<1> HIDE DEF x
<1>4. /\ parts' \in [Operators -> [AllWorkers -> Position]]
      /\ \A y \in Operators, v \in AllWorkers, q \in Parts :
            parts'[y][v][q] = IF y = "sink" /\ v = w /\ q = p THEN x ELSE parts[y][v][q]
      /\ \A y \in Operators, v \in AllWorkers :
            Held(y, v)' = IF y = "sink" /\ v = w THEN Held(y, v) \cup {p} ELSE Held(y, v)
  BY <1>1, <1>2, <1>3, CellStep
<1>5. Types'
  BY <1>1, <1>4 DEF Types
<1>6. Placement' /\ SinglePlace'
  BY <1>1, <1>4, DeliveryKeepsPlaces
<1>7. \A q \in Parts : Stands(q)' = Stands(q)
  <2>1. \A v \in AllWorkers, q \in Parts : parts'.source[v][q] = parts.source[v][q]
    BY <1>4 DEF Operators
  <2> QED BY <2>1 DEF Stands
<1>8. Positions'
  BY <1>1, <1>7, PositionsFrame DEF Kept
<1>9. \A q \in Parts : Exhausted(q) => Exhausted(q)'
  BY <1>1, <1>7, ExhaustedFrame
<1>10. Known'
  BY <1>1, <1>9, KnownFrame
<1>11. NoRescaleYet'
  BY DEF IInv, NoRescaleYet
<1> QED BY <1>5, <1>6, <1>8, <1>10, <1>11, Together

LEMMA SinkOnDataStep ==
  ASSUME IInv, NEW p \in Parts, SinkOnData(p)
  PROVE  IInv'
<1> DEFINE w == Home("sink", p)
<1>1. /\ UNCHANGED <<flavour, workers, target, listed, toBuild, phase, give, moving, panicked, marked, clients,
                     wire, maxSent, broker, snap, committed, log, counts, ahead, early>>
      /\ toSink[p] > 0 /\ w # None /\ toSink' = [toSink EXCEPT ![p] = @ - 1] /\ parts' = Counts(w, p)
  BY DEF SinkOnData, jobVars, moveVars, markVars, snapVars
<1>2. Types /\ HeldWhereItBelongs /\ SentToOwner /\ "sink" \in Operators
  BY DEF IInv, Placement, Operators
<1>3. w \in AllWorkers
  BY <1>1, <1>2, HomeIsRight, ActiveType
<1>4. toSink' \in [Parts -> Nat] /\ ahead' \in [Parts -> Nat] /\ early' \subseteq Parts
  BY <1>1, <1>2 DEF Types
<1> QED BY <1>1, <1>3, <1>4, RecordTaken

LEMMA SinkOnDataAheadStep ==
  ASSUME IInv, NEW p \in Parts, SinkOnDataAhead(p)
  PROVE  IInv'
<1>1. PICK w \in Takers(p) :
        /\ ahead[p] > 0 /\ w # None /\ ahead' = [ahead EXCEPT ![p] = @ - 1] /\ parts' = Counts(w, p)
        /\ early' = IF w = Home("sink", p) THEN early ELSE early \cup {p}
  BY DEF SinkOnDataAhead
<1>2. UNCHANGED <<flavour, workers, target, listed, toBuild, phase, give, moving, panicked, marked, clients,
                  wire, maxSent, broker, snap, committed, log, counts, toSink>>
  BY DEF SinkOnDataAhead, jobVars, moveVars, markVars, snapVars
<1>3. Types /\ HeldWhereItBelongs /\ SentToOwner /\ "sink" \in Operators
  BY DEF IInv, Placement, Operators
<1>4. w \in AllWorkers
  BY <1>1, <1>3, TakersType
<1>5. toSink' \in [Parts -> Nat] /\ ahead' \in [Parts -> Nat] /\ early' \subseteq Parts /\ early \subseteq early'
  BY <1>1, <1>2, <1>3 DEF Types
<1>6. Clean("sink", p)' => w = Home("sink", p)
  BY <1>1 DEF Clean
<1> QED BY <1>1, <1>2, <1>4, <1>5, <1>6, RecordTaken

\* A part that is built begins at the beginning, or where the broker is; nothing
\* of it has been read if the source is stateful.
LEMMA OnDataStep ==
  ASSUME IInv, NEW p \in Parts, OnData(p)
  PROVE  IInv'
<1> DEFINE w == Home("source", p)
<1>1. /\ UNCHANGED <<flavour, workers, target, listed, phase, give, moving, marked, clients, wire,
                     maxSent, toSink, ahead, early, panicked, broker, barred, snap, committed, log, counts>>
      /\ w # None /\ toBuild' = toBuild \ {p}
      /\ parts' = IF p \in Held("source", w) THEN parts
                  ELSE [parts EXCEPT !["source"][w][p] = BuildPart(p, None)]
  BY DEF OnData, moveVars, markVars, snapVars, flowVars
<1>2. Types /\ Placement /\ SinglePlace /\ Positions /\ Known
  BY DEF IInv, Positions, Known
<1>3. /\ w \in AllWorkers
      /\ p \notin Held("source", w) =>
           /\ \A v \in AllWorkers : p \notin Held("source", v)
           /\ \A m \in moving : ~(m.op = "source" /\ m.part = p)
  <2>1. Clean("source", p) /\ "source" \in Operators
    BY DEF Clean, Operators
  <2> QED BY <1>1, <1>2, <2>1, HomeIsRight, ActiveType DEF Placement
<1>4. NoRescaleYet'
  BY <1>1 DEF IInv, NoRescaleYet
<1> HIDE DEF w
<1>5. CASE p \in Held("source", w)
  <2>1. Types'
    BY <1>1, <1>2, <1>5 DEF Types
  <2>2. Placement' /\ SinglePlace'
    BY <1>1, <1>2, <1>5, SamePlaces, PlacesFrame
  <2>3. Positions' /\ Known'
    BY <1>1, <1>5, <2>1, QuietStep DEF Kept
  <2> QED BY <1>4, <2>1, <2>2, <2>3, Together
<1>6. CASE p \notin Held("source", w)
  <2> DEFINE x == BuildPart(p, None)
  <2>1. x \in Nat /\ x \in State /\ x # None
    BY <1>2, BuildPartType, PartitionsAssumption DEF State
  <2>2. /\ flavour # "kafka" => x = 0
        /\ flavour = "kafka" => x = broker[p]
    BY <1>2, PartitionsAssumption DEF Types, BuildPart, BuildStateful, BuildStateless, BuildKafka
  <2>3. parts' = Put("source", w, p, x)
    BY <1>1, <1>6 DEF Put
  <2> HIDE DEF x
  <2>4. /\ parts' \in [Operators -> [AllWorkers -> Position]]
        /\ \A y \in Operators, v \in AllWorkers, q \in Parts :
              parts'[y][v][q] = IF y = "source" /\ v = w /\ q = p THEN x ELSE parts[y][v][q]
        /\ \A y \in Operators, v \in AllWorkers :
              Held(y, v)' = IF y = "source" /\ v = w THEN Held(y, v) \cup {p} ELSE Held(y, v)
    <3>1. "source" \in Operators
      BY DEF Operators
    <3> QED BY <1>2, <1>3, <2>1, <2>3, <3>1, CellStep
  <2>5. Types'
    BY <1>1, <1>2, <2>4 DEF Types
  <2>6. Placement' /\ SinglePlace'
    <3>1. "source" \in Operators /\ early \subseteq early' /\ w = Home("source", p)
      BY <1>1 DEF w, Operators
    <3> QED BY <1>1, <1>2, <1>3, <2>4, <3>1, DeliveryKeepsPlaces
  <2>7. Stands(p) = {} /\ Stands(p)' = {x} /\ \A q \in Parts \ {p} : Stands(q)' = Stands(q)
    <3>1. \A v \in AllWorkers, q \in Parts :
             parts'.source[v][q] = IF v = w /\ q = p THEN x ELSE parts.source[v][q]
      BY <2>4 DEF Operators
    <3>2. \A v \in AllWorkers : parts.source[v][p] = None
      BY <1>2, <1>3, <1>6, HeldType DEF Operators
    <3>3. None \notin Nat
      BY PartitionsAssumption
    <3>4. Stands(p) = {}
      BY <1>3, <1>6, <3>2, <3>3 DEF Stands
    <3>5. Stands(p)' = {x}
      BY <1>1, <1>3, <1>6, <2>1, <3>1, <3>2, <3>3 DEF Stands
    <3>6. \A q \in Parts \ {p} : Stands(q)' = Stands(q)
      BY <1>1, <3>1 DEF Stands
    <3> QED BY <3>4, <3>5, <3>6
  <2>8. log[p] \in Seq(Nat)
    BY <1>2 DEF Types
  <2>9. StatefulPositions'
    <3>1. flavour = "stateful" => log[p] = <<>> /\ InOrder(log[p], x)
      BY <1>2, <2>2, <2>7, PartitionsAssumption DEF Positions, StatefulPositions, InOrder
    <3> QED BY <1>1, <1>2, <2>7, <3>1 DEF Positions, StatefulPositions
  <2>10. ReachedPositions'
    BY <1>1, <1>2, <2>2, <2>7 DEF Positions, ReachedPositions, Reached
  <2>11. EnoughRead'
    BY <1>1, <1>2, <2>2, <2>7, <2>8 DEF Positions, EnoughRead
  <2>12. \A q \in Parts : Exhausted(q) => Exhausted(q)'
    BY <1>1, <2>7 DEF Exhausted
  <2>13. Known'
    BY <1>1, <1>2, <2>12, KnownFrame
  <2> QED BY <1>4, <2>5, <2>6, <2>9, <2>10, <2>11, <2>13, Together DEF Positions
<1> QED BY <1>5, <1>6
----------------------------------------------------------------------------
(* Steps that move a partition.                                            *)

\* A worker that panics moves nothing.
LEMMA PanicStep ==
  ASSUME IInv, NEW o \in Operators, NEW w \in AllWorkers, NEW p \in Parts, OnCollect(o, w, p),
         Owner(p, target) = w
  PROVE  IInv'
<1>1. /\ UNCHANGED <<flavour, workers, target, listed, toBuild, phase, give, moving, parts, marked, clients,
                     wire, maxSent, toSink, ahead, early, broker, barred, snap, committed, log, counts>>
      /\ panicked' = panicked \cup {w}
  BY DEF OnCollect, jobVars, markVars, snapVars, flowVars
<1>2. Types'
  BY <1>1 DEF IInv, Types
<1>3. Placement' /\ SinglePlace'
  BY <1>1, SamePlaces, PlacesFrame DEF IInv
<1>4. Positions' /\ Known'
  BY <1>1, <1>2, QuietStep DEF Kept
<1>5. NoRescaleYet'
  BY <1>1 DEF IInv, NoRescaleYet
<1> QED BY <1>2, <1>3, <1>4, <1>5, Together

\* A partition leaves its worker and stands in the message where it stood.
LEMMA OnCollectStep ==
  ASSUME IInv, NEW o \in Operators, NEW w \in AllWorkers, NEW p \in Parts, OnCollect(o, w, p),
         Owner(p, target) # w
  PROVE  IInv'
<1> DEFINE m0 == [op |-> o, part |-> p, to |-> Owner(p, target), state |-> parts[o][w][p]]
<1>1. /\ UNCHANGED <<flavour, workers, target, listed, toBuild, phase, marked, clients, wire, maxSent,
                     toSink, ahead, early, panicked, broker, barred, snap, committed, log, counts>>
      /\ p \in give[o][w]
  BY DEF OnCollect, jobVars, markVars, snapVars, flowVars
<1>2. give' = [give EXCEPT ![o][w] = @ \ {p}]
  BY DEF OnCollect
<1>3. moving' = moving \cup {m0}
  BY DEF OnCollect, Collected, SourceState, SinkState, Operators
<1>4. parts' = Put(o, w, p, None)
  BY DEF OnCollect, Put
<1>5. Types /\ Placement /\ SinglePlace /\ Positions /\ Known
  BY DEF IInv, Positions, Known
<1>6. w \in Active /\ phase[o][w] # "normal" /\ p \in Held(o, w) /\ Active \subseteq AllWorkers
  BY <1>1, <1>5, ActiveType DEF Placement, GivesWhileCollecting
<1>7. parts[o][w][p] \in Nat /\ Owner(p, target) \in target /\ target \subseteq AllWorkers
  BY <1>5, <1>6, HeldType, ConfigurationType DEF Types
<1>8. m0 \in Acquires /\ m0.op = o /\ m0.part = p /\ m0.to = Owner(p, target) /\ m0.state = parts[o][w][p]
  BY <1>7 DEF Acquires
<1> HIDE DEF m0
<1>9. /\ parts' \in [Operators -> [AllWorkers -> Position]]
      /\ \A y \in Operators, v \in AllWorkers, q \in Parts :
            parts'[y][v][q] = IF y = o /\ v = w /\ q = p THEN None ELSE parts[y][v][q]
      /\ \A y \in Operators, v \in AllWorkers :
            Held(y, v)' = IF y = o /\ v = w THEN Held(y, v) \ {p} ELSE Held(y, v)
  <2>1. None \in State
    BY DEF State
  <2> QED BY <1>4, <1>5, <2>1, CellStep
<1>10. \A y \in Operators, v \in AllWorkers :
          give'[y][v] = IF y = o /\ v = w THEN give[y][v] \ {p} ELSE give[y][v]
  BY <1>2, <1>5 DEF Types
<1>11. Types'
  <2>1. give' \in [Operators -> [AllWorkers -> SUBSET Parts]]
    BY <1>2, <1>5 DEF Types
  <2>2. moving' \subseteq Acquires
    BY <1>3, <1>5, <1>8 DEF Types
  <2> QED BY <1>1, <1>5, <1>9, <2>1, <2>2 DEF Types
<1>a. \A y \in Operators, v \in AllWorkers : \A q :
         /\ q \in Held(y, v)' <=> q \in Held(y, v) /\ ~(y = o /\ v = w /\ q = p)
         /\ q \in give'[y][v] <=> q \in give[y][v] /\ ~(y = o /\ v = w /\ q = p)
  BY <1>9, <1>10
<1>b. \A y \in Operators, q \in Parts : Clean(y, q)' <=> Clean(y, q)
  BY <1>1 DEF Clean
<1>12. HeldWhereItBelongs'
  <2> SUFFICES ASSUME NEW y \in Operators, NEW v \in AllWorkers, NEW q \in Held(y, v)', Clean(y, q)'
               PROVE  \/ /\ v = Owner(q, workers)
                         /\ phase[y][v] = "normal" \/ Owner(q, target) = v \/ q \in give'[y][v]
                      \/ v = Owner(q, target) /\ phase[y][Owner(q, workers)] # "normal"
    BY <1>1 DEF HeldWhereItBelongs
  <2>1. q \in Held(y, v) /\ ~(y = o /\ v = w /\ q = p) /\ q \in Parts
    BY <1>a DEF Held
  <2>2. Clean(y, q)
    BY <1>b, <2>1
  <2> QED BY <1>5, <1>a, <2>1, <2>2 DEF Placement, HeldWhereItBelongs
<1>13. GivesWhileCollecting'
  BY <1>1, <1>5, <1>a DEF Placement, GivesWhileCollecting, Active
<1>14. FinishedTogether'
  <2>1. \A v \in AllWorkers : phase[o][v] # "finished"
    BY <1>1, <1>5, <1>6 DEF Placement, FinishedTogether
  <2>2. \A m \in moving' : m \in moving \/ m.op = o
    BY <1>3, <1>8
  <2>3. \A y \in Operators, v \in AllWorkers : give'[y][v] \subseteq give[y][v]
    BY <1>10
  <2> QED BY <1>1, <1>5, <1>6, <2>1, <2>2, <2>3 DEF Placement, FinishedTogether, Active
<1>15. SentToOwner' /\ NothingMovesAtRest'
  <2>1. Clean(o, p) => w = Owner(p, workers)
    BY <1>5, <1>6 DEF Placement, HeldWhereItBelongs
  <2>2. \A m \in moving : m.op \in Operators /\ m.part \in Parts
    BY <1>5 DEF Types, Acquires
  <2>3. SentToOwner'
    BY <1>1, <1>3, <1>5, <1>6, <1>8, <1>b, <2>1, <2>2 DEF Placement, SentToOwner
  <2> QED BY <1>1, <1>5, <1>6, <2>3 DEF Placement, NothingMovesAtRest
<1>16. SinglePlace'
  <2>1. \A m \in moving : m.op \in Operators /\ m.part \in Parts
    BY <1>5 DEF Types, Acquires
  <2>2. Clean(o, p) => \A m \in moving : ~(m.op = o /\ m.part = p)
    BY <1>5, <1>6 DEF SinglePlace
  <2>3. Clean(o, p) => \A v \in AllWorkers : p \notin Held(o, v)'
    BY <1>5, <1>6, <1>9 DEF SinglePlace
  <2>4. \A y \in Operators, u, v \in AllWorkers : \A q \in Held(y, u)' : Clean(y, q)' /\ q \in Held(y, v)' => u = v
    <3> SUFFICES ASSUME NEW y \in Operators, NEW u \in AllWorkers, NEW v \in AllWorkers,
                        NEW q \in Held(y, u)', Clean(y, q)', q \in Held(y, v)'
                 PROVE  u = v
      OBVIOUS
    <3>1. q \in Held(y, u) /\ q \in Held(y, v) /\ q \in Parts
      BY <1>a DEF Held
    <3>2. Clean(y, q)
      BY <1>b, <3>1
    <3> QED BY <1>5, <3>1, <3>2 DEF SinglePlace
  <2>5. \A m \in moving', v \in AllWorkers : Clean(m.op, m.part)' => m.part \notin Held(m.op, v)'
    <3> SUFFICES ASSUME NEW m \in moving', NEW v \in AllWorkers, Clean(m.op, m.part)'
                 PROVE  m.part \notin Held(m.op, v)'
      OBVIOUS
    <3>1. CASE m = m0
      BY <1>8, <1>b, <2>3, <3>1
    <3>2. CASE m \in moving
      <4>1. Clean(m.op, m.part) /\ m.op \in Operators
        BY <1>b, <2>1, <3>2
      <4>2. m.part \notin Held(m.op, v)
        BY <1>5, <3>2, <4>1 DEF SinglePlace
      <4> QED BY <1>a, <4>1, <4>2
    <3> QED BY <1>3, <3>1, <3>2
  <2>6. \A m, n \in moving' : Clean(m.op, m.part)' /\ m.op = n.op /\ m.part = n.part => m = n
    <3>1. \A m, n \in moving : Clean(m.op, m.part)' /\ m.op = n.op /\ m.part = n.part => m = n
      BY <1>5, <1>b, <2>1 DEF SinglePlace
    <3>2. \A m \in moving : m.op = m0.op /\ m.part = m0.part => ~Clean(m.op, m.part)'
      BY <1>8, <1>b, <2>2
    <3> QED BY <1>3, <3>1, <3>2
  <2> QED BY <2>4, <2>5, <2>6 DEF SinglePlace
<1>17. \A q \in Parts : Stands(q)' = Stands(q)
  <2> SUFFICES ASSUME NEW q \in Parts PROVE Stands(q)' = Stands(q)
    OBVIOUS
  <2>1. \A v \in AllWorkers :
           parts'.source[v][q] = IF o = "source" /\ v = w /\ q = p THEN None ELSE parts.source[v][q]
    BY <1>9 DEF Operators
  <2>2. None \notin Nat
    BY PartitionsAssumption
  <2>3. CASE o = "source" /\ q = p
    BY <1>3, <1>7, <1>8, <2>1, <2>2, <2>3 DEF Stands
  <2>4. CASE ~(o = "source" /\ q = p)
    BY <1>3, <1>8, <2>1, <2>4 DEF Stands
  <2> QED BY <2>3, <2>4
<1>18. Positions'
  BY <1>1, <1>5, <1>17, PositionsFrame DEF Kept
<1>19. \A q \in Parts : Exhausted(q) => Exhausted(q)'
  BY <1>1, <1>5, <1>17, ExhaustedFrame
<1>20. Known'
  BY <1>1, <1>5, <1>19, KnownFrame
<1>21. NoRescaleYet'
  BY <1>1 DEF IInv, NoRescaleYet
<1> QED BY <1>11, <1>12, <1>13, <1>14, <1>15, <1>16, <1>18, <1>20, <1>21, Together DEF Placement

\* A partition arrives.  A stateful source stands where the message says, the
\* others at the beginning or where the broker is.
LEMMA OnAcquireStep ==
  ASSUME IInv, NEW m0 \in moving, OnAcquire(m0)
  PROVE  IInv'
<1> DEFINE o == m0.op
           w == m0.to
           p == m0.part
           x == Acquired(m0)
<1>1. /\ UNCHANGED <<flavour, workers, target, listed, toBuild, phase, give, marked, clients, wire, maxSent,
                     toSink, ahead, early, panicked, broker, barred, snap, committed, log, counts>>
      /\ moving' = moving \ {m0} /\ parts' = Put(o, w, p, x)
  BY DEF OnAcquire, jobVars, markVars, snapVars, Put, flowVars
<1>2. Types /\ Placement /\ SinglePlace /\ Positions /\ Known
  BY DEF IInv, Positions, Known
<1>3. /\ o \in Operators /\ w \in AllWorkers /\ p \in Parts /\ m0.state \in Nat
      /\ \A m \in moving : m.op \in Operators
  BY <1>2 DEF Types, Acquires
<1>4. w = Owner(p, target) /\ w \in Active
  <2>1. w = Owner(p, target)
    BY <1>2 DEF Placement, SentToOwner
  <2> QED BY <1>2, <1>3, <2>1, ConfigurationType DEF Types, Active
<1>5. /\ x \in Nat /\ x \in State /\ x # None
      /\ o = "source" => /\ flavour = "stateful" => x = m0.state
                         /\ flavour = "stateless" => x = 0
                         /\ flavour = "kafka" => x = broker[p]
  <2>1. m0.state \in State /\ m0.state # None
    BY <1>3, PartitionsAssumption DEF State
  <2>2. x \in Nat
    BY <1>2, <1>3, <2>1, BuildPartType DEF Acquired, AcquireSink, AcquireSource
  <2>3. o = "source" => x = BuildPart(p, m0.state)
    BY DEF Acquired, AcquireSource
  <2> QED BY <2>1, <2>2, <2>3, PartitionsAssumption DEF State, BuildPart, BuildStateful, BuildStateless, BuildKafka
<1>6. Clean(o, p) => \A m \in moving : m # m0 => ~(m.op = o /\ m.part = p)
  BY <1>2 DEF SinglePlace
<1>7. Clean(o, p) => \A v \in AllWorkers : p \notin Held(o, v)
  BY <1>2 DEF SinglePlace
<1>c. Clean(o, p) => phase[o][Owner(p, workers)] # "normal"
  BY <1>2 DEF Placement, SentToOwner
<1>d. \A y \in Operators, q \in Parts : Clean(y, q)' <=> Clean(y, q)
  BY <1>1 DEF Clean
<1> HIDE DEF x, o, w, p
<1>8. /\ parts' \in [Operators -> [AllWorkers -> Position]]
      /\ \A y \in Operators, v \in AllWorkers, q \in Parts :
            parts'[y][v][q] = IF y = o /\ v = w /\ q = p THEN x ELSE parts[y][v][q]
      /\ \A y \in Operators, v \in AllWorkers :
            Held(y, v)' = IF y = o /\ v = w THEN Held(y, v) \cup {p} ELSE Held(y, v)
  BY <1>1, <1>2, <1>3, <1>5, CellStep
<1>9. Types'
  BY <1>1, <1>2, <1>8 DEF Types
<1>10. HeldWhereItBelongs'
  <2> SUFFICES ASSUME NEW y \in Operators, NEW v \in AllWorkers, NEW q \in Held(y, v)', Clean(y, q)'
               PROVE  \/ /\ v = Owner(q, workers)
                         /\ phase[y][v] = "normal" \/ Owner(q, target) = v \/ q \in give[y][v]
                      \/ v = Owner(q, target) /\ phase[y][Owner(q, workers)] # "normal"
    BY <1>1 DEF HeldWhereItBelongs
  <2>1. q \in Parts /\ Clean(y, q)
    BY <1>d DEF Held
  <2>2. CASE y = o /\ v = w /\ q = p
    BY <1>4, <1>c, <2>1, <2>2
  <2>3. CASE ~(y = o /\ v = w /\ q = p)
    <3>1. q \in Held(y, v)
      BY <1>8, <2>3
    <3> QED BY <1>2, <2>1, <3>1 DEF Placement, HeldWhereItBelongs
  <2> QED BY <2>2, <2>3
<1>11. GivesWhileCollecting'
  BY <1>1, <1>2, <1>8 DEF Placement, GivesWhileCollecting, Active
<1>12. FinishedTogether' /\ SentToOwner' /\ NothingMovesAtRest'
  <2>1. \A m \in moving : Clean(m.op, m.part)' => Clean(m.op, m.part)
    BY <1>2, <1>d DEF Types, Acquires
  <2>2. SentToOwner'
    BY <1>1, <1>2, <2>1 DEF Placement, SentToOwner
  <2> QED BY <1>1, <1>2, <2>2 DEF Placement, FinishedTogether, NothingMovesAtRest, Active
<1>13. SinglePlace'
  <2>1. \A m \in moving : m.op \in Operators /\ m.part \in Parts
    BY <1>2 DEF Types, Acquires
  <2>2. \A y \in Operators, u, v \in AllWorkers : \A q \in Held(y, u)' : Clean(y, q)' /\ q \in Held(y, v)' => u = v
    <3> SUFFICES ASSUME NEW y \in Operators, NEW u \in AllWorkers, NEW v \in AllWorkers,
                        NEW q \in Held(y, u)', Clean(y, q)', q \in Held(y, v)'
                 PROVE  u = v
      OBVIOUS
    <3>1. q \in Parts /\ Clean(y, q)
      BY <1>d DEF Held
    <3>2. CASE y = o /\ q = p
      BY <1>7, <1>8, <3>1, <3>2
    <3>3. CASE ~(y = o /\ q = p)
      <4>1. q \in Held(y, u) /\ q \in Held(y, v)
        BY <1>8, <3>3
      <4> QED BY <1>2, <3>1, <4>1 DEF SinglePlace
    <3> QED BY <3>2, <3>3
  <2>3. \A m \in moving', v \in AllWorkers : Clean(m.op, m.part)' => m.part \notin Held(m.op, v)'
    <3> SUFFICES ASSUME NEW m \in moving', NEW v \in AllWorkers, Clean(m.op, m.part)'
                 PROVE  m.part \notin Held(m.op, v)'
      OBVIOUS
    <3>1. m \in moving /\ m # m0 /\ m.op \in Operators /\ Clean(m.op, m.part)
      BY <1>1, <1>d, <2>1
    <3>2. m.part \notin Held(m.op, v) /\ ~(m.op = o /\ m.part = p)
      BY <1>2, <1>6, <3>1 DEF SinglePlace
    <3> QED BY <1>8, <3>1, <3>2
  <2>4. \A m, n \in moving' : Clean(m.op, m.part)' /\ m.op = n.op /\ m.part = n.part => m = n
    BY <1>1, <1>2, <1>d, <2>1 DEF SinglePlace
  <2> QED BY <2>2, <2>3, <2>4 DEF SinglePlace
<1>14. \A q \in Parts : \/ Stands(q)' = Stands(q)
                        \/ /\ q = p /\ o = "source" /\ flavour # "stateful"
                           /\ Stands(q)' = {x}
  <2> SUFFICES ASSUME NEW q \in Parts
               PROVE  \/ Stands(q)' = Stands(q)
                      \/ /\ q = p /\ o = "source" /\ flavour # "stateful"
                         /\ Stands(q)' = {x}
    OBVIOUS
  <2>1. \A v \in AllWorkers :
           parts'.source[v][q] = IF o = "source" /\ v = w /\ q = p THEN x ELSE parts.source[v][q]
    BY <1>8 DEF Operators
  <2>2. None \notin Nat
    BY PartitionsAssumption
  <2>3. CASE o = "source" /\ q = p
    <3>c. Clean(o, p)
      BY <2>3 DEF Clean
    <3>1. \A v \in AllWorkers : parts.source[v][q] = None
      BY <1>2, <1>7, <2>3, <3>c, HeldType DEF Operators
    <3>2. Stands(q)' = {x}
      BY <1>1, <1>3, <1>5, <1>6, <2>1, <2>2, <2>3, <3>1, <3>c DEF Stands
    <3>3. Stands(q) = {m0.state}
      BY <1>3, <1>6, <2>2, <2>3, <3>1, <3>c DEF Stands, o, p
    <3> QED BY <1>5, <2>3, <3>2, <3>3
  <2>4. CASE ~(o = "source" /\ q = p)
    <3>1. \A v \in AllWorkers : parts'.source[v][q] = parts.source[v][q]
      BY <2>1, <2>4
    <3>2. ~(m0.op = "source" /\ m0.part = q)
      BY <2>4 DEF o, p
    <3> QED BY <1>1, <3>1, <3>2 DEF Stands
  <2> QED BY <2>3, <2>4
<1>15. StatefulPositions'
  BY <1>1, <1>2, <1>14 DEF Positions, StatefulPositions
<1>16. ReachedPositions'
  <2>1. flavour \in {"stateful", "stateless", "kafka"}
    BY <1>2, PartitionsAssumption DEF Types
  <2> QED BY <1>1, <1>2, <1>5, <1>14, <2>1 DEF Positions, ReachedPositions, Reached
<1>17. EnoughRead'
  <2>1. flavour \in {"stateful", "stateless", "kafka"} /\ \A q \in Parts : Len(log[q]) \in Nat
    BY <1>2, PartitionsAssumption DEF Types
  <2> QED BY <1>1, <1>2, <1>5, <1>14, <2>1 DEF Positions, EnoughRead
<1>18. \A q \in Parts : Exhausted(q) => Exhausted(q)'
  <2>1. flavour \in {"stateful", "stateless", "kafka"}
    BY <1>2, PartitionsAssumption DEF Types
  <2>2. counts.scales # 0
    BY <1>2 DEF IInv, NoRescaleYet, Placement, NothingMovesAtRest
  <2> QED BY <1>1, <1>14, <2>1, <2>2 DEF Exhausted
<1>19. Known'
  BY <1>1, <1>2, <1>18, KnownFrame
<1>20. NoRescaleYet'
  BY <1>1 DEF IInv, NoRescaleYet
<1> QED BY <1>9, <1>10, <1>11, <1>12, <1>13, <1>15, <1>16, <1>17, <1>19, <1>20, Together DEF Placement, Positions
----------------------------------------------------------------------------
(* Steps that read.                                                        *)

\* What reading the next record does to the relations between records and
\* positions.
LEMMA AppendFacts ==
  ASSUME NEW l \in Seq(Nat), NEW n \in Nat
  PROVE  /\ Append(l, n + 1) \in Seq(Nat)
         /\ Len(Append(l, n + 1)) = Len(l) + 1
         /\ \A i \in 1..Len(l) : Append(l, n + 1)[i] = l[i]
         /\ Append(l, n + 1)[Len(l) + 1] = n + 1
OBVIOUS

LEMMA InOrderStep ==
  ASSUME NEW l \in Seq(Nat), NEW n \in Nat, InOrder(l, n)
  PROVE  InOrder(Append(l, n + 1), n + 1)
<1> DEFINE a == Append(l, n + 1)
<1>1. /\ Len(a) = Len(l) + 1 /\ \A i \in 1..Len(l) : a[i] = l[i]
      /\ a[Len(l) + 1] = n + 1 /\ Len(l) \in Nat
  BY AppendFacts
<1> HIDE DEF a
<1>2. InOrder(a, n + 1)
  BY <1>1 DEF InOrder
<1> QED BY <1>2 DEF a

LEMMA ReachedStep ==
  ASSUME NEW l \in Seq(Nat), NEW n \in Nat, Chained(l), Reached(l, n)
  PROVE  /\ Chained(Append(l, n + 1)) /\ Reached(Append(l, n + 1), n + 1)
         /\ \A k : Reached(l, k) => Reached(Append(l, n + 1), k)
<1> DEFINE a == Append(l, n + 1)
<1>1. /\ Len(a) = Len(l) + 1 /\ \A i \in 1..Len(l) : a[i] = l[i]
      /\ a[Len(l) + 1] = n + 1 /\ Len(l) \in Nat
  BY AppendFacts
<1> HIDE DEF a
<1>2. Reached(a, n + 1)
  BY <1>1 DEF Reached
<1>3. \A k : Reached(l, k) => Reached(a, k)
  BY <1>1 DEF Reached
<1>4. Chained(a)
  <2> SUFFICES ASSUME NEW i \in 1..Len(a)
               PROVE  a[i] = 1 \/ \E j \in 1..(i - 1) : a[j] = a[i] - 1
    BY DEF Chained
  <2>1. CASE i \in 1..Len(l)
    <3>1. l[i] = 1 \/ \E j \in 1..(i - 1) : l[j] = l[i] - 1
      BY <2>1 DEF Chained
    <3> QED BY SMTT(30), <1>1, <2>1, <3>1
  <2>2. CASE i = Len(l) + 1
    <3>1. n = 0 \/ \E j \in 1..Len(l) : l[j] = n
      BY DEF Reached
    <3> QED BY <1>1, <2>2, <3>1
  <2> QED BY <1>1, <2>1, <2>2
<1> QED BY <1>2, <1>3, <1>4 DEF a

\* The parts of `polled` give a record each: where they stand moves on by one.
Advances(polled) ==
  /\ \A p \in polled : \E n \in Nat :
       Stands(p) = {n} /\ Stands(p)' = {n + 1} /\ log'[p] = Append(log[p], n + 1)
  /\ \A p \in Parts \ polled : Stands(p)' = Stands(p) /\ log'[p] = log[p]

LEMMA ReadingKeepsPositions ==
  ASSUME Types, Positions, NEW polled \in SUBSET Parts, Advances(polled),
         UNCHANGED <<flavour, snap, committed, broker, counts>>
  PROVE  Positions'
<1>1. \A p \in Parts : log[p] \in Seq(Nat)
  BY DEF Types
<1>2. StatefulPositions'
  <2> SUFFICES ASSUME flavour = "stateful", NEW p \in Parts
               PROVE  /\ \A n \in Stands(p)' : InOrder(log'[p], n)
                      /\ Stands(p)' = {} => log'[p] = <<>>
    BY DEF Positions, StatefulPositions
  <2>1. /\ \A n \in Stands(p) : InOrder(log[p], n)
        /\ Stands(p) = {} => log[p] = <<>>
    BY DEF Positions, StatefulPositions
  <2>2. CASE p \in polled
    <3>1. PICK n \in Nat : Stands(p) = {n} /\ Stands(p)' = {n + 1} /\ log'[p] = Append(log[p], n + 1)
      BY <2>2 DEF Advances
    <3>2. InOrder(Append(log[p], n + 1), n + 1)
      BY <1>1, <2>1, <3>1, InOrderStep
    <3> QED BY <3>1, <3>2
  <2>3. CASE p \notin polled
    BY <2>1, <2>3 DEF Advances
  <2> QED BY <2>2, <2>3
<1>3. ReachedPositions'
  <2> SUFFICES ASSUME flavour = "kafka" => counts.crashes = 0, NEW p \in Parts
               PROVE  /\ Chained(log'[p]) /\ \A n \in Stands(p)' : Reached(log'[p], n)
                      /\ flavour = "kafka" => Reached(log'[p], broker[p])
    BY DEF Positions, ReachedPositions
  <2>1. /\ Chained(log[p]) /\ \A n \in Stands(p) : Reached(log[p], n)
        /\ flavour = "kafka" => Reached(log[p], broker[p])
    BY DEF Positions, ReachedPositions
  <2>2. CASE p \in polled
    <3>1. PICK n \in Nat : Stands(p) = {n} /\ Stands(p)' = {n + 1} /\ log'[p] = Append(log[p], n + 1)
      BY <2>2 DEF Advances
    <3>2. /\ Chained(log'[p]) /\ Reached(log'[p], n + 1)
          /\ \A k : Reached(log[p], k) => Reached(log'[p], k)
      BY <1>1, <2>1, <3>1, ReachedStep
    <3> QED BY <2>1, <3>1, <3>2
  <2>3. CASE p \notin polled
    BY <2>1, <2>3 DEF Advances
  <2> QED BY <2>2, <2>3
<1>4. EnoughRead'
  <2> SUFFICES ASSUME flavour # "kafka", NEW p \in Parts
               PROVE  \A n \in Stands(p)' : Len(log'[p]) >= n
    BY DEF Positions, EnoughRead
  <2>1. \A n \in Stands(p) : Len(log[p]) >= n
    BY DEF Positions, EnoughRead
  <2>2. CASE p \in polled
    <3>1. PICK n \in Nat : Stands(p) = {n} /\ Stands(p)' = {n + 1} /\ log'[p] = Append(log[p], n + 1)
      BY <2>2 DEF Advances
    <3>2. Len(log'[p]) = Len(log[p]) + 1 /\ Len(log[p]) \in Nat
      BY <1>1, <3>1, AppendFacts
    <3> QED BY <2>1, <3>1, <3>2
  <2>3. CASE p \notin polled
    BY <2>1, <2>3 DEF Advances
  <2> QED BY <2>2, <2>3
<1> QED BY <1>2, <1>3, <1>4 DEF Positions

\* Every announcement is of a part that was announced already or is finished.
Announced(finished, u, v, p) == p \in finished \/ \E j \in 1..Len(wire[u][v]) : p = wire[u][v][j]

LEMMA BroadcastType ==
  ASSUME Types, NEW w \in AllWorkers, NEW finished \in SUBSET Parts
  PROVE  /\ Broadcast(w, finished) \in [AllWorkers -> [AllWorkers -> Seq(Parts)]]
         /\ \A u, v \in AllWorkers : \A i \in 1..Len(Broadcast(w, finished)[u][v]) :
              Announced(finished, u, v, Broadcast(w, finished)[u][v][i])
<1> DEFINE all == CHOOSE s \in [1..Cardinality(finished) -> finished] :
                    \A p \in finished : \E i \in DOMAIN s : s[i] = p
<1>1. IsFiniteSet(finished) /\ Cardinality(finished) \in Nat
  BY PartitionsAssumption, FS_Subset, FS_CardinalityType
<1>2. \E s \in [1..Cardinality(finished) -> finished] : \A p \in finished : \E i \in DOMAIN s : s[i] = p
  <2>1. ExistsBijection(1..Cardinality(finished), finished)
    BY <1>1, FS_CardinalityType
  <2>2. PICK s : s \in Bijection(1..Cardinality(finished), finished)
    BY <2>1 DEF ExistsBijection
  <2>3. s \in Surjection(1..Cardinality(finished), finished)
    BY <2>2 DEF Bijection
  <2>4. s \in [1..Cardinality(finished) -> finished] /\ \A p \in finished : \E i \in 1..Cardinality(finished) : s[i] = p
    BY <2>3 DEF Surjection
  <2> QED BY <2>4
<1>3. all \in [1..Cardinality(finished) -> finished]
  BY <1>2
<1> HIDE DEF all
<1>4. all \in Seq(Parts) /\ \A i \in 1..Len(all) : all[i] \in finished
  <2>1. all \in Seq(finished)
    BY <1>1, <1>3, SeqDef
  <2> QED BY <2>1
<1> DEFINE next(u, v) == IF u = w /\ v \in clients[w] THEN wire[u][v] \o all
                         ELSE IF v = w /\ u \in clients[w] /\ wire[u][v] # <<>> THEN Tail(wire[u][v])
                         ELSE wire[u][v]
<1>5. Broadcast(w, finished) = [u \in AllWorkers |-> [v \in AllWorkers |-> next(u, v)]]
  BY DEF Broadcast, all
<1>6. ASSUME NEW u \in AllWorkers, NEW v \in AllWorkers
      PROVE  /\ next(u, v) \in Seq(Parts)
             /\ \A i \in 1..Len(next(u, v)) :
                  next(u, v)[i] \in finished \/ \E j \in 1..Len(wire[u][v]) : next(u, v)[i] = wire[u][v][j]
  <2>1. wire[u][v] \in Seq(Parts)
    BY DEF Types
  <2> DEFINE x == wire[u][v]
  <2> HIDE DEF x
  <2>2. /\ x \o all \in Seq(Parts)
        /\ \A i \in 1..Len(x \o all) :
             (x \o all)[i] \in finished \/ \E j \in 1..Len(x) : (x \o all)[i] = x[j]
    BY <1>4, <2>1 DEF x
  <2>3. x # <<>> => /\ Tail(x) \in Seq(Parts)
                    /\ \A i \in 1..Len(Tail(x)) : \E j \in 1..Len(x) : Tail(x)[i] = x[j]
    BY <2>1 DEF x
  <2> QED BY <2>1, <2>2, <2>3 DEF x
<1> HIDE DEF next
<1>7. \A u, v \in AllWorkers : Broadcast(w, finished)[u][v] = next(u, v)
  BY <1>5
<1>8. Broadcast(w, finished) \in [AllWorkers -> [AllWorkers -> Seq(Parts)]]
  BY <1>5, <1>6
<1>9. ASSUME NEW u \in AllWorkers, NEW v \in AllWorkers, NEW i \in 1..Len(Broadcast(w, finished)[u][v])
      PROVE  Announced(finished, u, v, Broadcast(w, finished)[u][v][i])
  <2>1. Broadcast(w, finished)[u][v] = next(u, v)
    BY <1>7
  <2>2. i \in 1..Len(next(u, v))
    BY <2>1
  <2>3. \A k \in 1..Len(next(u, v)) :
           next(u, v)[k] \in finished \/ \E j \in 1..Len(wire[u][v]) : next(u, v)[k] = wire[u][v][j]
    BY <1>6
  <2>4. next(u, v)[i] \in finished \/ \E j \in 1..Len(wire[u][v]) : next(u, v)[i] = wire[u][v][j]
    BY <2>2, <2>3
  <2> QED BY <2>1, <2>4 DEF Announced
<1> QED BY <1>8, <1>9

LEMMA AssignedToType ==
  ASSUME NEW polled \in SUBSET Parts, NEW q \in Parts
  PROVE  AssignedTo(q, polled) \in Nat
<1>1. IsFiniteSet({p \in polled : AssignPart(p) = q})
  BY PartitionsAssumption, FS_Subset
<1> QED BY <1>1, FS_CardinalityType DEF AssignedTo

\* Reading, announcing what is finished and hearing of what others have finished.
LEMMA OnScheduleStep ==
  ASSUME IInv, NEW w \in AllWorkers, NEW polled \in SUBSET Parts, OnSchedule(w, polled)
  PROVE  IInv'
<1> DEFINE h == Held("source", w)
           at(p) == parts.source[w][p]
           pos(p) == IF p \in polled THEN parts.source[w][p] + 1 ELSE parts.source[w][p]
           new == [p \in Parts |-> IF p \in h THEN pos(p) ELSE None]
           finished == {p \in h : IsFinished(p, pos(p))} \ marked[w]
           heard == {Head(wire[v][w]) : v \in {u \in clients[w] : wire[u][w] # <<>>}}
           known == marked[w] \cup finished \cup heard
<1>1. /\ UNCHANGED <<flavour, workers, target, listed, toBuild, phase, give, moving, clients,
                     early, panicked, broker, barred, snap, committed, counts>>
      /\ polled \subseteq Unread(w)
  BY DEF OnSchedule, jobVars, moveVars, snapVars, flowVars
<1>2. parts' = [parts EXCEPT !["source"][w] = new]
  BY DEF OnSchedule
<1>3. log' = [p \in Parts |-> IF p \in polled THEN Append(log[p], pos(p)) ELSE log[p]]
  BY DEF OnSchedule
<1>4. /\ toSink' = [q \in Parts |-> toSink[q] + IF RoutesAnew(w, q) THEN 0 ELSE AssignedTo(q, polled)]
      /\ ahead' = [q \in Parts |-> ahead[q] + IF RoutesAnew(w, q) THEN AssignedTo(q, polled) ELSE 0]
      /\ wire' = Broadcast(w, finished)
  BY DEF OnSchedule
<1>5. marked' = [marked EXCEPT ![w] = known]
  BY DEF OnSchedule
<1>6. maxSent' = [maxSent EXCEPT ![w] = @ \/ known = Parts]
  BY DEF OnSchedule, AllFinished
<1>7. Types /\ Placement /\ SinglePlace /\ Positions /\ Known
  BY DEF IInv, Positions, Known
<1>8. h \subseteq Parts /\ \A p \in h : at(p) \in Nat
  BY <1>7, HeldType DEF Held, Operators
<1>9. \A p \in polled : p \in h /\ at(p) < Length[p]
  BY <1>1 DEF Unread
<1>10. \A p \in h : pos(p) \in Nat
  BY <1>8
<1>11. /\ finished \subseteq Parts
       /\ \A p \in finished : p \in h /\ flavour # "kafka" /\ pos(p) = Length[p]
  BY <1>8 DEF IsFinished
<1>12. \A q \in heard : \E v \in AllWorkers : Len(wire[v][w]) \in Nat /\ 1 \in 1..Len(wire[v][w]) /\ q = wire[v][w][1]
  <2> SUFFICES ASSUME NEW v \in clients[w], wire[v][w] # <<>>
               PROVE  /\ v \in AllWorkers /\ Len(wire[v][w]) \in Nat /\ 1 \in 1..Len(wire[v][w])
                      /\ Head(wire[v][w]) = wire[v][w][1]
    OBVIOUS
  <2>1. v \in AllWorkers /\ wire[v][w] \in Seq(Parts)
    BY <1>7 DEF Types
  <2> QED BY <2>1
<1>13. heard \subseteq Parts
  BY <1>7, <1>12 DEF Types
<1>14. known \subseteq Parts
  BY <1>7, <1>11, <1>13 DEF Types
<1> HIDE DEF h, pos, heard, finished, known
<1>15. new \in Position /\ \A p \in Parts : new[p] = IF p \in h THEN pos(p) ELSE None
  BY <1>10 DEF Position, State
<1> HIDE DEF new
<1>16. /\ parts' \in [Operators -> [AllWorkers -> Position]]
       /\ \A v \in AllWorkers, p \in Parts :
             /\ parts'.source[v][p] = IF v = w THEN new[p] ELSE parts.source[v][p]
             /\ parts'.sink[v][p] = parts.sink[v][p]
  <2>1. parts \in [Operators -> [AllWorkers -> Position]] /\ "source" \in Operators /\ "sink" \in Operators
    BY <1>7 DEF Types, Operators
  <2> QED BY <1>2, <1>15, <2>1
<1>17. \A o \in Operators, v \in AllWorkers : Held(o, v)' = Held(o, v)
  <2>1. \A v \in AllWorkers : Held("sink", v)' = Held("sink", v)
    BY <1>16 DEF Held
  <2>2. \A v \in AllWorkers : v # w => Held("source", v)' = Held("source", v)
    BY <1>16 DEF Held
  <2>3. Held("source", w)' = {p \in Parts : new[p] # None}
    BY <1>16 DEF Held
  <2>4. {p \in Parts : new[p] # None} = h
    BY <1>8, <1>10, <1>15, PartitionsAssumption
  <2> QED BY <2>1, <2>2, <2>3, <2>4 DEF Operators, h
<1>18. Types'
  <2>1. log' \in [Parts -> Seq(Nat)]
    BY <1>3, <1>7, <1>9, <1>10 DEF Types
  <2>2. marked' \in [AllWorkers -> SUBSET Parts]
    BY <1>5, <1>7, <1>14 DEF Types
  <2>3. maxSent' \in [AllWorkers -> BOOLEAN]
    <3>1. (maxSent[w] \/ known = Parts) \in BOOLEAN
      OBVIOUS
    <3> QED BY <1>6, <1>7, <3>1, Zenon DEF Types
  <2>4. wire' \in [AllWorkers -> [AllWorkers -> Seq(Parts)]]
    BY <1>4, <1>7, <1>11, BroadcastType
  <2>5. toSink' \in [Parts -> Nat] /\ ahead' \in [Parts -> Nat]
    <3>1. \A q \in Parts : toSink[q] \in Nat /\ ahead[q] \in Nat /\ AssignedTo(q, polled) \in Nat
      BY <1>7, AssignedToType DEF Types
    <3>2. \A q \in Parts :
             /\ (toSink[q] + IF RoutesAnew(w, q) THEN 0 ELSE AssignedTo(q, polled)) \in Nat
             /\ (ahead[q] + IF RoutesAnew(w, q) THEN AssignedTo(q, polled) ELSE 0) \in Nat
      BY <3>1
    <3> QED BY <1>4, <3>2
  <2> QED BY <1>1, <1>7, <1>16, <2>1, <2>2, <2>3, <2>4, <2>5 DEF Types
<1>19. Placement' /\ SinglePlace'
  BY <1>1, <1>7, <1>17, PlacesFrame
<1>20. \A p \in h : Stands(p) = {at(p)} /\ Stands(p)' = {pos(p)}
  <2> SUFFICES ASSUME NEW p \in h PROVE Stands(p) = {at(p)} /\ Stands(p)' = {pos(p)}
    OBVIOUS
  <2>1. p \in Parts /\ at(p) \in Nat /\ pos(p) \in Nat
    BY <1>8, <1>10
  <2>2. \A v \in AllWorkers : p \in Held("source", v) => v = w
    BY <1>7 DEF SinglePlace, Operators, Clean, h
  <2>3. \A v \in AllWorkers : v # w => parts.source[v][p] = None
    BY <1>7, <2>1, <2>2, HeldType DEF Operators
  <2>4. \A m \in moving : ~(m.op = "source" /\ m.part = p)
    BY <1>7 DEF SinglePlace, Clean, h
  <2>5. \A v \in AllWorkers : parts'.source[v][p] = IF v = w THEN pos(p) ELSE None
    BY <1>15, <1>16, <2>1, <2>3
  <2>6. None \notin Nat
    BY PartitionsAssumption
  <2>7. Stands(p) = {at(p)}
    BY <2>1, <2>3, <2>4, <2>6 DEF Stands
  <2>8. Stands(p)' = {pos(p)}
    BY <1>1, <2>1, <2>4, <2>5, <2>6 DEF Stands
  <2> QED BY <2>7, <2>8
<1>21. \A p \in Parts \ h : Stands(p)' = Stands(p)
  <2> SUFFICES ASSUME NEW p \in Parts, p \notin h PROVE Stands(p)' = Stands(p)
    OBVIOUS
  <2>1. parts.source[w][p] = None
    BY <1>7, HeldType DEF Operators, h
  <2>2. \A v \in AllWorkers : parts'.source[v][p] = parts.source[v][p]
    BY <1>15, <1>16, <2>1
  <2> QED BY <1>1, <2>2 DEF Stands
<1>22. Advances(polled)
  <2>1. \A p \in polled : pos(p) = at(p) + 1 /\ at(p) \in Nat /\ log'[p] = Append(log[p], at(p) + 1)
    BY <1>3, <1>8, <1>9 DEF pos
  <2>2. \A p \in Parts \ polled : log'[p] = log[p]
    BY <1>3
  <2>3. \A p \in h \ polled : pos(p) = at(p)
    BY DEF pos
  <2>4. \A p \in polled : Stands(p) = {at(p)} /\ Stands(p)' = {at(p) + 1}
    BY <1>9, <1>20, <2>1
  <2>5. \A p \in Parts \ polled : Stands(p)' = Stands(p)
    BY <1>20, <1>21, <2>3
  <2> QED BY <2>1, <2>2, <2>4, <2>5 DEF Advances
<1>23. Positions'
  BY <1>1, <1>7, <1>22, ReadingKeepsPositions
<1>24. \A p \in Parts : Exhausted(p) => Exhausted(p)'
  <2> SUFFICES ASSUME NEW p \in Parts, Exhausted(p) PROVE Exhausted(p)'
    OBVIOUS
  <2>1. CASE p \in polled
    <3>1. Stands(p) # {Length[p]}
      BY <1>8, <1>9, <1>20, <2>1, PartitionsAssumption
    <3> QED BY <1>1, <3>1 DEF Exhausted
  <2>2. CASE p \notin polled
    BY <1>1, <1>22, <2>2 DEF Exhausted, Advances
  <2> QED BY <2>1, <2>2
<1>25. \A p \in finished : Exhausted(p)'
  <2> SUFFICES ASSUME NEW p \in finished PROVE Exhausted(p)'
    OBVIOUS
  <2>1. p \in Parts /\ p \in h /\ flavour' # "kafka" /\ Stands(p)' = {Length[p]}
    BY <1>1, <1>11, <1>20
  <2>2. Len(log'[p]) >= Length[p]
    BY <1>23, <2>1 DEF Positions, EnoughRead
  <2> QED BY <2>1, <2>2 DEF Exhausted
<1>26. \A v, u \in AllWorkers : \A i \in 1..Len(wire[v][u]) : wire[v][u][i] \in Parts /\ Exhausted(wire[v][u][i])
  <2> SUFFICES ASSUME NEW v \in AllWorkers, NEW u \in AllWorkers, NEW i \in 1..Len(wire[v][u])
               PROVE  wire[v][u][i] \in Parts /\ Exhausted(wire[v][u][i])
    OBVIOUS
  <2>1. wire[v][u] \in Seq(Parts)
    BY <1>7 DEF Types
  <2> QED BY <1>7, <2>1 DEF Known, KnownIsExhausted
<1>27. \A p \in known : Exhausted(p)'
  <2>1. \A p \in heard : Exhausted(p)
    BY <1>12, <1>26
  <2>2. \A p \in marked[w] : Exhausted(p)
    BY <1>7 DEF Known, KnownIsExhausted
  <2> QED BY <1>14, <1>24, <1>25, <2>1, <2>2 DEF known
<1>28. \A u \in AllWorkers : \A p \in marked'[u] : Exhausted(p)'
  <2>1. \A u \in AllWorkers : marked'[u] = IF u = w THEN known ELSE marked[u]
    BY <1>5, <1>7 DEF Types
  <2>2. \A u \in AllWorkers : \A p \in marked[u] : p \in Parts /\ Exhausted(p)
    BY <1>7 DEF Known, KnownIsExhausted, Types
  <2> QED BY <1>24, <1>27, <2>1, <2>2
<1>29. \A v, u \in AllWorkers : \A i \in 1..Len(wire'[v][u]) : Exhausted(wire[v][u][i])'
  <2> SUFFICES ASSUME NEW v \in AllWorkers, NEW u \in AllWorkers, NEW i \in 1..Len(wire'[v][u])
               PROVE  Exhausted(wire[v][u][i])'
    OBVIOUS
  <2>1. PICK q : q = wire'[v][u][i]
    OBVIOUS
  <2>2. q \in finished \/ \E j \in 1..Len(wire[v][u]) : q = wire[v][u][j]
    <3>1. finished \in SUBSET Parts
      BY <1>11
    <3>2. \A k \in 1..Len(Broadcast(w, finished)[v][u]) :
             Announced(finished, v, u, Broadcast(w, finished)[v][u][k])
      BY <1>7, <3>1, BroadcastType
    <3>3. Announced(finished, v, u, q)
      BY <1>4, <2>1, <3>2
    <3> QED BY <3>3 DEF Announced
  <2>3. q \in finished \/ (q \in Parts /\ Exhausted(q))
    BY <1>26, <2>2
  <2>4. Exhausted(q)'
    BY <1>24, <1>25, <2>3
  <2> QED BY <2>1, <2>4
<1>30. MaxAfterAll'
  <2>1. \A u \in AllWorkers : /\ marked'[u] = IF u = w THEN known ELSE marked[u]
                              /\ u # w => maxSent'[u] = maxSent[u]
    BY <1>5, <1>6, <1>7 DEF Types
  <2>2. maxSent'[w] = (maxSent[w] \/ known = Parts)
    BY <1>6, <1>7, Zenon DEF Types
  <2>3. maxSent[w] => known = Parts
    BY <1>7, <1>14 DEF Known, MaxAfterAll, known
  <2> QED BY <1>7, <2>1, <2>2, <2>3 DEF Known, MaxAfterAll
<1>31. NoRescaleYet'
  BY <1>1 DEF IInv, NoRescaleYet
<1> QED BY <1>18, <1>19, <1>23, <1>28, <1>29, <1>30, <1>31, Together DEF Known, KnownIsExhausted
----------------------------------------------------------------------------
(* The invariant and what follows from it.                                 *)

LEMMA NextKeepsInvariant == IInv /\ [Next]_vars => IInv'
<1> SUFFICES ASSUME IInv, [Next]_vars PROVE IInv'
  OBVIOUS
<1>1. CASE UNCHANGED vars
  <2>1. UNCHANGED <<flavour, workers, target, listed, toBuild, phase, give, moving, parts, marked, clients, wire,
                    maxSent, toSink, ahead, early, panicked, broker, snap, committed, log, counts>>
    BY <1>1 DEF vars, jobVars, moveVars, markVars, snapVars, flowVars
  <2>2. Types'
    BY <2>1 DEF IInv, Types
  <2>3. Placement' /\ SinglePlace'
    BY <2>1, SamePlaces, PlacesFrame DEF IInv
  <2>4. Positions' /\ Known'
    BY <2>1, <2>2, QuietStep DEF Kept
  <2>5. NoRescaleYet'
    BY <2>1 DEF IInv, NoRescaleYet
  <2> QED BY <2>2, <2>3, <2>4, <2>5, Together
<1>2. CASE Next
  <2>1. CASE ListParts
    BY <2>1, ListPartsStep
  <2>2. ASSUME NEW p \in Parts, OnData(p) \/ SinkOnData(p) \/ SinkOnDataAhead(p) PROVE IInv'
    BY <2>2, OnDataStep, SinkOnDataStep, SinkOnDataAheadStep
  <2>3. ASSUME NEW w \in AllWorkers, NEW polled \in SUBSET Parts, OnSchedule(w, polled) PROVE IInv'
    BY <2>3, OnScheduleStep
  <2>4. ASSUME NEW w \in AllWorkers, NEW p \in Parts, AutoCommit(w, p) PROVE IInv'
    BY <2>4, AutoCommitStep
  <2>5. ASSUME NEW S \in Scales, Rescale(S) PROVE IInv'
    BY <2>5, RescaleStep
  <2>6. ASSUME NEW o \in Operators, NEW w \in AllWorkers, OnInterrogate(o, w) \/ OnRescale(o, w) PROVE IInv'
    BY <2>6, OnInterrogateStep, OnRescaleStep
  <2>7. ASSUME NEW o \in Operators, NEW w \in AllWorkers, NEW p \in Parts, OnCollect(o, w, p) PROVE IInv'
    BY <2>7, OnCollectStep, PanicStep
  <2>8. ASSUME NEW m \in moving, OnAcquire(m) PROVE IInv'
    BY <2>8, OnAcquireStep
  <2>9. CASE RescaleDone
    BY <2>9, RescaleDoneStep
  <2>10. CASE StartSnapshot \/ CommitSnapshot \/ Restart
    BY <2>10, StartSnapshotStep, CommitSnapshotStep, RestartStep
  <2>11. ASSUME NEW w \in AllWorkers, NEW acked \in SUBSET Parts, OnBarrier(w, acked) PROVE IInv'
    BY <2>11, OnBarrierStep
  <2> QED BY <1>2, <2>1, <2>2, <2>3, <2>4, <2>5, <2>6, <2>7, <2>8, <2>9, <2>10, <2>11 DEF Next
<1> QED BY <1>1, <1>2

LEMMA Invariance == Spec => []IInv
BY InitIsGood, NextKeepsInvariant, PTL DEF Spec

\* For every set of parts, workers and configurations, every assignment of parts to
\* workers and every order of reads, rescales, snapshots and restarts, the operators
\* of sources/stateful.rs and sinks/stateful.rs keep their types.
THEOREM TypeCorrect == Spec => []TypeOK
<1>1. IInv => TypeOK
  <2> SUFFICES ASSUME IInv PROVE TypeOK
    OBVIOUS
  <2>1. Types
    BY DEF IInv
  <2>2. workers \subseteq AllWorkers /\ target \subseteq AllWorkers
    BY <2>1, ConfigurationType DEF Types
  <2>3. \A m \in moving : m.op \in Operators /\ m.part \in Parts /\ m.to \in AllWorkers /\ m.state \in Nat
    BY <2>1 DEF Types, Acquires
  <2>4. \A o \in Operators, w \in AllWorkers, p \in Parts : parts[o][w][p] \in Nat \cup {None}
    BY <2>1 DEF Types, Position, State
  <2>5. \A v, w \in AllWorkers : wire[v][w] \in Seq(Parts)
    BY <2>1 DEF Types
  <2> QED BY <2>1, <2>2, <2>3, <2>4, <2>5 DEF Types, TypeOK
<1> QED BY <1>1, Invariance, PTL

\* A set with at most one element counts at most one.
LEMMA AtMostOne ==
  ASSUME NEW S, \A x, y \in S : x = y
  PROVE  Cardinality(S) = 0 \/ (Cardinality(S) = 1 /\ \E x : x \in S)
<1>1. CASE S = {}
  BY <1>1, FS_EmptySet
<1>2. CASE S # {}
  <2>1. PICK x : x \in S
    BY <1>2
  <2>2. S = {x}
    BY <2>1
  <2> QED BY <2>1, <2>2, FS_Singleton
<1> QED BY <1>1, <1>2

\* However often the worker set changes and the job restarts, a partition of a source is
\* with one worker, or in one Acquire message, and never in both: no two workers read it
\* (on_collect gives it up before on_acquire takes it, on_data builds only what nobody
\* has).  The same holds of a partition of a sink unless its new owner began it ahead of
\* its state, with a record that another worker sent straight to it (message_router.rs:42).
THEOREM PartitionsHaveOnePlace == Spec => []OnePlacePerPartition
<1>1. IInv => OnePlacePerPartition
  <2> SUFFICES ASSUME IInv, NEW o \in Operators, NEW p \in Parts, Clean(o, p)
               PROVE  OnePlace(o, p)
    BY DEF OnePlacePerPartition, Clean, Operators
  <2> DEFINE H == {w \in AllWorkers : p \in Held(o, w)}
             M == {m \in moving : m.op = o /\ m.part = p}
  <2>1. SinglePlace
    BY DEF IInv
  <2>2. \A x, y \in H : x = y
    BY <2>1 DEF SinglePlace
  <2>3. \A x, y \in M : x = y
    BY <2>1 DEF SinglePlace
  <2>4. H = {} \/ M = {}
    BY <2>1 DEF SinglePlace
  <2> HIDE DEF H, M
  <2>5. Cardinality(H) = 0 \/ (Cardinality(H) = 1 /\ \E x : x \in H)
    BY <2>2, AtMostOne
  <2>6. Cardinality(M) = 0 \/ (Cardinality(M) = 1 /\ \E x : x \in M)
    BY <2>3, AtMostOne
  <2>7. Cardinality(H) + Cardinality(M) <= 1
    BY <2>4, <2>5, <2>6
  <2> QED BY <2>7 DEF H, M, OnePlace
<1> QED BY <1>1, Invariance, PTL

\* A stateful source (sources/stateful.rs) reads the records of every partition in order,
\* each of them once, through any number of rescales, snapshots and restarts.
THEOREM StatefulReadsOnce == Spec => []ReadExactlyOnce
<1>1. IInv => ReadExactlyOnce
  <2> SUFFICES ASSUME IInv, flavour = "stateful", NEW p \in Parts
               PROVE  log[p] = [i \in 1..Len(log[p]) |-> i]
    BY DEF ReadExactlyOnce
  <2>1. Types /\ log[p] \in Seq(Nat)
    BY DEF IInv, Types
  <2>2. /\ \A n \in Stands(p) : InOrder(log[p], n)
        /\ Stands(p) = {} => log[p] = <<>>
    BY DEF IInv, StatefulPositions
  <2>3. \A i \in 1..Len(log[p]) : log[p][i] = i
    BY <2>2 DEF InOrder
  <2> QED BY <2>1, <2>3
<1> QED BY <1>1, Invariance, PTL

\* No source skips a record when its partitions move or the job restarts, except a Kafka
\* source (malstrom-kafka/src/source.rs) after a restart: what has been read always reaches
\* back to the first record.
THEOREM NothingIsSkipped == Spec => []NoRecordSkipped
<1>1. IInv => NoRecordSkipped
  <2> SUFFICES ASSUME IInv, flavour = "kafka" => counts.crashes = 0, NEW p \in Parts, NEW i \in DOMAIN log[p]
               PROVE  log[p][i] = 1 \/ \E j \in 1..(i - 1) : log[p][j] = log[p][i] - 1
    BY DEF NoRecordSkipped
  <2>1. log[p] \in Seq(Nat)
    BY DEF IInv, Types
  <2>2. Chained(log[p])
    BY DEF IInv, ReachedPositions
  <2> QED BY <2>1, <2>2 DEF Chained
<1> QED BY <1>1, Invariance, PTL

\* Once a worker has sent MAX, every partition of the source has been read to its end,
\* wherever it is: no worker has anything left to read and none is given anything
\* (the edge case that sources/stateful.rs:151 describes).
THEOREM NothingAfterMax == Spec => []NoDataAfterMax
<1>1. IInv => NoDataAfterMax
  <2> SUFFICES ASSUME IInv, NEW w \in AllWorkers, maxSent[w], flavour = "stateless" => counts.scales = 0
               PROVE  /\ \A p \in Parts : Len(log[p]) >= Length[p]
                      /\ \A v \in AllWorkers : Unread(v) = {}
                      /\ \A m \in moving : m.op = "source" => m.state = Length[m.part]
    BY DEF NoDataAfterMax
  <2>1. Types /\ \A p \in Parts : Length[p] \in Nat
    BY PartitionsAssumption DEF IInv
  <2>2. \A p \in Parts : Len(log[p]) >= Length[p] /\ Stands(p) = {Length[p]}
    BY DEF IInv, MaxAfterAll, KnownIsExhausted, Exhausted
  <2>3. ASSUME NEW v \in AllWorkers, NEW p \in Held("source", v) PROVE ~(parts.source[v][p] < Length[p])
    <3>1. p \in Parts
      BY DEF Held
    <3>2. parts.source[v][p] \in Stands(p)
      BY <2>1, <3>1, StandsAt
    <3>3. parts.source[v][p] = Length[p]
      BY <2>2, <3>1, <3>2
    <3> QED BY <2>1, <3>1, <3>3
  <2>4. ASSUME NEW m \in moving, m.op = "source" PROVE m.state = Length[m.part]
    <3>1. m.part \in Parts
      BY <2>1 DEF Types, Acquires
    <3>2. m.state \in Stands(m.part)
      BY <2>1, <2>4, <3>1, StandsAt
    <3> QED BY <2>2, <3>1, <3>2
  <2> QED BY <2>2, <2>3, <2>4 DEF Unread
<1> QED BY <1>1, Invariance, PTL

----------------------------------------------------------------------------
(* The sink: where the count of a sink partition is and what it says.      *)

\* The counts of sink part q, with a worker or on its way to one.
Tallies(q) ==
  {n \in Nat : \/ \E w \in AllWorkers : parts.sink[w][q] = n
               \/ \E m \in moving : m.op = "sink" /\ m.part = q /\ m.state = n}

\* The records on their way to sink part q.
Flowing(q) == toSink[q] + ahead[q]

\* Every record is counted or on its way; a part that is nowhere has counted none.
Counted(q) ==
  /\ IsFiniteSet(RecordsFor(q))
  /\ \A n \in Tallies(q) : n + Flowing(q) = ReadFor(q)
  /\ Tallies(q) = {} => Flowing(q) = ReadFor(q)

SinkInv == counts.crashes = 0 => \A q \in Parts \ early : Counted(q)

\* Nothing happens to a part whose count, records and messages stay.
LEMMA CountedFrame ==
  ASSUME NEW q \in Parts, Counted(q), Tallies(q)' = Tallies(q), Flowing(q)' = Flowing(q), log' = log
  PROVE  Counted(q)'
<1>1. RecordsFor(q)' = RecordsFor(q)
  BY DEF RecordsFor
<1> QED BY <1>1 DEF Counted, ReadFor

\* A step that does not touch the sink.
LEMMA SinkFrame ==
  ASSUME SinkInv, UNCHANGED <<log, early>>, counts'.crashes = counts.crashes,
         \A q \in Parts : Tallies(q)' = Tallies(q) /\ Flowing(q)' = Flowing(q)
  PROVE  SinkInv'
BY CountedFrame DEF SinkInv

\* Reading a record of each of the polled parts adds as many records for a sink
\* part as messages are sent to it.
LEMMA ReadingAddsRecords ==
  ASSUME Types, NEW polled \in SUBSET Parts, NEW q \in Parts, IsFiniteSet(RecordsFor(q)),
         \A p \in polled : \E x \in Nat : log'[p] = Append(log[p], x),
         \A p \in Parts \ polled : log'[p] = log[p]
  PROVE  /\ IsFiniteSet(RecordsFor(q)')
         /\ ReadFor(q) \in Nat
         /\ Cardinality({p \in polled : AssignPart(p) = q}) \in Nat
         /\ ReadFor(q)' = ReadFor(q) + Cardinality({p \in polled : AssignPart(p) = q})
<1> DEFINE D == {p \in polled : AssignPart(p) = q}
           next(p) == <<p, Len(log[p]) + 1>>
           N == {next(p) : p \in D}
           f == [p \in D |-> next(p)]
           R == RecordsFor(q)
<1>1. \A p \in Parts : log[p] \in Seq(Nat) /\ Len(log[p]) \in Nat /\ DOMAIN log[p] = 1..Len(log[p])
  BY DEF Types
<1>2. \A p \in Parts : DOMAIN log'[p] = IF p \in polled THEN 1..(Len(log[p]) + 1) ELSE 1..Len(log[p])
  BY <1>1
<1>3. \A r : r \in R <=> \E p \in Parts : AssignPart(p) = q /\ \E i \in 1..Len(log[p]) : r = <<p, i>>
  BY <1>1 DEF RecordsFor
<1>4. \A r : r \in R' <=> \E p \in Parts : AssignPart(p) = q /\ \E i \in DOMAIN log'[p] : r = <<p, i>>
  BY DEF RecordsFor
<1>5. \A p \in Parts : \A i : i \in DOMAIN log'[p] <=> i \in 1..Len(log[p]) \/ (p \in polled /\ i = Len(log[p]) + 1)
  BY <1>1, <1>2
<1> HIDE DEF R
<1>6. R' = R \cup N
  BY <1>3, <1>4, <1>5
<1>7. R \cap N = {}
  <2> SUFFICES ASSUME NEW p \in D, next(p) \in R PROVE FALSE
    OBVIOUS
  <2>1. PICK x \in Parts : \E i \in 1..Len(log[x]) : next(p) = <<x, i>>
    BY <1>3
  <2> QED BY <1>1, <2>1
<1>8. IsFiniteSet(D)
  BY PartitionsAssumption, FS_Subset
<1>9. ExistsBijection(D, N)
  <2>1. f \in [D -> N] /\ \A p \in D : f[p] = next(p)
    OBVIOUS
  <2>2. \A a, b \in D : next(a) = next(b) => a = b
    OBVIOUS
  <2>3. \A r \in N : \E p \in D : f[p] = r
    BY <2>1
  <2> HIDE DEF f, N, D, next
  <2>4. f \in Bijection(D, N)
    BY <2>1, <2>2, <2>3 DEF Bijection, Injection, Surjection, IsInjective
  <2> QED BY <2>4 DEF ExistsBijection
<1> HIDE DEF D, N
<1>10. IsFiniteSet(N) /\ Cardinality(N) = Cardinality(D)
  BY <1>8, <1>9, FS_Bijection
<1>11. /\ IsFiniteSet(R \cup N)
       /\ Cardinality(R \cup N) = Cardinality(R) + Cardinality(N) - Cardinality(R \cap N)
  BY <1>10, FS_Union DEF R
<1>12. Cardinality(R) \in Nat /\ Cardinality(D) \in Nat /\ Cardinality(R \cap N) = 0
  BY <1>7, <1>8, FS_CardinalityType, FS_EmptySet DEF R
<1>13. /\ Cardinality(R) = ReadFor(q) /\ Cardinality(R') = ReadFor(q)'
       /\ IsFiniteSet(R') <=> IsFiniteSet(RecordsFor(q)')
  BY DEF R, ReadFor
<1>14. /\ IsFiniteSet(RecordsFor(q)') /\ ReadFor(q) \in Nat /\ Cardinality(D) \in Nat
       /\ ReadFor(q)' = ReadFor(q) + Cardinality(D)
  BY <1>6, <1>10, <1>11, <1>12, <1>13
<1> QED BY <1>14 DEF D

LEMMA OnScheduleCounts ==
  ASSUME IInv, SinkInv, NEW w \in AllWorkers, NEW polled \in SUBSET Parts, OnSchedule(w, polled)
  PROVE  SinkInv'
<1>1. /\ counts' = counts /\ moving' = moving /\ early' = early
      /\ toSink' = [q \in Parts |-> toSink[q] + IF RoutesAnew(w, q) THEN 0 ELSE AssignedTo(q, polled)]
      /\ ahead' = [q \in Parts |-> ahead[q] + IF RoutesAnew(w, q) THEN AssignedTo(q, polled) ELSE 0]
      /\ polled \subseteq Unread(w)
  BY DEF OnSchedule, moveVars, flowVars
<1>2. \E new : parts' = [parts EXCEPT !.source[w] = new]
  BY DEF OnSchedule
<1>3. Types
  BY DEF IInv
<1>4. \A v \in AllWorkers, q \in Parts : parts'.sink[v][q] = parts.sink[v][q]
  <2>1. parts'.sink = parts.sink
    BY <1>2, <1>3 DEF Types, Operators
  <2> QED BY <2>1
<1>5. \A q \in Parts : Tallies(q)' = Tallies(q)
  BY <1>1, <1>4 DEF Tallies
<1>6. \A p \in polled : p \in Parts /\ parts.source[w][p] \in Nat
  BY <1>1, <1>3, HeldType DEF Unread, Held, Operators
<1>7. \A p \in Parts : log'[p] = IF p \in polled THEN Append(log[p], parts.source[w][p] + 1) ELSE log[p]
  BY DEF OnSchedule
<1>8. /\ \A p \in polled : \E x \in Nat : log'[p] = Append(log[p], x)
      /\ \A p \in Parts \ polled : log'[p] = log[p]
  <2>1. \A p \in polled : parts.source[w][p] + 1 \in Nat
    BY <1>6
  <2> QED BY <1>6, <1>7, <2>1
<1> SUFFICES ASSUME counts.crashes = 0, NEW q \in Parts \ early PROVE Counted(q)'
  BY <1>1 DEF SinkInv
<1> DEFINE c == AssignedTo(q, polled)
<1>9. Counted(q)
  BY DEF SinkInv
<1>10. IsFiniteSet(RecordsFor(q)') /\ ReadFor(q) \in Nat /\ c \in Nat /\ ReadFor(q)' = ReadFor(q) + c
  BY <1>3, <1>8, <1>9, ReadingAddsRecords DEF Counted, AssignedTo
<1>11. Flowing(q)' = Flowing(q) + c /\ Flowing(q) \in Nat
  BY <1>1, <1>3, <1>10 DEF Flowing, Types
<1> HIDE DEF c
<1>12. \A n \in Tallies(q) : n \in Nat
  BY DEF Tallies
<1> QED BY <1>5, <1>9, <1>10, <1>11, <1>12 DEF Counted

\* A record arrives: it is no longer on its way, and counted.
LEMMA RecordTakenCounts ==
  ASSUME IInv, SinkInv, NEW p \in Parts, NEW w \in AllWorkers, w # None, parts' = Counts(w, p),
         UNCHANGED <<moving, log, counts>>,
         \A q \in Parts : Flowing(q) \in Nat /\ Flowing(q)' = IF q = p THEN Flowing(q) - 1 ELSE Flowing(q),
         early \subseteq early', Clean("sink", p)' => w = Home("sink", p)
  PROVE  SinkInv'
<1> DEFINE x == IF parts.sink[w][p] = None THEN 1 ELSE parts.sink[w][p] + 1
<1>2. Types /\ HeldWhereItBelongs /\ SentToOwner /\ SinglePlace /\ None \notin Nat /\ "sink" \in Operators
  BY PartitionsAssumption DEF IInv, Placement, Operators
<1>4. parts' = Put("sink", w, p, x)
  BY DEF Put, Counts
<1>5. x \in Nat /\ x \in State
  BY <1>2, HeldType DEF State
<1> HIDE DEF x
<1>6. \A v \in AllWorkers, q \in Parts : parts'.sink[v][q] = IF v = w /\ q = p THEN x ELSE parts.sink[v][q]
  BY <1>2, <1>4, <1>5, CellStep
<1>11. \A q \in Parts : q # p => Tallies(q)' = Tallies(q) /\ Flowing(q)' = Flowing(q)
  BY <1>2, <1>6 DEF Tallies
<1> SUFFICES ASSUME counts.crashes = 0, NEW q \in Parts \ early' PROVE Counted(q)'
  BY DEF SinkInv
<1>12. Counted(q)
  BY DEF SinkInv
<1>13. CASE q # p
  BY <1>11, <1>12, <1>13, CountedFrame
<1>14. CASE q = p
  <2>a. Clean("sink", p) /\ Clean("sink", p)'
    BY <1>14 DEF Clean
  <2>b. \/ p \in Held("sink", w)
        \/ /\ \A v \in AllWorkers : p \notin Held("sink", v)
           /\ \A m \in moving : ~(m.op = "sink" /\ m.part = p)
    BY <1>2, <2>a, HomeIsRight
  <2>c. \A v \in AllWorkers : v # w => parts.sink[v][p] = None
    <3>1. \A v \in AllWorkers : v # w => p \notin Held("sink", v)
      BY <1>2, <2>a, <2>b DEF SinglePlace
    <3> QED BY <1>2, <3>1, HeldType
  <2>d. \A m \in moving : ~(m.op = "sink" /\ m.part = p)
    BY <1>2, <2>a, <2>b DEF SinglePlace
  <2>e. Tallies(p)' = {x}
    BY <1>2, <1>5, <1>6, <2>c, <2>d DEF Tallies
  <2>f. Tallies(p) = IF parts.sink[w][p] = None THEN {} ELSE {parts.sink[w][p]}
    <3>1. parts.sink[w][p] = None \/ parts.sink[w][p] \in Nat
      BY <1>2, HeldType DEF State
    <3> QED BY <1>2, <2>c, <2>d, <3>1 DEF Tallies
  <2>1. RecordsFor(p)' = RecordsFor(p) /\ ReadFor(p)' = ReadFor(p)
    BY DEF RecordsFor, ReadFor
  <2>2. Flowing(p)' = Flowing(p) - 1 /\ Flowing(p) \in Nat
    OBVIOUS
  <2>3. ReadFor(p) \in Nat
    BY <1>12, <1>14, FS_CardinalityType DEF Counted, ReadFor
  <2>4. x + (Flowing(p) - 1) = ReadFor(p)
    <3>1. CASE parts.sink[w][p] = None
      BY <1>12, <1>14, <2>2, <2>3, <2>f, <3>1 DEF x, Counted
    <3>2. CASE parts.sink[w][p] # None
      <4>1. parts.sink[w][p] \in Nat
        BY <1>2, <3>2, HeldType DEF State
      <4>2. parts.sink[w][p] + Flowing(p) = ReadFor(p)
        BY <1>12, <1>14, <2>f, <3>2 DEF Counted
      <4>3. x = parts.sink[w][p] + 1
        BY <3>2 DEF x
      <4> QED BY <2>2, <2>3, <4>1, <4>2, <4>3
    <3> QED BY <3>1, <3>2
  <2>5. Counted(p)'
    BY <1>12, <1>14, <2>1, <2>2, <2>4, <2>e DEF Counted
  <2> QED BY <1>14, <2>5
<1> QED BY <1>13, <1>14

LEMMA SinkOnDataCounts ==
  ASSUME IInv, SinkInv, NEW p \in Parts, SinkOnData(p)
  PROVE  SinkInv'
<1> DEFINE w == Home("sink", p)
<1>1. /\ UNCHANGED <<moving, log, counts, ahead, early>>
      /\ toSink[p] > 0 /\ w # None /\ toSink' = [toSink EXCEPT ![p] = @ - 1] /\ parts' = Counts(w, p)
  BY DEF SinkOnData, moveVars
<1>2. Types /\ HeldWhereItBelongs /\ SentToOwner /\ "sink" \in Operators
  BY DEF IInv, Placement, Operators
<1>3. w \in AllWorkers
  BY <1>1, <1>2, HomeIsRight, ActiveType
<1>4. \A q \in Parts : Flowing(q) \in Nat /\ Flowing(q)' = IF q = p THEN Flowing(q) - 1 ELSE Flowing(q)
  BY <1>1, <1>2 DEF Types, Flowing
<1> QED BY <1>1, <1>3, <1>4, RecordTakenCounts

LEMMA SinkOnDataAheadCounts ==
  ASSUME IInv, SinkInv, NEW p \in Parts, SinkOnDataAhead(p)
  PROVE  SinkInv'
<1>1. PICK w \in Takers(p) :
        /\ ahead[p] > 0 /\ w # None /\ ahead' = [ahead EXCEPT ![p] = @ - 1] /\ parts' = Counts(w, p)
        /\ early' = IF w = Home("sink", p) THEN early ELSE early \cup {p}
  BY DEF SinkOnDataAhead
<1>2. UNCHANGED <<moving, log, counts, toSink>>
  BY DEF SinkOnDataAhead, moveVars
<1>3. Types /\ HeldWhereItBelongs /\ SentToOwner
  BY DEF IInv, Placement
<1>4. w \in AllWorkers
  BY <1>1, <1>3, TakersType
<1>5. \A q \in Parts : Flowing(q) \in Nat /\ Flowing(q)' = IF q = p THEN Flowing(q) - 1 ELSE Flowing(q)
  BY SMTT(30), <1>1, <1>2, <1>3 DEF Types, Flowing
<1>6. early \subseteq early' /\ (Clean("sink", p)' => w = Home("sink", p))
  BY <1>1 DEF Clean
<1> QED BY <1>1, <1>2, <1>4, <1>5, <1>6, RecordTakenCounts

\* on_collect puts the count of a sink part into the message.
LEMMA OnCollectCounts ==
  ASSUME IInv, SinkInv, NEW o \in Operators, NEW w \in AllWorkers, NEW p \in Parts, OnCollect(o, w, p),
         Owner(p, target) # w
  PROVE  SinkInv'
<1> DEFINE m0 == [op |-> o, part |-> p, to |-> Owner(p, target), state |-> parts[o][w][p]]
<1>1. UNCHANGED <<toSink, ahead, early, log, counts>> /\ p \in give[o][w]
  BY DEF OnCollect, flowVars
<1>2. moving' = moving \cup {m0}
  BY DEF OnCollect, Collected, SourceState, SinkState, Operators
<1>3. parts' = Put(o, w, p, None)
  BY DEF OnCollect, Put
<1>4. Types /\ SinglePlace /\ None \notin Nat /\ None \in State /\ p \in Held(o, w)
  BY <1>1, PartitionsAssumption DEF IInv, Placement, GivesWhileCollecting, State
<1>5. m0.op = o /\ m0.part = p /\ m0.state = parts[o][w][p]
  OBVIOUS
<1>6. \A v \in AllWorkers, q \in Parts :
         parts'.sink[v][q] = IF o = "sink" /\ v = w /\ q = p THEN None ELSE parts.sink[v][q]
  BY <1>3, <1>4, CellStep DEF Operators
<1>7. Clean(o, p) => \A v \in AllWorkers : v # w => parts[o][v][p] = None
  BY <1>4, HeldType DEF SinglePlace
<1> HIDE DEF m0
<1> SUFFICES ASSUME counts.crashes = 0, NEW q \in Parts \ early PROVE Counted(q)'
  BY <1>1 DEF SinkInv
<1>8. Tallies(q)' = Tallies(q)
  <2>1. CASE o = "sink" /\ q = p
    <3>c. Clean(o, p)
      BY <2>1 DEF Clean
    <3>1. parts.sink[w][q] \in Nat
      BY <1>4, <2>1, HeldType
    <3>2. \A m \in moving : ~(m.op = "sink" /\ m.part = q)
      BY <1>4, <2>1, <3>c DEF SinglePlace
    <3>3. Tallies(q) = {parts.sink[w][q]}
      BY <1>4, <1>7, <2>1, <3>1, <3>2, <3>c DEF Tallies
    <3>4. Tallies(q)' = {parts.sink[w][q]}
      BY <1>2, <1>4, <1>5, <1>6, <1>7, <2>1, <3>1, <3>2, <3>c DEF Tallies
    <3> QED BY <3>3, <3>4
  <2>2. CASE ~(o = "sink" /\ q = p)
    BY <1>2, <1>5, <1>6, <2>2 DEF Tallies
  <2> QED BY <2>1, <2>2
<1> QED BY <1>1, <1>8, CountedFrame DEF SinkInv, Flowing

\* on_acquire takes the count of a sink part out of the message.
LEMMA OnAcquireCounts ==
  ASSUME IInv, SinkInv, NEW m0 \in moving, OnAcquire(m0)
  PROVE  SinkInv'
<1> DEFINE o == m0.op
           w == m0.to
           p == m0.part
           x == Acquired(m0)
<1>1. UNCHANGED <<toSink, ahead, early, log, counts>> /\ moving' = moving \ {m0} /\ parts' = Put(o, w, p, x)
  BY DEF OnAcquire, Put, flowVars
<1>2. Types /\ SinglePlace /\ None \notin Nat
  BY PartitionsAssumption DEF IInv
<1>3. o \in Operators /\ w \in AllWorkers /\ p \in Parts /\ m0.state \in Nat
  BY <1>2 DEF Types, Acquires
<1>4. m0.state \in State /\ m0.state # None
  BY <1>2, <1>3 DEF State
<1>5. x \in Nat /\ x \in State /\ (o = "sink" => x = m0.state)
  BY <1>2, <1>3, <1>4, BuildPartType DEF Acquired, AcquireSink, AcquireSource, State
<1>6. Clean(o, p) => \A m \in moving : m # m0 => ~(m.op = o /\ m.part = p)
  BY <1>2 DEF SinglePlace
<1>7. Clean(o, p) => \A v \in AllWorkers : parts[o][v][p] = None
  BY <1>2, <1>3, HeldType DEF SinglePlace
<1> HIDE DEF x, o, w, p
<1>8. \A v \in AllWorkers, q \in Parts :
         parts'.sink[v][q] = IF o = "sink" /\ v = w /\ q = p THEN x ELSE parts.sink[v][q]
  BY <1>1, <1>2, <1>3, <1>5, CellStep DEF Operators
<1> SUFFICES ASSUME counts.crashes = 0, NEW q \in Parts \ early PROVE Counted(q)'
  BY <1>1 DEF SinkInv
<1>9. Tallies(q)' = Tallies(q)
  <2>1. CASE o = "sink" /\ q = p
    <3>c. Clean(o, p)
      BY <2>1 DEF Clean
    <3>1. \A v \in AllWorkers : parts.sink[v][q] = None
      BY <1>7, <2>1, <3>c
    <3>2. \A m \in moving : m.op = "sink" /\ m.part = q <=> m = m0
      BY <1>6, <2>1, <3>c DEF o, p
    <3>3. Tallies(q) = {m0.state}
      BY <1>2, <1>3, <3>1, <3>2 DEF Tallies
    <3>4. Tallies(q)' = {x}
      BY <1>1, <1>2, <1>3, <1>5, <1>8, <2>1, <3>1, <3>2 DEF Tallies
    <3> QED BY <1>5, <2>1, <3>3, <3>4
  <2>2. CASE ~(o = "sink" /\ q = p)
    BY <1>1, <1>8, <2>2 DEF Tallies, o, p
  <2> QED BY <2>1, <2>2
<1> QED BY <1>1, <1>9, CountedFrame DEF SinkInv, Flowing

\* Building a source partition leaves the sink alone.
LEMMA OnDataCounts ==
  ASSUME IInv, SinkInv, NEW p \in Parts, OnData(p)
  PROVE  SinkInv'
<1> DEFINE w == Home("source", p)
           x == BuildPart(p, None)
<1>1. UNCHANGED <<toSink, ahead, early, log, counts, moving>> /\ w # None
  BY DEF OnData, moveVars, flowVars
<1>2. parts' = parts \/ parts' = Put("source", w, p, x)
  BY DEF OnData, Put
<1>3. Types /\ HeldWhereItBelongs /\ SentToOwner /\ "source" \in Operators
  BY DEF IInv, Placement, Operators
<1>4. w \in AllWorkers
  BY <1>1, <1>3, HomeIsRight, ActiveType
<1>5. x \in State
  BY <1>3, BuildPartType DEF State
<1> HIDE DEF w, x
<1>6. \A v \in AllWorkers, q \in Parts : parts'.sink[v][q] = parts.sink[v][q]
  BY <1>2, <1>3, <1>4, <1>5, CellStep DEF Operators
<1>7. \A q \in Parts : Tallies(q)' = Tallies(q)
  BY <1>1, <1>6 DEF Tallies
<1> QED BY <1>1, <1>7, SinkFrame DEF Flowing

\* When a rescale is done the records that went straight to a new owner go the
\* same way as the others.
LEMMA RescaleDoneCounts ==
  ASSUME IInv, SinkInv, RescaleDone
  PROVE  SinkInv'
<1>1. /\ UNCHANGED <<parts, moving, early, log, counts>>
      /\ toSink' = [p \in Parts |-> toSink[p] + ahead[p]] /\ ahead' = [p \in Parts |-> 0]
  BY DEF RescaleDone
<1>2. \A q \in Parts : Flowing(q)' = Flowing(q)
  BY <1>1 DEF IInv, Types, Flowing
<1>3. \A q \in Parts : Tallies(q)' = Tallies(q)
  BY <1>1 DEF Tallies
<1> QED BY <1>1, <1>2, <1>3, SinkFrame

\* A restart ends what is claimed.
LEMMA RestartCounts ==
  ASSUME IInv, SinkInv, Restart
  PROVE  SinkInv'
<1>1. counts' = [counts EXCEPT !.crashes = @ + 1] /\ counts \in [scales : Nat, shrinks : Nat, snapshots : Nat, crashes : Nat]
  BY DEF Restart, IInv, Types
<1>2. counts'.crashes # 0
  BY <1>1
<1> QED BY <1>2 DEF SinkInv

\* The other steps change neither who holds a sink part nor its records.
LEMMA OtherCounts ==
  ASSUME SinkInv, UNCHANGED <<parts, moving, toSink, ahead, early, log>>, counts'.crashes = counts.crashes
  PROVE  SinkInv'
<1>1. \A q \in Parts : Tallies(q)' = Tallies(q) /\ Flowing(q)' = Flowing(q)
  BY DEF Tallies, Flowing
<1> QED BY <1>1, SinkFrame

LEMMA InitCounts == Init => SinkInv
<1> SUFFICES ASSUME Init, NEW q \in Parts PROVE Counted(q)
  BY DEF SinkInv
<1>1. \A w \in AllWorkers : parts.sink[w][q] = None
  BY DEF Init, Operators, NoParts
<1>2. Tallies(q) = {}
  BY <1>1, PartitionsAssumption DEF Tallies, Init
<1>3. RecordsFor(q) = {}
  <2>1. \A p \in Parts : DOMAIN log[p] = {}
    BY DEF Init
  <2> QED BY <2>1 DEF RecordsFor
<1>4. Flowing(q) = 0
  BY DEF Init, Flowing
<1> QED BY <1>2, <1>3, <1>4, FS_EmptySet DEF Counted, ReadFor

LEMMA NextKeepsCounts == IInv /\ SinkInv /\ [Next]_vars => SinkInv'
<1> SUFFICES ASSUME IInv, SinkInv, [Next]_vars PROVE SinkInv'
  OBVIOUS
<1>1. counts \in [scales : Nat, shrinks : Nat, snapshots : Nat, crashes : Nat]
  BY DEF IInv, Types
<1>2. CASE UNCHANGED vars
  BY <1>2, OtherCounts DEF vars, moveVars, flowVars
<1>3. CASE Next
  <2>1. CASE ListParts
    BY <2>1, OtherCounts DEF ListParts, moveVars, flowVars
  <2>2. ASSUME NEW p \in Parts, OnData(p) \/ SinkOnData(p) \/ SinkOnDataAhead(p) PROVE SinkInv'
    BY <2>2, OnDataCounts, SinkOnDataCounts, SinkOnDataAheadCounts
  <2>3. ASSUME NEW w \in AllWorkers, NEW polled \in SUBSET Parts, OnSchedule(w, polled) PROVE SinkInv'
    BY <2>3, OnScheduleCounts
  <2>4. ASSUME NEW w \in AllWorkers, NEW p \in Parts, AutoCommit(w, p) PROVE SinkInv'
    BY <2>4, OtherCounts DEF AutoCommit, moveVars, flowVars
  <2>5. ASSUME NEW S \in Scales, Rescale(S) PROVE SinkInv'
    BY <1>1, <2>5, OtherCounts DEF Rescale, moveVars, flowVars
  <2>6. ASSUME NEW o \in Operators, NEW w \in AllWorkers, OnInterrogate(o, w) \/ OnRescale(o, w) PROVE SinkInv'
    BY <2>6, OtherCounts DEF OnInterrogate, OnRescale, flowVars
  <2>7. ASSUME NEW o \in Operators, NEW w \in AllWorkers, NEW p \in Parts, OnCollect(o, w, p) PROVE SinkInv'
    <3>1. CASE Owner(p, target) = w
      BY <2>7, <3>1, OtherCounts DEF OnCollect, flowVars
    <3>2. CASE Owner(p, target) # w
      BY <2>7, <3>2, OnCollectCounts
    <3> QED BY <3>1, <3>2
  <2>8. ASSUME NEW m \in moving, OnAcquire(m) PROVE SinkInv'
    BY <2>8, OnAcquireCounts
  <2>9. CASE RescaleDone
    BY <2>9, RescaleDoneCounts
  <2>10. CASE StartSnapshot
    BY <1>1, <2>10, OtherCounts DEF StartSnapshot, moveVars, flowVars
  <2>11. CASE CommitSnapshot
    BY <2>11, OtherCounts DEF CommitSnapshot, moveVars, flowVars
  <2>12. CASE Restart
    BY <2>12, RestartCounts
  <2>13. ASSUME NEW w \in AllWorkers, NEW acked \in SUBSET Parts, OnBarrier(w, acked) PROVE SinkInv'
    BY <2>13, OtherCounts DEF OnBarrier, moveVars, flowVars
  <2> QED BY <1>3, <2>1, <2>2, <2>3, <2>4, <2>5, <2>6, <2>7, <2>8, <2>9, <2>10, <2>11, <2>12, <2>13 DEF Next
<1> QED BY <1>2, <1>3

\* As long as no worker leaves or panics and the job is not restarted, a sink partition
\* (sinks/stateful.rs) has counted every record that was read for it, or the record is on
\* its way: on_collect and on_acquire carry the count along.  The exception is a partition
\* that its new owner began ahead of its state: on_acquire replaces what it has counted.
THEOREM SinkMissesNothing == Spec => []SinkCountsEveryRecord
<1>1. IInv /\ SinkInv => SinkCountsEveryRecord
  <2> SUFFICES ASSUME IInv, SinkInv, counts.crashes = 0, NEW p \in Parts \ early
               PROVE  LET held == {w \in AllWorkers : p \in Held("sink", w)}
                          sent == {m \in moving : m.op = "sink" /\ m.part = p}
                          have == IF held # {} THEN parts.sink[CHOOSE w \in held : TRUE][p]
                                  ELSE IF sent # {} THEN (CHOOSE m \in sent : TRUE).state ELSE 0
                      IN  have + toSink[p] + ahead[p] = ReadFor(p)
    BY DEF SinkCountsEveryRecord
  <2> DEFINE held == {w \in AllWorkers : p \in Held("sink", w)}
             sent == {m \in moving : m.op = "sink" /\ m.part = p}
             have == IF held # {} THEN parts.sink[CHOOSE w \in held : TRUE][p]
                     ELSE IF sent # {} THEN (CHOOSE m \in sent : TRUE).state ELSE 0
  <2>1. Types /\ Counted(p) /\ "sink" \in Operators /\ toSink[p] \in Nat /\ ahead[p] \in Nat
    BY DEF IInv, SinkInv, Operators, Types
  <2>a. \A n \in Tallies(p) : n \in Nat /\ n + toSink[p] + ahead[p] = ReadFor(p)
    BY <2>1 DEF Counted, Tallies, Flowing
  <2>2. CASE held # {}
    <3>1. PICK w : w = CHOOSE v \in held : TRUE
      OBVIOUS
    <3>2. w \in held
      BY <2>2, <3>1
    <3>3. parts.sink[w][p] \in Tallies(p)
      BY <2>1, <3>2, HeldType DEF Tallies
    <3> QED BY <2>2, <2>a, <3>1, <3>3
  <2>3. CASE held = {} /\ sent # {}
    <3>1. PICK m : m = CHOOSE n \in sent : TRUE
      OBVIOUS
    <3>2. m \in sent
      BY <2>3, <3>1
    <3>3. m.state \in Tallies(p)
      BY <2>1, <3>2 DEF Tallies, Types, Acquires
    <3> QED BY <2>3, <2>a, <3>1, <3>3
  <2>4. CASE held = {} /\ sent = {}
    <3>1. \A w \in AllWorkers : parts.sink[w][p] = None
      BY <2>1, <2>4, HeldType
    <3>2. Tallies(p) = {}
      BY <2>4, <3>1, PartitionsAssumption DEF Tallies
    <3> QED BY <2>1, <2>4, <3>2 DEF Counted, Flowing
  <2> QED BY <2>2, <2>3, <2>4
<1> QED BY <1>1, InitIsGood, InitCounts, NextKeepsInvariant, NextKeepsCounts, PTL DEF Spec
=============================================================================
