-------------------------- MODULE MigrationProofs --------------------------
(***************************************************************************)
(* The state of the keys while workers join: in one place at every moment, *)
(* and with every update in it, for every rendezvous partitioner, every    *)
(* number of reconfigurations and upstreams that pause meanwhile.          *)
(*                                                                         *)
(* A key has an old and a new owner in a reconfiguration.  The old owner   *)
(* holds it until it has collected it, and has given it away from then on  *)
(* (Holds, Given); the new owner starts to get data of it only after that. *)
(* The state arrives ahead of this data on the link and in the queue of    *)
(* the operators (StateFirst), so it overwrites nothing.                   *)
(***************************************************************************)
EXTENDS DistributorProofs

----------------------------------------------------------------------------
\* The workers before the reconfiguration under way, and the owners of a key
\* before and after it.
Former    == IF round = 0 THEN InitWorkers ELSE WorkersBefore(round)
OldOwner  == Target[Former]
NewOwner  == Target[Members]
Top       == IF round = 0 THEN 0 ELSE FirstVersion + round - 1
Base      == IF round <= 1 THEN 0 ELSE FirstVersion + round - 2
Untold(w) == delivered[w] < round

MovesAway(w, key) == OldOwner[key] = w /\ NewOwner[key] # w
MovesTo(w, key)   == OldOwner[key] # w /\ NewOwner[key] = w

\* What a queue holds for a key.
IsData(m, key)  == m.kind = "Data" /\ m.data.key = key
IsState(m, key) == m.kind = "Acquire" /\ m.key = key
HasKind(q, kind)   == \E n \in DOMAIN q : q[n].kind = kind
HasData(q, key)    == \E n \in DOMAIN q : IsData(q[n], key)
HasState(q, key)   == \E n \in DOMAIN q : IsState(q[n], key)
HasUpdate(q, key, i) == \E n \in DOMAIN q : IsState(q[n], key) /\ i \in q[n].state

\* The state of a key is there once, and ahead of the data.
StateFirst(q, key) ==
  \A m, n \in DOMAIN q : m < n /\ IsState(q[n], key) => ~IsData(q[m], key) /\ ~IsState(q[m], key)

\* One Collect message, and no data of its key behind it.
CollectsLast(q, key) ==
  \A n \in DOMAIN q : q[n].kind = "Collect" =>
     /\ q[n].key = key
     /\ \A m \in DOMAIN q : m > n => q[m].kind # "Collect" /\ ~IsData(q[m], key)

\* Data the interrogation under way does not see; state behind the last Rescale.
Loose(q, key) ==
  \E n \in DOMAIN q : IsData(q[n], key) /\ \A m \in DOMAIN q : m > n => q[m].kind # "Interrogate"
Open(q) ==
  \E n \in DOMAIN q : q[n].kind = "Acquire" /\ \A m \in DOMAIN q : m > n => q[m].kind # "Rescale"

\* What a worker sends to w in a reconfiguration up to its Upgrade, and nothing
\* of it after that; o tells the new owner of a key, t is the version.
Stuff(m, w, o) == m.kind \in {"Acquire", "Upgrade"} \/ (m.kind = "Data" /\ o[m.data.key] # w)
Clear(q, w, o) == \A n \in DOMAIN q : ~Stuff(q[n], w, o)
Closed(q, w, o, t) ==
  \A n \in DOMAIN q : q[n].kind = "Upgrade" =>
     q[n].version = t /\ \A m \in DOMAIN q : m > n => ~Stuff(q[m], w, o)

\* No data of a later version than v.
UpTo(q, v) == \A n \in DOMAIN q : q[n].kind = "Data" => q[n].version <= v

\* The old owner keeps the key, ...
Holds(key) ==
  LET w == OldOwner[key]
  IN  \/ Untold(w) \/ mode[w] = "Interrogate"
      \/ mode[w] = "Collect" /\ (key \in whitelist[w] \/ (collecting[w] = key /\ HasKind(out[w], "Collect")))
\* ... or has given it away.
Given(key) ==
  LET w == OldOwner[key]
  IN  /\ ~Untold(w)
      /\ \/ mode[w] \in {"Finished", "Normal"}
         \/ mode[w] = "Collect" /\ key \notin whitelist[w] /\ collecting[w] # key

\* The reconfiguration is over for w and its operators.
Done(w) == ~Untold(w) /\ mode[w] = "Normal" /\ ~HasKind(out[w], "Rescale")

\* Worker w may hold state of the key; link <<r, w>> may hold data of it.
Serves(w, key) ==
  \/ OldOwner[key] = w /\ (NewOwner[key] = w \/ Holds(key))
  \/ MovesTo(w, key) /\ Given(key)
MayCarry(r, w, key) ==
  \/ OldOwner[key] = w
  \/ MovesTo(w, key) /\ Given(key) /\ (OldOwner[key] = r \/ Done(w))

----------------------------------------------------------------------------
\* The invariant.

Config(w) ==
  /\ newSet[w] = IF w \in Former /\ Untold(w) THEN Former ELSE Members
  /\ oldSet[w] = IF w \in Former /\ (Untold(w) \/ mode[w] # "Normal") THEN Former ELSE Members
  /\ version[w] = IF ~Untold(w) /\ mode[w] # "Interrogate" THEN Top
                  ELSE IF w \in Former THEN Base ELSE 0

Closing(w) ==
  round > 0 /\ ~Untold(w) /\ mode[w] = "Normal" =>
    ~Open(out[w]) /\ \A r \in remotes[w] : lastVersion[w][r] = Top

KeysToCollect(w) ==
  /\ \A key \in whitelist[w] : mode[w] \in {"Interrogate", "Collect"} /\ MovesAway(w, key)
  /\ \A key \in Keys : collecting[w] = key => MovesAway(w, key) /\ key \notin whitelist[w]
  /\ \A n \in DOMAIN buffered[w] : buffered[w][n].key = collecting[w]

Collects(w) ==
  /\ HasKind(out[w], "Collect") => mode[w] = "Collect" /\ collected[w] = {}
  /\ CollectsLast(out[w], collecting[w])

Interrogates(w) ==
  /\ HasKind(out[w], "Interrogate") => mode[w] = "Interrogate"
  /\ mode[w] = "Interrogate" =>
       \A key \in Keys : MovesAway(w, key) =>
         /\ opState[w][key] # {} /\ ~HasKind(out[w], "Interrogate") => key \in whitelist[w]
         /\ Loose(out[w], key) => key \in whitelist[w]

WorkerOK(w) == Config(w) /\ Closing(w) /\ KeysToCollect(w) /\ Collects(w) /\ Interrogates(w)

\* Nothing of the key has come to w yet.
Vacant(w, key) == ~HasData(out[w], key) /\ ~HasState(out[w], key) /\ opState[w][key] = {}

LinkOK(r, w) ==
  /\ \A key \in Keys :
       /\ HasData(chan[<<r, w>>], key) => MayCarry(r, w, key)
       /\ HasState(chan[<<r, w>>], key) =>
            /\ OldOwner[key] = r /\ MovesTo(w, key) /\ Given(key)
            /\ Vacant(w, key)
       /\ StateFirst(chan[<<r, w>>], key)
  /\ Closed(chan[<<r, w>>], w, NewOwner, Top)
  /\ round = 0 \/ lastVersion[w][r] = Top => Clear(chan[<<r, w>>], w, NewOwner)
  /\ UpTo(chan[<<r, w>>], Top)
  /\ w \in Former => UpTo(chan[<<r, w>>], version[w])

QueueOK(w) ==
  \A key \in Keys :
    /\ HasData(out[w], key) \/ opState[w][key] # {} => Serves(w, key)
    /\ HasState(out[w], key) => MovesTo(w, key) /\ Given(key) /\ opState[w][key] = {}
    /\ StateFirst(out[w], key)

Pristine ==
  /\ \A w \in Workers \ alive :
       version[w] = 0 /\ out[w] = <<>> /\ \A key \in Keys : opState[w][key] = {}
  /\ \A r, w \in Workers : r = w \/ r \notin alive \/ w \notin alive => chan[<<r, w>>] = <<>>

Migration ==
  /\ Pristine
  /\ \A w \in alive : WorkerOK(w) /\ QueueOK(w) /\ \A r \in alive \ {w} : LinkOK(r, w)

----------------------------------------------------------------------------
\* A message is added to a queue: what the queue holds then, ...
LEMMA AddedHas ==
  ASSUME NEW S, NEW q \in Seq(S), NEW m \in S
  PROVE  /\ Append(q, m) \in Seq(S)
         /\ \A kind : HasKind(Append(q, m), kind) <=> HasKind(q, kind) \/ m.kind = kind
         /\ \A key : HasData(Append(q, m), key) <=> HasData(q, key) \/ IsData(m, key)
         /\ \A key : HasState(Append(q, m), key) <=> HasState(q, key) \/ IsState(m, key)
         /\ \A key, i : HasUpdate(Append(q, m), key, i)
                          <=> HasUpdate(q, key, i) \/ (IsState(m, key) /\ i \in m.state)
<1> DEFINE t == Append(q, m)
           l == Len(q) + 1
<1>1. /\ t \in Seq(S) /\ l \in DOMAIN t /\ t[l] = m
      /\ \A n \in DOMAIN q : n \in DOMAIN t /\ t[n] = q[n]
      /\ \A n \in DOMAIN t : n \in DOMAIN q \/ n = l
  BY AppendAt
<1> HIDE DEF t, l
<1>2. \A kind : HasKind(t, kind) <=> HasKind(q, kind) \/ m.kind = kind
  BY <1>1 DEF HasKind
<1>3. \A key : HasData(t, key) <=> HasData(q, key) \/ IsData(m, key)
  BY <1>1 DEF HasData
<1>4. \A key : HasState(t, key) <=> HasState(q, key) \/ IsState(m, key)
  BY <1>1 DEF HasState
<1>5. \A key, i : HasUpdate(t, key, i) <=> HasUpdate(q, key, i) \/ (IsState(m, key) /\ i \in m.state)
  BY <1>1 DEF HasUpdate
<1> QED BY <1>1, <1>2, <1>3, <1>4, <1>5 DEF t

\* ... the order in a queue of operators, ...
LEMMA AddedOrder ==
  ASSUME NEW S, NEW q \in Seq(S), NEW m \in S, NEW key
  PROVE  /\ StateFirst(q, key) /\ ~(IsState(m, key) /\ (HasData(q, key) \/ HasState(q, key)))
              => StateFirst(Append(q, m), key)
         /\ (/\ CollectsLast(q, key)
             /\ m.kind = "Collect" => m.key = key /\ ~HasKind(q, "Collect")
             /\ IsData(m, key) => ~HasKind(q, "Collect"))
              => CollectsLast(Append(q, m), key)
         /\ Loose(Append(q, m), key) => IsData(m, key) \/ (Loose(q, key) /\ m.kind # "Interrogate")
         /\ Open(Append(q, m)) => m.kind = "Acquire" \/ (Open(q) /\ m.kind # "Rescale")
<1> DEFINE t == Append(q, m)
           l == Len(q) + 1
<1>1. /\ l \in DOMAIN t /\ t[l] = m /\ l \in Nat
      /\ \A n \in DOMAIN q : n \in Nat /\ n < l /\ n \in DOMAIN t /\ t[n] = q[n]
      /\ \A n \in DOMAIN t : n \in DOMAIN q \/ n = l
  BY AppendAt
<1> HIDE DEF t, l
<1>2. ASSUME StateFirst(q, key), ~(IsState(m, key) /\ (HasData(q, key) \/ HasState(q, key)))
      PROVE  StateFirst(t, key)
  BY <1>1, <1>2 DEF StateFirst, HasData, HasState
<1>3. ASSUME CollectsLast(q, key), m.kind = "Collect" => m.key = key /\ ~HasKind(q, "Collect"),
             IsData(m, key) => ~HasKind(q, "Collect")
      PROVE  CollectsLast(t, key)
  <2> SUFFICES ASSUME NEW n \in DOMAIN t, t[n].kind = "Collect"
               PROVE  /\ t[n].key = key
                      /\ \A x \in DOMAIN t : x > n => t[x].kind # "Collect" /\ ~IsData(t[x], key)
    BY DEF CollectsLast
  <2>1. CASE n = l
    BY <1>1, <1>3, <2>1
  <2>2. CASE n \in DOMAIN q
    <3>1. q[n].kind = "Collect" /\ HasKind(q, "Collect")
      BY <1>1, <2>2 DEF HasKind
    <3>2. /\ q[n].key = key
          /\ \A x \in DOMAIN q : x > n => q[x].kind # "Collect" /\ ~IsData(q[x], key)
      BY <1>3, <2>2, <3>1 DEF CollectsLast
    <3> QED BY <1>1, <1>3, <2>2, <3>1, <3>2
  <2> QED BY <1>1, <2>1, <2>2
<1>4. ASSUME Loose(t, key), ~IsData(m, key) PROVE Loose(q, key) /\ m.kind # "Interrogate"
  BY <1>1, <1>4 DEF Loose
<1>5. ASSUME Open(t), m.kind # "Acquire" PROVE Open(q) /\ m.kind # "Rescale"
  BY <1>1, <1>5 DEF Open
<1> QED BY <1>2, <1>3, <1>4, <1>5 DEF t

\* ... and on a link.
LEMMA AddedLink ==
  ASSUME NEW S, NEW q \in Seq(S), NEW m \in S, NEW w, NEW o, NEW v
  PROVE  /\ Clear(q, w, o) /\ ~Stuff(m, w, o) => Clear(Append(q, m), w, o)
         /\ (/\ Closed(q, w, o, v)
             /\ Stuff(m, w, o) => ~HasKind(q, "Upgrade")
             /\ m.kind = "Upgrade" => m.version = v)
              => Closed(Append(q, m), w, o, v)
         /\ UpTo(q, v) /\ (m.kind = "Data" => m.version <= v) => UpTo(Append(q, m), v)
<1> DEFINE t == Append(q, m)
           l == Len(q) + 1
<1>1. /\ l \in DOMAIN t /\ t[l] = m /\ l \in Nat
      /\ \A n \in DOMAIN q : n \in Nat /\ n < l /\ n \in DOMAIN t /\ t[n] = q[n]
      /\ \A n \in DOMAIN t : n \in DOMAIN q \/ n = l
  BY AppendAt
<1> HIDE DEF t, l
<1>2. Clear(q, w, o) /\ ~Stuff(m, w, o) => Clear(t, w, o)
  BY <1>1 DEF Clear
<1>3. ASSUME Closed(q, w, o, v), Stuff(m, w, o) => ~HasKind(q, "Upgrade"), m.kind = "Upgrade" => m.version = v
      PROVE  Closed(t, w, o, v)
  <2> SUFFICES ASSUME NEW n \in DOMAIN t, t[n].kind = "Upgrade"
               PROVE  t[n].version = v /\ \A x \in DOMAIN t : x > n => ~Stuff(t[x], w, o)
    BY DEF Closed
  <2>1. CASE n = l
    BY <1>1, <1>3, <2>1
  <2>2. CASE n \in DOMAIN q
    <3>1. q[n].kind = "Upgrade" /\ HasKind(q, "Upgrade")
      BY <1>1, <2>2 DEF HasKind
    <3>2. q[n].version = v /\ \A x \in DOMAIN q : x > n => ~Stuff(q[x], w, o)
      BY <1>3, <2>2, <3>1 DEF Closed
    <3> QED BY <1>1, <1>3, <2>2, <3>1, <3>2
  <2> QED BY <1>1, <2>1, <2>2
<1>4. UpTo(q, v) /\ (m.kind = "Data" => m.version <= v) => UpTo(t, v)
  BY <1>1 DEF UpTo
<1> QED BY <1>2, <1>3, <1>4 DEF t

\* The first message is taken off a queue.
LEMMA TakenHas ==
  ASSUME NEW S, NEW q \in Seq(S), q # <<>>
  PROVE  /\ Tail(q) \in Seq(S) /\ Head(q) \in S
         /\ \A kind : HasKind(q, kind) <=> Head(q).kind = kind \/ HasKind(Tail(q), kind)
         /\ \A key : HasData(q, key) <=> IsData(Head(q), key) \/ HasData(Tail(q), key)
         /\ \A key : HasState(q, key) <=> IsState(Head(q), key) \/ HasState(Tail(q), key)
         /\ \A key, i : HasUpdate(q, key, i)
                          <=> HasUpdate(Tail(q), key, i) \/ (IsState(Head(q), key) /\ i \in Head(q).state)
<1> DEFINE t == Tail(q)
           h == Head(q)
<1>1. /\ t \in Seq(S) /\ 1 \in DOMAIN q /\ h = q[1] /\ h \in S
      /\ \A n \in DOMAIN t : n \in Nat /\ n >= 1 /\ n + 1 \in DOMAIN q /\ t[n] = q[n + 1]
      /\ \A n \in DOMAIN q : n \in Nat /\ n >= 1 /\ (n # 1 => n - 1 \in DOMAIN t /\ t[n - 1] = q[n])
  BY TailAt
<1> HIDE DEF t, h
<1>2. \A kind : HasKind(q, kind) <=> h.kind = kind \/ HasKind(t, kind)
  BY <1>1, ZenonT(60) DEF HasKind
<1>3. \A key : HasData(q, key) <=> IsData(h, key) \/ HasData(t, key)
  BY <1>1 DEF HasData
<1>4. \A key : HasState(q, key) <=> IsState(h, key) \/ HasState(t, key)
  BY <1>1 DEF HasState
<1>5. \A key, i : HasUpdate(q, key, i) <=> HasUpdate(t, key, i) \/ (IsState(h, key) /\ i \in h.state)
  BY <1>1 DEF HasUpdate
<1> QED BY <1>1, <1>2, <1>3, <1>4, <1>5 DEF t, h

LEMMA TakenOrder ==
  ASSUME NEW S, NEW q \in Seq(S), q # <<>>, NEW key
  PROVE  /\ StateFirst(q, key) => StateFirst(Tail(q), key)
         /\ StateFirst(q, key) /\ (IsData(Head(q), key) \/ IsState(Head(q), key)) => ~HasState(Tail(q), key)
         /\ CollectsLast(q, key) => CollectsLast(Tail(q), key)
         /\ CollectsLast(q, key) /\ Head(q).kind = "Collect" =>
              Head(q).key = key /\ ~HasKind(Tail(q), "Collect") /\ ~HasData(Tail(q), key)
         /\ Loose(Tail(q), key) => Loose(q, key)
         /\ Open(Tail(q)) => Open(q)
<1> DEFINE t == Tail(q)
           h == Head(q)
<1>1. /\ 1 \in DOMAIN q /\ h = q[1]
      /\ \A n \in DOMAIN t : n \in Nat /\ n >= 1 /\ n + 1 \in DOMAIN q /\ t[n] = q[n + 1]
      /\ \A n \in DOMAIN q : n \in Nat /\ n >= 1 /\ (n # 1 => n - 1 \in DOMAIN t /\ t[n - 1] = q[n])
  BY TailAt
<1> HIDE DEF t, h
<1>2. ASSUME StateFirst(q, key) PROVE StateFirst(t, key)
  <2> SUFFICES ASSUME NEW m \in DOMAIN t, NEW n \in DOMAIN t, m < n, IsState(t[n], key)
               PROVE  ~IsData(t[m], key) /\ ~IsState(t[m], key)
    BY DEF StateFirst
  <2>1. m + 1 \in DOMAIN q /\ n + 1 \in DOMAIN q /\ m + 1 < n + 1 /\ t[m] = q[m + 1] /\ t[n] = q[n + 1]
    BY <1>1
  <2> QED BY <1>2, <2>1 DEF StateFirst
<1>3. ASSUME StateFirst(q, key), IsData(h, key) \/ IsState(h, key) PROVE ~HasState(t, key)
  <2> SUFFICES ASSUME NEW n \in DOMAIN t, IsState(t[n], key) PROVE FALSE
    BY DEF HasState
  <2>1. n + 1 \in DOMAIN q /\ 1 < n + 1 /\ t[n] = q[n + 1]
    BY <1>1
  <2> QED BY <1>1, <1>3, <2>1 DEF StateFirst
<1>4. ASSUME CollectsLast(q, key) PROVE CollectsLast(t, key)
  <2> SUFFICES ASSUME NEW n \in DOMAIN t, t[n].kind = "Collect"
               PROVE  /\ t[n].key = key
                      /\ \A x \in DOMAIN t : x > n => t[x].kind # "Collect" /\ ~IsData(t[x], key)
    BY DEF CollectsLast
  <2>1. n + 1 \in DOMAIN q /\ t[n] = q[n + 1]
    BY <1>1
  <2>2. /\ q[n + 1].key = key
        /\ \A x \in DOMAIN q : x > n + 1 => q[x].kind # "Collect" /\ ~IsData(q[x], key)
    BY <1>4, <2>1 DEF CollectsLast
  <2>3. \A x \in DOMAIN t : x > n => x + 1 \in DOMAIN q /\ x + 1 > n + 1 /\ t[x] = q[x + 1]
    BY <1>1
  <2> QED BY <2>1, <2>2, <2>3
<1>5. ASSUME CollectsLast(q, key), h.kind = "Collect"
      PROVE  h.key = key /\ ~HasKind(t, "Collect") /\ ~HasData(t, key)
  <2>1. /\ h.key = key
        /\ \A x \in DOMAIN q : x > 1 => q[x].kind # "Collect" /\ ~IsData(q[x], key)
    BY <1>1, <1>5 DEF CollectsLast
  <2>2. \A x \in DOMAIN t : x + 1 \in DOMAIN q /\ x + 1 > 1 /\ t[x] = q[x + 1]
    BY <1>1
  <2> QED BY <2>1, <2>2 DEF HasKind, HasData
<1>6. ASSUME Loose(t, key) PROVE Loose(q, key)
  <2>1. PICK n \in DOMAIN t : IsData(t[n], key) /\ \A x \in DOMAIN t : x > n => t[x].kind # "Interrogate"
    BY <1>6 DEF Loose
  <2>2. n + 1 \in DOMAIN q /\ t[n] = q[n + 1] /\ n \in Nat /\ n >= 1
    BY <1>1
  <2>3. ASSUME NEW x \in DOMAIN q, x > n + 1 PROVE q[x].kind # "Interrogate"
    <3>1. x - 1 \in DOMAIN t /\ x - 1 > n /\ t[x - 1] = q[x]
      BY <1>1, <2>2, <2>3
    <3> QED BY <2>1, <3>1
  <2> QED BY <2>1, <2>2, <2>3 DEF Loose
<1>7. ASSUME Open(t) PROVE Open(q)
  <2>1. PICK n \in DOMAIN t : t[n].kind = "Acquire" /\ \A x \in DOMAIN t : x > n => t[x].kind # "Rescale"
    BY <1>7 DEF Open
  <2>2. n + 1 \in DOMAIN q /\ t[n] = q[n + 1] /\ n \in Nat /\ n >= 1
    BY <1>1
  <2>3. ASSUME NEW x \in DOMAIN q, x > n + 1 PROVE q[x].kind # "Rescale"
    <3>1. x - 1 \in DOMAIN t /\ x - 1 > n /\ t[x - 1] = q[x]
      BY <1>1, <2>2, <2>3
    <3> QED BY <2>1, <3>1
  <2> QED BY <2>1, <2>2, <2>3 DEF Open
<1> QED BY <1>2, <1>3, <1>4, <1>5, <1>6, <1>7 DEF t, h

LEMMA TakenLink ==
  ASSUME NEW S, NEW q \in Seq(S), q # <<>>, NEW w, NEW o, NEW v
  PROVE  /\ Clear(q, w, o) => Clear(Tail(q), w, o) /\ ~Stuff(Head(q), w, o)
         /\ Closed(q, w, o, v) => Closed(Tail(q), w, o, v)
         /\ Closed(q, w, o, v) /\ Head(q).kind = "Upgrade" => Head(q).version = v /\ Clear(Tail(q), w, o)
         /\ UpTo(q, v) => UpTo(Tail(q), v) /\ (Head(q).kind = "Data" => Head(q).version <= v)
<1> DEFINE t == Tail(q)
           h == Head(q)
<1>1. /\ 1 \in DOMAIN q /\ h = q[1]
      /\ \A n \in DOMAIN t : n \in Nat /\ n >= 1 /\ n + 1 \in DOMAIN q /\ t[n] = q[n + 1]
  BY TailAt
<1> HIDE DEF t, h
<1>2. Clear(q, w, o) => Clear(t, w, o) /\ ~Stuff(h, w, o)
  BY <1>1 DEF Clear
<1>3. ASSUME Closed(q, w, o, v) PROVE Closed(t, w, o, v)
  <2> SUFFICES ASSUME NEW n \in DOMAIN t, t[n].kind = "Upgrade"
               PROVE  t[n].version = v /\ \A x \in DOMAIN t : x > n => ~Stuff(t[x], w, o)
    BY DEF Closed
  <2>1. n + 1 \in DOMAIN q /\ t[n] = q[n + 1]
    BY <1>1
  <2>2. q[n + 1].version = v /\ \A x \in DOMAIN q : x > n + 1 => ~Stuff(q[x], w, o)
    BY <1>3, <2>1 DEF Closed
  <2>3. \A x \in DOMAIN t : x > n => x + 1 \in DOMAIN q /\ x + 1 > n + 1 /\ t[x] = q[x + 1]
    BY <1>1
  <2> QED BY <2>1, <2>2, <2>3
<1>4. ASSUME Closed(q, w, o, v), h.kind = "Upgrade" PROVE h.version = v /\ Clear(t, w, o)
  <2>1. h.version = v /\ \A x \in DOMAIN q : x > 1 => ~Stuff(q[x], w, o)
    BY <1>1, <1>4 DEF Closed
  <2>2. \A x \in DOMAIN t : x + 1 \in DOMAIN q /\ x + 1 > 1 /\ t[x] = q[x + 1]
    BY <1>1
  <2> QED BY <2>1, <2>2 DEF Clear
<1>5. UpTo(q, v) => UpTo(t, v) /\ (h.kind = "Data" => h.version <= v)
  BY <1>1 DEF UpTo
<1> QED BY <1>2, <1>3, <1>4, <1>5 DEF t, h

\* What is not there cannot be in the wrong place.
LEMMA NothingThere ==
  ASSUME NEW q, NEW key, NEW w, NEW o, NEW v
  PROVE  /\ ~HasState(q, key) => StateFirst(q, key)
         /\ ~HasKind(q, "Collect") => CollectsLast(q, key)
         /\ HasData(q, key) /\ ~HasKind(q, "Interrogate") => Loose(q, key)
         /\ Loose(q, key) => HasData(q, key)
         /\ HasState(q, key) => HasKind(q, "Acquire")
         /\ HasKind(q, "Acquire") /\ ~HasKind(q, "Rescale") => Open(q)
         /\ ~HasKind(q, "Upgrade") => Closed(q, w, o, v)
         /\ Clear(q, w, o) => /\ ~HasKind(q, "Upgrade") /\ ~HasKind(q, "Acquire")
                              /\ HasData(q, key) => o[key] = w
  BY DEF HasState, StateFirst, HasKind, CollectsLast, HasData, Loose, Open, Closed, Clear, Stuff, IsState, IsData

LEMMA NothingInside ==
  ASSUME NEW q, q = <<>>
  PROVE  /\ \A kind : ~HasKind(q, kind)
         /\ \A key : ~HasData(q, key) /\ ~HasState(q, key) /\ StateFirst(q, key) /\ CollectsLast(q, key)
         /\ \A key, i : ~HasUpdate(q, key, i)
         /\ \A w, o, v : Clear(q, w, o) /\ Closed(q, w, o, v) /\ UpTo(q, v)
<1>1. DOMAIN q = {}
  OBVIOUS
<1> QED
  BY <1>1 DEF HasKind, HasData, HasState, HasUpdate, StateFirst, CollectsLast, Clear, Closed, UpTo

\* Data of one key is sent in one go.
OnlyData(b, k, v) == \A n \in DOMAIN b : b[n].kind = "Data" /\ b[n].data.key = k /\ b[n].version = v

LEMMA JoinedData ==
  ASSUME NEW S, NEW q \in Seq(S), NEW b \in Seq(S), NEW k, NEW v \in Nat, OnlyData(b, k, v)
  PROVE  /\ q \o b \in Seq(S)
         /\ \A kind : kind # "Data" => (HasKind(q \o b, kind) <=> HasKind(q, kind))
         /\ \A key : HasData(q \o b, key) => HasData(q, key) \/ key = k
         /\ \A key : HasState(q \o b, key) <=> HasState(q, key)
         /\ \A key, i : HasUpdate(q \o b, key, i) <=> HasUpdate(q, key, i)
         /\ \A key : StateFirst(q, key) => StateFirst(q \o b, key)
         /\ \A x \in Nat : UpTo(q, x) /\ v <= x => UpTo(q \o b, x)
<1> DEFINE t == q \o b
           l == Len(q)
<1>1. /\ t \in Seq(S) /\ l \in Nat /\ DOMAIN q = 1..l /\ Len(b) \in Nat /\ DOMAIN b = 1..Len(b)
      /\ DOMAIN t = 1..(l + Len(b))
      /\ \A n \in 1..(l + Len(b)) : t[n] = IF n <= l THEN q[n] ELSE b[n - l]
  BY ConcatProperties, LenProperties
<1> HIDE DEF t, l
<1>2. \A n \in DOMAIN q : n \in DOMAIN t /\ t[n] = q[n] /\ n \in Int /\ n <= l
  BY <1>1
<1>3. \A n \in DOMAIN t : /\ n \in Int
                          /\ \/ n \in DOMAIN q /\ t[n] = q[n]
                             \/ n > l /\ t[n].kind = "Data" /\ t[n].data.key = k /\ t[n].version = v
  <2> SUFFICES ASSUME NEW n \in DOMAIN t, n \notin DOMAIN q
               PROVE  n > l /\ t[n].kind = "Data" /\ t[n].data.key = k /\ t[n].version = v
    BY <1>1, <1>2
  <2>1. n > l /\ n - l \in DOMAIN b /\ t[n] = b[n - l]
    BY <1>1
  <2> QED BY <2>1 DEF OnlyData
<1>4. \A kind : kind # "Data" => (HasKind(t, kind) <=> HasKind(q, kind))
  BY <1>2, <1>3 DEF HasKind
<1>5. \A key : HasData(t, key) => HasData(q, key) \/ key = k
  BY <1>3 DEF HasData, IsData
<1>6. \A key : HasState(t, key) <=> HasState(q, key)
  BY <1>2, <1>3 DEF HasState, IsState
<1>7. \A key, i : HasUpdate(t, key, i) <=> HasUpdate(q, key, i)
  BY <1>2, <1>3 DEF HasUpdate, IsState
<1>8. ASSUME NEW key, StateFirst(q, key) PROVE StateFirst(t, key)
  <2> SUFFICES ASSUME NEW m \in DOMAIN t, NEW n \in DOMAIN t, m < n, IsState(t[n], key)
               PROVE  ~IsData(t[m], key) /\ ~IsState(t[m], key)
    BY DEF StateFirst
  <2>1. n \in DOMAIN q /\ t[n] = q[n]
    BY <1>3 DEF IsState
  <2>2. m \in DOMAIN q /\ t[m] = q[m]
    BY <1>2, <1>3, <2>1, <1>1
  <2> QED BY <1>8, <2>1, <2>2 DEF StateFirst
<1>9. \A x \in Nat : UpTo(q, x) /\ v <= x => UpTo(t, x)
  BY <1>3 DEF UpTo
<1> QED BY <1>1, <1>4, <1>5, <1>6, <1>7, <1>8, <1>9 DEF t

----------------------------------------------------------------------------
\* Owners.

LEMMA Owners ==
  ASSUME OnlyJoins, TypeOK, Cluster
  PROVE  /\ alive = Members /\ Former \in WorkerSets /\ Members \in WorkerSets /\ Former \subseteq Members
         /\ alive \subseteq Workers
         /\ \A key \in Keys : /\ OldOwner[key] \in Former /\ NewOwner[key] \in Members
                              /\ NewOwner[key] \in Former => NewOwner[key] = OldOwner[key]
         /\ \A key \in Keys : \A w \in alive : MovesTo(w, key) => w \notin Former
         /\ round = 0 => Former = Members
         /\ round \in Nat /\ Top \in Nat /\ Base \in Nat /\ Base <= Top
         /\ round > 0 => Former = WorkersBefore(round)
<1>1. round \in 0..Len(Scales) /\ Len(Scales) \in Nat /\ alive \subseteq Workers /\ alive = Members
  BY ScalesType DEF TypeOK, EnvTypeOK, Cluster, NobodyLeaves
<1>2. Scales \in Seq(WorkerSets) /\ InitWorkers \in WorkerSets /\ FirstVersion \in Nat
  BY DistributorAssumption
<1>3. round \in Nat /\ Top \in Nat /\ Base \in Nat /\ Base <= Top
  BY <1>1, <1>2 DEF Top, Base
<1>4. Former \in WorkerSets /\ Members \in WorkerSets
  BY <1>1, <1>2 DEF Former, Members, WorkersBefore
<1>5. Former \subseteq Members
  BY <1>1, <1>2 DEF Former, Members, OnlyJoins, Growing
<1>6. ASSUME NEW key \in Keys
      PROVE  /\ OldOwner[key] \in Former /\ NewOwner[key] \in Members
             /\ NewOwner[key] \in Former => NewOwner[key] = OldOwner[key]
  BY <1>4, <1>5, TargetAssumption DEF OldOwner, NewOwner, OnlyJoins, MinimalMoves
<1>7. \A key \in Keys : \A w \in alive : MovesTo(w, key) => w \notin Former
  BY <1>6 DEF MovesTo
<1>8. (round = 0 => Former = Members) /\ (round > 0 => Former = WorkersBefore(round))
  BY <1>3 DEF Former, Members
<1> QED BY <1>1, <1>3, <1>4, <1>5, <1>6, <1>7, <1>8

\* What only depends on the round.
LEMMA SameRound ==
  ASSUME UNCHANGED round
  PROVE  /\ Former' = Former /\ Members' = Members /\ OldOwner' = OldOwner /\ NewOwner' = NewOwner
         /\ Top' = Top /\ Base' = Base
         /\ \A w, key : (MovesAway(w, key)' <=> MovesAway(w, key)) /\ (MovesTo(w, key)' <=> MovesTo(w, key))
<1>1. Former' = Former /\ Members' = Members
  BY DEF Former, Members, WorkersBefore
<1>2. OldOwner' = OldOwner /\ NewOwner' = NewOwner
  BY <1>1 DEF OldOwner, NewOwner
<1> QED BY <1>1, <1>2 DEF Top, Base, MovesAway, MovesTo

----------------------------------------------------------------------------
\* A step of one worker.

\* The other workers are left alone, and so are the links between them.
Alone(w) ==
  /\ UNCHANGED <<round, alive>>
  /\ \A u \in Workers \ {w} :
       /\ mode'[u] = mode[u] /\ version'[u] = version[u] /\ oldSet'[u] = oldSet[u]
       /\ newSet'[u] = newSet[u] /\ whitelist'[u] = whitelist[u] /\ collecting'[u] = collecting[u]
       /\ collected'[u] = collected[u] /\ buffered'[u] = buffered[u] /\ remotes'[u] = remotes[u]
       /\ lastVersion'[u] = lastVersion[u] /\ delivered'[u] = delivered[u]
       /\ out'[u] = out[u] /\ opState'[u] = opState[u]
  /\ \A r, u \in Workers : (r # w /\ u # w) \/ r = u \/ r \notin alive \/ u \notin alive =>
       chan'[<<r, u>>] = chan[<<r, u>>]

\* A key that has been given away is not taken back, and a worker that is done
\* stays so.
Advances(w) ==
  /\ \A key \in Keys : OldOwner[key] = w /\ Given(key) => Given(key)'
  /\ Done(w) => Done(w)'

LEMMA OthersAdvance ==
  ASSUME OnlyJoins, TypeOK, Cluster, NEW w \in alive, Alone(w), Advances(w)
  PROVE  /\ \A key \in Keys : Given(key) => Given(key)'
         /\ \A u \in alive : Done(u) => Done(u)'
         /\ \A u \in alive \ {w} : \A key \in Keys : Serves(u, key) => Serves(u, key)'
         /\ \A u \in alive : \A key \in Keys : \A r \in alive : MayCarry(r, u, key) => MayCarry(r, u, key)'
<1>1. /\ alive \subseteq Workers /\ \A key \in Keys : OldOwner[key] \in alive
      /\ UNCHANGED <<OldOwner, NewOwner, round>>
      /\ \A u, key : (MovesAway(u, key)' <=> MovesAway(u, key)) /\ (MovesTo(u, key)' <=> MovesTo(u, key))
  BY Owners, SameRound DEF Alone
<1>2. ASSUME NEW u \in alive \ {w}
      PROVE  /\ mode'[u] = mode[u] /\ delivered'[u] = delivered[u] /\ whitelist'[u] = whitelist[u]
             /\ collecting'[u] = collecting[u] /\ out'[u] = out[u] /\ (Untold(u)' <=> Untold(u))
  BY <1>1 DEF Alone, Untold
<1>3. ASSUME NEW u \in alive \ {w}, NEW key \in Keys, OldOwner[key] = u
      PROVE  (Given(key)' <=> Given(key)) /\ (Holds(key)' <=> Holds(key))
  <2>1. OldOwner'[key] = u
    BY <1>1, <1>3
  <2> QED BY <1>2, <1>3, <2>1 DEF Given, Holds
<1>4. ASSUME NEW key \in Keys, Given(key) PROVE Given(key)'
  BY <1>1, <1>3, <1>4 DEF Advances
<1>5. ASSUME NEW u \in alive, Done(u) PROVE Done(u)'
  <2>1. CASE u # w
    BY <1>2, <1>5, <2>1 DEF Done
  <2> QED BY <1>5, <2>1 DEF Advances
<1>6. ASSUME NEW u \in alive \ {w}, NEW key \in Keys, Serves(u, key) PROVE Serves(u, key)'
  BY <1>1, <1>3, <1>4, <1>6 DEF Serves
<1>7. ASSUME NEW u \in alive, NEW key \in Keys, NEW r \in alive, MayCarry(r, u, key) PROVE MayCarry(r, u, key)'
  BY <1>1, <1>4, <1>5, <1>7 DEF MayCarry
<1> QED BY <1>4, <1>5, <1>6, <1>7

LEMMA StepFrame ==
  ASSUME OnlyJoins, TypeOK, Cluster, Migration, NEW w \in alive, Alone(w), Advances(w),
         WorkerOK(w)', QueueOK(w)', \A r \in alive \ {w} : LinkOK(r, w)' /\ LinkOK(w, r)'
  PROVE  Migration'
<1>1. /\ alive \subseteq Workers /\ w \in Workers /\ UNCHANGED <<Former, Members, OldOwner, NewOwner, Top, Base, round, alive>>
      /\ \A u, key : (MovesAway(u, key)' <=> MovesAway(u, key)) /\ (MovesTo(u, key)' <=> MovesTo(u, key))
  BY Owners, SameRound DEF Alone
<1>2. ASSUME NEW u \in Workers \ {w}
      PROVE  /\ mode'[u] = mode[u] /\ version'[u] = version[u] /\ oldSet'[u] = oldSet[u]
             /\ newSet'[u] = newSet[u] /\ whitelist'[u] = whitelist[u] /\ collecting'[u] = collecting[u]
             /\ collected'[u] = collected[u] /\ buffered'[u] = buffered[u] /\ remotes'[u] = remotes[u]
             /\ lastVersion'[u] = lastVersion[u] /\ delivered'[u] = delivered[u]
             /\ out'[u] = out[u] /\ opState'[u] = opState[u] /\ (Untold(u)' <=> Untold(u))
  BY <1>1 DEF Alone, Untold
<1>3. ASSUME NEW u \in alive \ {w} PROVE WorkerOK(u)'
  <2>1. WorkerOK(u)
    BY DEF Migration
  <2>2. Config(u)'
    BY <1>1, <1>2, <2>1 DEF WorkerOK, Config
  <2>3. Closing(u)'
    BY <1>1, <1>2, <2>1 DEF WorkerOK, Closing
  <2>4. KeysToCollect(u)'
    BY <1>1, <1>2, <2>1 DEF WorkerOK, KeysToCollect
  <2>5. Collects(u)'
    BY <1>1, <1>2, <2>1 DEF WorkerOK, Collects
  <2>6. Interrogates(u)'
    BY <1>1, <1>2, <2>1 DEF WorkerOK, Interrogates
  <2> QED BY <2>2, <2>3, <2>4, <2>5, <2>6 DEF WorkerOK
<1>4. ASSUME NEW u \in alive \ {w} PROVE QueueOK(u)'
  <2>1. QueueOK(u)
    BY DEF Migration
  <2>2. out'[u] = out[u] /\ opState'[u] = opState[u]
    BY <1>1, <1>2
  <2>3. \A key \in Keys : (Serves(u, key) => Serves(u, key)') /\ (Given(key) => Given(key)')
    BY OthersAdvance
  <2> QED BY <1>1, <2>1, <2>2, <2>3 DEF QueueOK
<1>5. ASSUME NEW u \in alive \ {w}, NEW r \in alive \ {u}, r # w PROVE LinkOK(r, u)'
  <2>1. LinkOK(r, u)
    BY DEF Migration
  <2>2. chan'[<<r, u>>] = chan[<<r, u>>]
    BY <1>1, <1>5 DEF Alone
  <2>3. /\ out'[u] = out[u] /\ opState'[u] = opState[u] /\ lastVersion'[u] = lastVersion[u]
        /\ version'[u] = version[u]
    BY <1>1, <1>2
  <2>4. \A key \in Keys : (MayCarry(r, u, key) => MayCarry(r, u, key)') /\ (Given(key) => Given(key)')
    BY OthersAdvance
  <2> QED BY <1>1, <2>1, <2>2, <2>3, <2>4 DEF LinkOK, Vacant
<1>6. Pristine'
  <2>1. ASSUME NEW u \in Workers \ alive
        PROVE  version'[u] = 0 /\ out'[u] = <<>> /\ \A key \in Keys : opState'[u][key] = {}
    BY <1>2, <2>1 DEF Migration, Pristine
  <2>2. ASSUME NEW r \in Workers, NEW u \in Workers, r = u \/ r \notin alive \/ u \notin alive
        PROVE  chan'[<<r, u>>] = <<>>
    BY <2>2 DEF Migration, Pristine, Alone
  <2> QED BY <1>1, <2>1, <2>2 DEF Pristine
<1> QED BY <1>1, <1>3, <1>4, <1>5, <1>6 DEF Migration

\* A link to w, where w may have taken the first message off.
LEMMA InLink ==
  ASSUME OnlyJoins, TypeOK, TypeOK', Cluster, Migration, NEW w \in alive, NEW r \in alive \ {w}, Alone(w), Advances(w),
         \/ chan'[<<r, w>>] = chan[<<r, w>>]
         \/ chan[<<r, w>>] # <<>> /\ chan'[<<r, w>>] = Tail(chan[<<r, w>>]),
         \A key \in Keys : HasState(chan'[<<r, w>>], key) => Vacant(w, key)',
         lastVersion'[w][r] = Top => \/ lastVersion[w][r] = Top
                                     \/ Clear(chan'[<<r, w>>], w, NewOwner),
         version[w] <= version'[w]
  PROVE  LinkOK(r, w)'
<1> DEFINE q == chan[<<r, w>>]
           p == chan'[<<r, w>>]
<1>1. /\ w \in Workers /\ r \in Workers /\ <<r, w>> \in Links
      /\ UNCHANGED <<Former, OldOwner, NewOwner, Top, round>>
      /\ \A u, key : (MovesAway(u, key)' <=> MovesAway(u, key)) /\ (MovesTo(u, key)' <=> MovesTo(u, key))
  BY Owners, SameRound DEF Alone, Links
<1>2. q \in Seq(NetworkMessage) /\ LinkOK(r, w)
  BY <1>1 DEF TypeOK, LinkTypeOK, Migration
<1>3. (q # <<>> /\ p = Tail(q)) \/ p = q
  OBVIOUS
<1>4. /\ \A key \in Keys : HasData(q, key) => MayCarry(r, w, key)
      /\ \A key \in Keys : HasState(q, key) => OldOwner[key] = r /\ MovesTo(w, key) /\ Given(key)
      /\ \A key \in Keys : StateFirst(q, key)
      /\ Closed(q, w, NewOwner, Top) /\ UpTo(q, Top) /\ (w \in Former => UpTo(q, version[w]))
      /\ round = 0 \/ lastVersion[w][r] = Top => Clear(q, w, NewOwner)
  BY <1>2 DEF LinkOK
<1> HIDE DEF q
<1>5. /\ \A key \in Keys : (HasData(p, key) => HasData(q, key)) /\ (HasState(p, key) => HasState(q, key))
      /\ \A key \in Keys : StateFirst(p, key)
  <2>1. CASE p = q
    BY <1>4, <2>1
  <2>2. CASE q # <<>> /\ p = Tail(q)
    BY <1>2, <1>4, <2>2, TakenHas, TakenOrder
  <2> QED BY <1>3, <2>1, <2>2
<1>6. /\ Closed(p, w, NewOwner, Top) /\ UpTo(p, Top) /\ (w \in Former => UpTo(p, version[w]))
      /\ Clear(q, w, NewOwner) => Clear(p, w, NewOwner)
  <2>1. CASE p = q
    BY <1>4, <2>1
  <2>2. CASE q # <<>> /\ p = Tail(q)
    BY <1>2, <1>4, <2>2, TakenLink, SMTT(30)
  <2> QED BY <1>3, <2>1, <2>2
<1>7. w \in Former => UpTo(p, version'[w])
  <2>1. \A n \in DOMAIN p : p[n] \in NetworkMessage
    BY <1>1 DEF TypeOK, LinkTypeOK
  <2>2. version[w] \in Nat /\ version'[w] \in Nat
    BY <1>1 DEF TypeOK, RouterTypeOK
  <2>3. \A n \in DOMAIN p : p[n].kind = "Data" => p[n].version \in Nat
    BY <2>1, NetworkFields
  <2> HIDE DEF p
  <2> QED BY <1>6, <2>2, <2>3 DEF UpTo
<1>8. \A key \in Keys : (MayCarry(r, w, key) => MayCarry(r, w, key)') /\ (Given(key) => Given(key)')
  BY OthersAdvance
<1> HIDE DEF p
<1>9. \A key \in Keys : /\ HasData(p, key) => MayCarry(r, w, key)'
                        /\ HasState(p, key) => /\ OldOwner'[key] = r /\ MovesTo(w, key)' /\ Given(key)'
                                               /\ Vacant(w, key)'
                        /\ StateFirst(p, key)
  BY <1>1, <1>4, <1>5, <1>8 DEF p
<1>10. round' = 0 \/ lastVersion'[w][r] = Top' => Clear(p, w, NewOwner')
  BY <1>1, <1>4, <1>6 DEF p
<1> QED BY <1>1, <1>6, <1>7, <1>9, <1>10 DEF LinkOK, p

\* A link from w: what fits on it.
Fits(m, w, u) ==
  /\ m.kind # "Acquire"
  /\ m.kind = "Data" => m.version <= Top /\ (u \in Former => m.version <= version[u])
  /\ m.kind = "Upgrade" => m.version = Top
  /\ Stuff(m, u, NewOwner) =>
       ~HasKind(chan[<<w, u>>], "Upgrade") /\ round > 0 /\ lastVersion[u][w] # Top

LEMMA OutLink ==
  ASSUME OnlyJoins, TypeOK, Cluster, Migration, NEW w \in alive, NEW u \in alive \ {w}, Alone(w), Advances(w),
         \/ chan'[<<w, u>>] = chan[<<w, u>>]
         \/ \E m \in NetworkMessage :
              /\ chan'[<<w, u>>] = Append(chan[<<w, u>>], m) /\ Fits(m, w, u)
              /\ m.kind = "Data" => MayCarry(w, u, m.data.key)
  PROVE  LinkOK(w, u)'
<1> DEFINE q == chan[<<w, u>>]
           p == chan'[<<w, u>>]
<1>1. /\ w \in Workers /\ u \in Workers /\ <<w, u>> \in Links /\ round \in Nat
      /\ UNCHANGED <<Former, OldOwner, NewOwner, Top, round>>
      /\ \A x, key : (MovesAway(x, key)' <=> MovesAway(x, key)) /\ (MovesTo(x, key)' <=> MovesTo(x, key))
  BY Owners, SameRound DEF Alone, Links
<1>2. q \in Seq(NetworkMessage) /\ LinkOK(w, u)
  BY <1>1 DEF TypeOK, LinkTypeOK, Migration
<1>3. /\ out'[u] = out[u] /\ opState'[u] = opState[u] /\ lastVersion'[u] = lastVersion[u]
      /\ version'[u] = version[u]
  BY <1>1 DEF Alone
<1>4. /\ \A key \in Keys : HasData(q, key) => MayCarry(w, u, key)
      /\ \A key \in Keys : HasState(q, key) => OldOwner[key] = w /\ MovesTo(u, key) /\ Given(key) /\ Vacant(u, key)
      /\ \A key \in Keys : StateFirst(q, key)
      /\ Closed(q, u, NewOwner, Top) /\ UpTo(q, Top) /\ (u \in Former => UpTo(q, version[u]))
      /\ round = 0 \/ lastVersion[u][w] = Top => Clear(q, u, NewOwner)
  BY <1>2 DEF LinkOK
<1>5. \A key \in Keys : /\ MayCarry(w, u, key) => MayCarry(w, u, key)'
                        /\ Given(key) => Given(key)'
                        /\ Vacant(u, key) => Vacant(u, key)'
  BY <1>3, OthersAdvance DEF Vacant
<1>6. /\ \A key \in Keys : HasData(p, key) => MayCarry(w, u, key)
      /\ \A key \in Keys : HasState(p, key) => HasState(q, key)
      /\ \A key \in Keys : StateFirst(p, key)
      /\ Closed(p, u, NewOwner, Top) /\ UpTo(p, Top) /\ (u \in Former => UpTo(p, version[u]))
      /\ round = 0 \/ lastVersion[u][w] = Top => Clear(p, u, NewOwner)
  <2>1. CASE p = q
    BY <1>4, <2>1
  <2>2. ASSUME NEW m \in NetworkMessage, p = Append(q, m), Fits(m, w, u),
               m.kind = "Data" => MayCarry(w, u, m.data.key)
        PROVE  <1>6!1 /\ <1>6!2 /\ <1>6!3 /\ <1>6!4 /\ <1>6!5
    <3>1. /\ \A key : HasData(p, key) <=> HasData(q, key) \/ IsData(m, key)
          /\ \A key : HasState(p, key) <=> HasState(q, key) \/ IsState(m, key)
      BY <1>2, <2>2, AddedHas, SMTT(30)
    <3> HIDE DEF q, p
    <3>2. \A key \in Keys : HasData(p, key) => MayCarry(w, u, key)
      BY <1>4, <2>2, <3>1 DEF IsData
    <3>3. \A key \in Keys : HasState(p, key) => HasState(q, key)
      BY <2>2, <3>1 DEF Fits, IsState
    <3>4. \A key \in Keys : StateFirst(p, key)
      BY <1>2, <1>4, <2>2, AddedOrder DEF Fits, IsState
    <3>5. Stuff(m, u, NewOwner) => ~HasKind(q, "Upgrade") /\ round > 0 /\ lastVersion[u][w] # Top
      BY <2>2 DEF Fits, q
    <3>6. Closed(p, u, NewOwner, Top)
      BY <1>2, <1>4, <2>2, <3>5, AddedLink DEF Fits
    <3>7. UpTo(p, Top) /\ (u \in Former => UpTo(p, version[u]))
      BY <1>2, <1>4, <2>2, AddedLink DEF Fits
    <3>8. round = 0 \/ lastVersion[u][w] = Top => Clear(p, u, NewOwner)
      BY <1>1, <1>2, <1>4, <2>2, <3>5, AddedLink
    <3> QED BY <3>2, <3>3, <3>4, <3>6, <3>7, <3>8
  <2> QED BY <2>1, <2>2
<1> HIDE DEF p, q
<1>7. \A key \in Keys : /\ HasData(p, key) => MayCarry(w, u, key)'
                        /\ HasState(p, key) => /\ OldOwner'[key] = w /\ MovesTo(u, key)' /\ Given(key)'
                                               /\ Vacant(u, key)'
                        /\ StateFirst(p, key)
  BY <1>1, <1>4, <1>5, <1>6
<1>8. round' = 0 \/ lastVersion'[u][w] = Top' => Clear(p, u, NewOwner')
  BY <1>1, <1>3, <1>6
<1> QED BY <1>1, <1>3, <1>6, <1>7, <1>8 DEF LinkOK, p

----------------------------------------------------------------------------
\* What the invariant says of a worker.

LEMMA Standing ==
  ASSUME OnlyJoins, TypeOK, RescaleCore, Cluster, Migration, NEW w \in alive
  PROVE  /\ w \in Workers /\ version[w] \in Nat /\ version[w] <= Top /\ mode[w] \in Modes
         /\ round = 0 => ~Untold(w)
         /\ mode[w] # "Normal" => ~Untold(w) /\ round > 0
         /\ ~Untold(w) => delivered[w] = round /\ remotes[w] = alive \ {w}
         /\ w \in Former => Base <= version[w]
         /\ w \in Former /\ Untold(w) => version[w] = Base
         /\ mode[w] \in {"Normal", "Collect", "Finished"} /\ ~Untold(w) => version[w] = Top
         /\ \A key \in Keys :
              /\ w \in Former /\ Untold(w) => NewTarget(w, key) = OldOwner[key] /\ OldTarget(w, key) = OldOwner[key]
              /\ w \in Former /\ mode[w] # "Normal" =>
                   NewTarget(w, key) = NewOwner[key] /\ OldTarget(w, key) = OldOwner[key]
              /\ w \notin Former \/ (~Untold(w) /\ mode[w] = "Normal") =>
                   NewTarget(w, key) = NewOwner[key] /\ OldTarget(w, key) = NewOwner[key]
<1>1. /\ alive \subseteq Workers /\ round \in Nat /\ Top \in Nat /\ Base \in Nat /\ Base <= Top
  BY Owners
<1>2. w \in Workers /\ version[w] \in Nat /\ mode[w] \in Modes /\ delivered[w] \in Int
  BY <1>1 DEF TypeOK, RouterTypeOK, EnvTypeOK
<1>3. Config(w)
  BY DEF Migration, WorkerOK
<1>4. /\ delivered[w] <= round
      /\ mode[w] # "Normal" => delivered[w] = round /\ round > 0
  BY <1>2 DEF RescaleCore, DeliveredBehind, MovesForLastRound
<1>5. delivered[w] >= 0
  BY <1>2, ScalesType DEF TypeOK, EnvTypeOK
<1>6. /\ round = 0 => ~Untold(w)
      /\ mode[w] # "Normal" => ~Untold(w) /\ round > 0
      /\ ~Untold(w) => delivered[w] = round
  BY <1>1, <1>2, <1>4, <1>5 DEF Untold
<1>7. ~Untold(w) => remotes[w] = alive \ {w}
  BY <1>6 DEF Cluster, Connected
<1>8. round = 0 => Former = Members
  BY Owners
<1>9. /\ version[w] <= Top
      /\ w \in Former => Base <= version[w]
      /\ w \in Former /\ Untold(w) => version[w] = Base
      /\ mode[w] \in {"Normal", "Collect", "Finished"} /\ ~Untold(w) => version[w] = Top
  BY <1>1, <1>2, <1>3 DEF Config
<1>10. ASSUME NEW key \in Keys
       PROVE  /\ w \in Former /\ Untold(w) => NewTarget(w, key) = OldOwner[key] /\ OldTarget(w, key) = OldOwner[key]
              /\ w \in Former /\ mode[w] # "Normal" =>
                   NewTarget(w, key) = NewOwner[key] /\ OldTarget(w, key) = OldOwner[key]
              /\ w \notin Former \/ (~Untold(w) /\ mode[w] = "Normal") =>
                   NewTarget(w, key) = NewOwner[key] /\ OldTarget(w, key) = NewOwner[key]
  BY <1>3, <1>6 DEF Config, NewTarget, OldTarget, OldOwner, NewOwner
<1> QED BY <1>2, <1>6, <1>7, <1>9, <1>10

\* A worker that is done gets no more state, nor data that is not for it.
LEMMA DoneIsClear ==
  ASSUME OnlyJoins, TypeOK, RescaleCore, Cluster, Migration, NEW w \in alive, Done(w), NEW x \in alive \ {w}
  PROVE  Clear(chan[<<x, w>>], w, NewOwner)
<1>1. LinkOK(x, w) /\ Closing(w) /\ round \in Nat
  BY Owners DEF Migration, WorkerOK
<1>2. x \in remotes[w]
  BY Standing DEF Done
<1> QED BY <1>1, <1>2 DEF LinkOK, Closing, Done

\* Nobody has been told that w is done collecting before it is.
LEMMA NothingAnnounced ==
  ASSUME OnlyJoins, TypeOK, RescaleCore, Cluster, Migration, NEW w \in alive,
         Untold(w) \/ mode[w] \in {"Interrogate", "Collect"}, NEW u \in alive \ {w}
  PROVE  ~HasKind(chan[<<w, u>>], "Upgrade") /\ lastVersion[u][w] # Top /\ round > 0
<1>1. w \in Workers /\ u \in Workers /\ round \in Nat /\ (mode[w] # "Normal" => round > 0)
      /\ (round = 0 => ~Untold(w)) /\ (~Untold(w) => delivered[w] = round) /\ <<w, u>> \in Links
  BY Standing, Owners DEF Links
<1>2. round > 0
  BY <1>1
<1>3. RoundOf(Top) = round /\ Top # NoVersion
  BY <1>1, <1>2, DistributorAssumption DEF RoundOf, Top, NoVersion
<1>4. ~CollectedFor(w, round)
  <2>1. delivered[w] \in Int /\ delivered[w] <= round
    BY <1>1 DEF TypeOK, EnvTypeOK, RescaleCore, DeliveredBehind
  <2> QED BY <1>1, <2>1 DEF CollectedFor, Untold
<1>5. lastVersion[u][w] # Top
  BY <1>1, <1>3, <1>4 DEF RescaleCore, LastVersionsAreTrue
<1>6. ASSUME HasKind(chan[<<w, u>>], "Upgrade") PROVE FALSE
  <2>1. PICK n \in DOMAIN chan[<<w, u>>] : chan[<<w, u>>][n].kind = "Upgrade"
    BY <1>6 DEF HasKind
  <2>2. LinkOK(w, u)
    BY DEF Migration
  <2>3. chan[<<w, u>>][n].version = Top
    BY <2>1, <2>2 DEF LinkOK, Closed
  <2>4. Top \in Upgrades(chan[<<w, u>>])
    BY <2>1, <2>3 DEF Upgrades
  <2> QED BY <1>1, <1>3, <1>4, <2>4 DEF RescaleCore, UpgradesAreTrue
<1> QED BY <1>2, <1>5, <1>6

----------------------------------------------------------------------------
\* Data.

AllDone == \A u \in alive : Done(u)

\* Where a message that worker w handles may come from.
Comes(r, w, key, v) ==
  \/ r # w /\ v \in Nat /\ MayCarry(r, w, key) /\ (v > version[w] => w \notin Former)
  \/ r = w /\ v = NoVersion /\ (AllDone \/ (Untold(w) /\ w \in Former))

\* The operator of w may get the message; t may.
Kept(w, key, v) ==
  /\ Serves(w, key)
  /\ HasKind(out[w], "Collect") => collecting[w] # key
  /\ mode[w] = "Interrogate" /\ MovesAway(w, key) => key \in Whitelisted(w, key, v)
Passed(w, t, key) ==
  /\ MayCarry(w, t, key)
  /\ version[w] <= Top /\ (t \in Former => version[w] <= version[t])
  /\ NewOwner[key] # t => Untold(w)

LEMMA RoutesRight ==
  ASSUME OnlyJoins, TypeOK, RescaleCore, Cluster, Migration, NEW w \in alive, NEW key \in Keys, NEW r \in alive,
         NEW v \in Int, Comes(r, w, key, v)
  PROVE  LET target == RouteMessage(w, key, r, v)
         IN  \/ target = w /\ Kept(w, key, v)
             \/ target = Buffer /\ collecting[w] = key
             \/ target \in alive \ {w} /\ Passed(w, target, key)
<1> DEFINE target == RouteMessage(w, key, r, v)
           goal == \/ target = w /\ Kept(w, key, v)
                   \/ target = Buffer /\ collecting[w] = key
                   \/ target \in alive \ {w} /\ Passed(w, target, key)
<1>1. /\ alive = Members /\ Former \subseteq Members /\ OldOwner[key] \in Former /\ NewOwner[key] \in Members
      /\ NewOwner[key] \in Former => NewOwner[key] = OldOwner[key]
      /\ MovesTo(w, key) => w \notin Former
      /\ Top \in Nat /\ Base \in Nat /\ Base <= Top
  BY Owners
<1>2. /\ version[w] \in Nat /\ version[w] <= Top /\ mode[w] \in Modes
      /\ mode[w] # "Normal" => ~Untold(w)
      /\ mode[w] \in {"Normal", "Collect", "Finished"} /\ ~Untold(w) => version[w] = Top
      /\ w \in Former /\ Untold(w) => version[w] = Base
      /\ w \in Former /\ Untold(w) => NewTarget(w, key) = OldOwner[key] /\ OldTarget(w, key) = OldOwner[key]
      /\ w \in Former /\ mode[w] # "Normal" => NewTarget(w, key) = NewOwner[key] /\ OldTarget(w, key) = OldOwner[key]
      /\ w \notin Former \/ (~Untold(w) /\ mode[w] = "Normal") =>
           NewTarget(w, key) = NewOwner[key] /\ OldTarget(w, key) = NewOwner[key]
  BY Standing
<1>3. /\ HasKind(out[w], "Collect") => mode[w] = "Collect"
      /\ collecting[w] = key => MovesAway(w, key) /\ key \notin whitelist[w]
  BY DEF Migration, WorkerOK, Collects, KeysToCollect
<1>4. ASSUME MovesAway(w, key), Given(key), version[w] = Top, ~Untold(w)
      PROVE  NewOwner[key] \in alive \ {w} /\ Passed(w, NewOwner[key], key)
  <2>1. NewOwner[key] \in alive \ {w} /\ NewOwner[key] \notin Former /\ OldOwner[key] = w
    BY <1>1, <1>4 DEF MovesAway
  <2>2. MayCarry(w, NewOwner[key], key)
    BY <1>4, <2>1 DEF MayCarry, MovesTo
  <2> QED BY <1>1, <1>4, <2>1, <2>2 DEF Passed
<1>5. CASE v > version[w]
  <2>1. w \notin Former /\ r # w /\ MayCarry(r, w, key)
    BY <1>2, <1>5 DEF Comes, NoVersion
  <2>2. Serves(w, key) /\ ~MovesAway(w, key)
    BY <1>1, <2>1 DEF MayCarry, Serves, MovesAway
  <2>3. target = w
    BY <1>2, <1>5 DEF RouteMessage
  <2> QED BY <1>3, <2>2, <2>3 DEF Kept
<1>6. CASE ~(v > version[w]) /\ r # w /\ w \notin Former
  <2>1. MayCarry(r, w, key)
    BY <1>6 DEF Comes
  <2>2. Serves(w, key) /\ ~MovesAway(w, key) /\ NewOwner[key] = w
    BY <1>1, <1>6, <2>1 DEF MayCarry, Serves, MovesAway, MovesTo
  <2>3. v <= version[w]
    BY <1>2, <1>6
  <2>4. NewTarget(w, key) = w /\ OldTarget(w, key) = w
    BY <1>2, <1>6, <2>2
  <2>5. target = w
    BY <1>2, <2>3, <2>4 DEF RouteMessage, Modes, RouteInterrogate, RouteCollect, RouteFinished
  <2> QED BY <1>3, <2>2, <2>5 DEF Kept
<1>7. CASE ~(v > version[w]) /\ r # w /\ w \in Former
  <2>1. MayCarry(r, w, key) /\ v <= version[w]
    BY <1>2, <1>7 DEF Comes
  <2>2. OldOwner[key] = w
    BY <1>1, <1>7, <2>1 DEF MayCarry
  <2>3. CASE Untold(w)
    <3>1. mode[w] = "Normal" /\ target = w
      BY <1>2, <1>7, <2>1, <2>2, <2>3 DEF RouteMessage
    <3>2. Serves(w, key)
      BY <2>2, <2>3 DEF Serves, Holds
    <3> QED BY <1>3, <3>1, <3>2 DEF Kept
  <2>4. CASE ~Untold(w) /\ mode[w] = "Normal"
    <3>1. target = NewOwner[key] /\ Given(key) /\ version[w] = Top
      BY <1>2, <2>1, <2>2, <2>4 DEF RouteMessage, Given
    <3>2. CASE NewOwner[key] = w
      BY <1>3, <2>2, <2>4, <3>1, <3>2 DEF Kept, Serves
    <3>3. CASE NewOwner[key] # w
      <4>1. MovesAway(w, key)
        BY <2>2, <3>3 DEF MovesAway
      <4> QED BY <1>4, <2>4, <3>1, <4>1
    <3> QED BY <3>2, <3>3
  <2>5. CASE mode[w] = "Interrogate"
    <3>1. target = w /\ OldTarget(w, key) = w /\ NewTarget(w, key) = NewOwner[key]
      BY <1>2, <1>7, <2>1, <2>2, <2>5 DEF RouteMessage, RouteInterrogate
    <3>2. Serves(w, key)
      BY <2>2, <2>5 DEF Serves, Holds
    <3>3. MovesAway(w, key) => key \in Whitelisted(w, key, v)
      BY <2>1, <2>5, <3>1 DEF MovesAway, Whitelisted
    <3> QED BY <1>3, <2>5, <3>1, <3>2, <3>3 DEF Kept
  <2>6. CASE mode[w] = "Collect"
    <3>1. /\ target = RouteCollect(w, key, r) /\ ~Untold(w) /\ version[w] = Top
          /\ NewTarget(w, key) = NewOwner[key] /\ OldTarget(w, key) = w
      BY <1>2, <1>7, <2>1, <2>2, <2>6 DEF RouteMessage
    <3>2. CASE NewOwner[key] = w
      <4>1. target = w /\ Serves(w, key) /\ ~MovesAway(w, key)
        BY <2>2, <3>1, <3>2 DEF RouteCollect, Serves, MovesAway
      <4> QED BY <1>3, <4>1 DEF Kept
    <3>3. CASE NewOwner[key] # w /\ key \in whitelist[w]
      <4>1. target = w /\ Serves(w, key) /\ collecting[w] # key
        BY <1>3, <2>2, <2>6, <3>1, <3>3 DEF RouteCollect, Serves, Holds
      <4> QED BY <2>6, <4>1 DEF Kept
    <3>4. CASE NewOwner[key] # w /\ key \notin whitelist[w] /\ collecting[w] = key
      BY <3>1, <3>4 DEF RouteCollect
    <3>5. CASE NewOwner[key] # w /\ key \notin whitelist[w] /\ collecting[w] # key
      <4>1. target = NewOwner[key] /\ Given(key) /\ MovesAway(w, key)
        BY <2>2, <2>6, <3>1, <3>5 DEF RouteCollect, Given, MovesAway
      <4> QED BY <1>4, <3>1, <4>1
    <3> QED BY <3>2, <3>3, <3>4, <3>5
  <2>7. CASE mode[w] = "Finished"
    <3>1. /\ target = RouteFinished(w, key, r) /\ ~Untold(w) /\ version[w] = Top
          /\ NewTarget(w, key) = NewOwner[key] /\ OldTarget(w, key) = w /\ Given(key)
      BY <1>2, <1>7, <2>1, <2>2, <2>7 DEF RouteMessage, Given
    <3>2. target = NewOwner[key]
      BY <3>1 DEF RouteFinished
    <3>3. CASE NewOwner[key] = w
      BY <1>3, <2>2, <2>7, <3>2, <3>3 DEF Kept, Serves
    <3>4. CASE NewOwner[key] # w
      <4>1. MovesAway(w, key)
        BY <2>2, <3>4 DEF MovesAway
      <4> QED BY <1>4, <3>1, <3>2, <4>1
    <3> QED BY <3>3, <3>4
  <2> QED BY <1>2, <2>3, <2>4, <2>5, <2>6, <2>7 DEF Modes
<1>8. CASE r = w
  <2>1. v = NoVersion /\ v <= version[w] /\ (AllDone \/ (Untold(w) /\ w \in Former))
    BY <1>2, <1>8 DEF Comes, NoVersion
  <2>2. CASE Untold(w) /\ w \in Former
    <3>1. mode[w] = "Normal" /\ target = OldOwner[key] /\ version[w] = Base
      BY <1>2, <2>1, <2>2 DEF RouteMessage
    <3>2. CASE OldOwner[key] = w
      <4>1. Serves(w, key)
        BY <2>2, <3>2 DEF Serves, Holds
      <4> QED BY <1>3, <3>1, <3>2, <4>1 DEF Kept
    <3>3. CASE OldOwner[key] # w
      <4>1. target \in alive \ {w} /\ MayCarry(w, target, key)
        BY <1>1, <3>1, <3>3 DEF MayCarry
      <4>2. target \in Former /\ Base <= version[target]
        BY <1>1, <3>1, <4>1, Standing
      <4> QED BY <1>1, <2>2, <3>1, <4>1, <4>2 DEF Passed
    <3> QED BY <3>2, <3>3
  <2>3. CASE AllDone
    <3>1. Done(w) /\ Done(OldOwner[key]) /\ OldOwner[key] \in alive /\ ~Untold(w) /\ mode[w] = "Normal"
      BY <1>1, <2>3 DEF AllDone, Done
    <3>2. target = NewOwner[key] /\ Given(key) /\ version[w] = Top
      BY <1>2, <2>1, <3>1 DEF RouteMessage, Given, Done
    <3>3. CASE NewOwner[key] = w
      <4>1. Serves(w, key)
        BY <3>2, <3>3 DEF Serves, MovesTo
      <4> QED BY <1>3, <3>1, <3>2, <3>3, <4>1 DEF Kept
    <3>4. CASE NewOwner[key] # w
      <4>1. target \in alive \ {w} /\ Done(target)
        BY <1>1, <2>3, <3>2, <3>4 DEF AllDone
      <4>2. MayCarry(w, target, key)
        BY <3>2, <4>1 DEF MayCarry, MovesTo
      <4>3. version[target] = Top
        BY <4>1, Standing DEF Done
      <4> QED BY <1>1, <3>2, <4>1, <4>2, <4>3 DEF Passed
    <3> QED BY <3>3, <3>4
  <2> QED BY <2>1, <2>2, <2>3
<1> QED BY <1>5, <1>6, <1>7, <1>8

\* The state of a key that is still on its way comes behind its data.
LEMMA NoStateComes ==
  ASSUME OnlyJoins, TypeOK, RescaleCore, Cluster, Migration, NEW w \in alive, NEW key \in Keys, NEW r \in alive,
         NEW v \in Int, Comes(r, w, key, v), NEW x \in alive \ {w}, x # r
  PROVE  ~HasState(chan[<<x, w>>], key)
<1> SUFFICES ASSUME HasState(chan[<<x, w>>], key) PROVE FALSE
  OBVIOUS
<1>1. OldOwner[key] = x /\ MovesTo(w, key)
  BY DEF Migration, LinkOK
<1>2. w \notin Former
  BY <1>1, Owners
<1>3. Done(w)
  BY <1>1, <1>2 DEF Comes, MayCarry, AllDone
<1>4. Clear(chan[<<x, w>>], w, NewOwner)
  BY <1>3, DoneIsClear
<1> QED BY <1>4, NothingThere

\* What the distributor does with a data message.
Places(w, d, v, c) ==
  \/ /\ Kept(w, d.key, v)
     /\ out'[w] = Append(out[w], [kind |-> "Data", data |-> d]) /\ buffered'[w] = buffered[w] /\ chan' = c
  \/ /\ collecting[w] = d.key
     /\ out'[w] = out[w] /\ buffered'[w] = Append(buffered[w], d) /\ chan' = c
  \/ \E t \in alive \ {w} :
        /\ Passed(w, t, d.key)
        /\ out'[w] = out[w] /\ buffered'[w] = buffered[w]
        /\ chan' = [c EXCEPT ![<<w, t>>] = Append(@, [kind |-> "Data", data |-> d, version |-> version[w]])]

LEMMA HandlePlaces ==
  ASSUME OnlyJoins, TypeOK, RescaleCore, Cluster, Migration, NEW w \in alive, NEW d \in DataMessage, NEW r \in alive,
         NEW v \in Int, Comes(r, w, d.key, v), NEW c, NEW next, HandleData(w, d, r, v, c, next)
  PROVE  /\ \A u \in Workers \ {w} :
              whitelist'[u] = whitelist[u] /\ buffered'[u] = buffered[u] /\ out'[u] = out[u]
         /\ whitelist'[w] = Whitelisted(w, d.key, v)
         /\ UNCHANGED <<mode, version, oldSet, newSet, collecting, collected>>
         /\ Places(w, d, v, c)
<1> DEFINE target == RouteMessage(w, d.key, r, v)
<1>1. d.key \in Keys /\ w \in Workers /\ Buffer \notin Workers /\ alive \subseteq Workers
  BY Standing, Owners, NoKeyAssumption DEF DataMessage, Buffer
<1>2. \/ target = w /\ Kept(w, d.key, v)
      \/ target = Buffer /\ collecting[w] = d.key
      \/ target \in alive \ {w} /\ Passed(w, target, d.key)
  BY <1>1, RoutesRight
<1>3. target \in remotes[w] \cup {w, Buffer} /\ w \notin remotes[w] /\ remotes[w] \subseteq alive
  BY <1>1, RoutesInReach, ClusterFacts
<1>4. /\ whitelist' = [whitelist EXCEPT ![w] = Whitelisted(w, d.key, v)]
      /\ buffered' = IF target = Buffer
                     THEN [buffered EXCEPT ![w] = Append(buffered[w], d)] ELSE buffered
      /\ out' = IF target = w
                THEN [out EXCEPT ![w] = Append(out[w], [kind |-> "Data", data |-> d])] ELSE out
      /\ chan' = IF target \in remotes[w]
                 THEN [c EXCEPT ![<<w, target>>] =
                         Append(@, [kind |-> "Data", data |-> d, version |-> version[w]])]
                 ELSE c
      /\ UNCHANGED <<mode, version, oldSet, newSet, collecting, collected>>
  BY DEF HandleData
<1>5. /\ whitelist \in [Workers -> SUBSET Keys] /\ buffered \in [Workers -> Seq(DataMessage)]
      /\ out \in [Workers -> Seq(OperatorMessage)]
  BY DEF TypeOK, RouterTypeOK, LinkTypeOK
<1> HIDE DEF target
<1>6. CASE target = w
  BY <1>1, <1>2, <1>3, <1>4, <1>5, <1>6 DEF Places
<1>7. CASE target = Buffer
  BY <1>1, <1>2, <1>3, <1>4, <1>5, <1>7 DEF Places
<1>8. CASE target \in alive \ {w}
  <2>1. target \in remotes[w] /\ target # Buffer /\ target # w /\ Passed(w, target, d.key)
    BY <1>1, <1>2, <1>3, <1>8
  <2>2. Places(w, d, v, c)
    BY <1>4, <1>8, <2>1 DEF Places
  <2> QED BY <1>1, <1>4, <1>5, <2>1, <2>2
<1> QED BY <1>2, <1>6, <1>7, <1>8

\* The worker itself.
LEMMA HandleWorker ==
  ASSUME OnlyJoins, TypeOK, TypeOK', RescaleCore, Cluster, Migration, NEW w \in alive, NEW d \in DataMessage, NEW r \in alive,
         NEW v \in Int, Comes(r, w, d.key, v), NEW c, Places(w, d, v, c), Alone(w),
         whitelist'[w] = Whitelisted(w, d.key, v),
         UNCHANGED <<mode, version, oldSet, newSet, collecting, collected, remotes, lastVersion, delivered,
                     round, alive, opState>>
  PROVE  WorkerOK(w)' /\ QueueOK(w)' /\ Advances(w)
<1> DEFINE m == [kind |-> "Data", data |-> d]
           key == d.key
<1>1. /\ w \in Workers /\ key \in Keys /\ m \in OperatorMessage /\ out[w] \in Seq(OperatorMessage)
      /\ buffered[w] \in Seq(DataMessage) /\ m.kind = "Data" /\ m.data = d
      /\ UNCHANGED <<Former, Members, OldOwner, NewOwner, Top, Base>>
      /\ \A u, k : (MovesAway(u, k)' <=> MovesAway(u, k)) /\ (MovesTo(u, k)' <=> MovesTo(u, k))
      /\ \A u : Untold(u)' <=> Untold(u)
  BY Standing, Owners, SameRound, MessageTypes DEF TypeOK, LinkTypeOK, RouterTypeOK, DataMessage, Untold
<1>2. WorkerOK(w) /\ QueueOK(w)
  BY DEF Migration
<1>3. /\ \A k : IsData(m, k) <=> k = key
      /\ \A k : ~IsState(m, k)
  BY <1>1 DEF IsData, IsState
<1> HIDE DEF m
<1>4. out'[w] = out[w] \/ (out'[w] = Append(out[w], m) /\ Kept(w, key, v))
  BY DEF Places, m
<1>5. /\ \A kind : kind # "Data" => (HasKind(out'[w], kind) <=> HasKind(out[w], kind))
      /\ \A k : HasData(out'[w], k) => HasData(out[w], k) \/ (k = key /\ Kept(w, key, v))
      /\ \A k : HasState(out'[w], k) <=> HasState(out[w], k)
      /\ \A k : StateFirst(out[w], k) => StateFirst(out'[w], k)
      /\ \A k : Loose(out'[w], k) => Loose(out[w], k) \/ (k = key /\ Kept(w, key, v))
      /\ Open(out'[w]) => Open(out[w])
  <2>1. CASE out'[w] = out[w]
    BY <2>1
  <2>2. CASE out'[w] = Append(out[w], m) /\ Kept(w, key, v)
    BY <1>1, <1>3, <2>2, AddedHas, AddedOrder
  <2> QED BY <1>4, <2>1, <2>2
<1>6. /\ whitelist[w] \subseteq whitelist'[w] /\ (mode[w] # "Interrogate" => whitelist'[w] = whitelist[w])
      /\ whitelist'[w] # whitelist[w] =>
           whitelist'[w] = whitelist[w] \cup {key} /\ MovesAway(w, key) /\ mode[w] = "Interrogate"
  <2>1. OldTarget(w, key) = w /\ NewTarget(w, key) # w /\ mode[w] = "Interrogate" => MovesAway(w, key)
    BY <1>1, Standing DEF MovesAway
  <2> QED BY <1>1, <2>1 DEF Whitelisted
<1>7. Config(w)'
  BY <1>1, <1>2 DEF WorkerOK, Config
<1>8. Closing(w)'
  BY <1>1, <1>2, <1>5 DEF WorkerOK, Closing
<1>9. KeysToCollect(w)'
  <2>1. \A n \in DOMAIN buffered'[w] : buffered'[w][n].key = collecting[w]
    <3>1. CASE buffered'[w] = buffered[w]
      BY <1>2, <3>1 DEF WorkerOK, KeysToCollect
    <3>2. CASE collecting[w] = key /\ buffered'[w] = Append(buffered[w], d)
      BY <1>1, <1>2, <3>2, AppendAt DEF WorkerOK, KeysToCollect
    <3> QED BY <3>1, <3>2 DEF Places
  <2>2. \A k \in whitelist'[w] : mode[w] \in {"Interrogate", "Collect"} /\ MovesAway(w, k)
    BY <1>2, <1>6 DEF WorkerOK, KeysToCollect
  <2>3. \A k \in Keys : collecting[w] = k => MovesAway(w, k) /\ k \notin whitelist'[w]
    <3> SUFFICES ASSUME NEW k \in Keys, collecting[w] = k PROVE MovesAway(w, k) /\ k \notin whitelist'[w]
      OBVIOUS
    <3>1. mode[w] = "Collect" /\ MovesAway(w, k) /\ k \notin whitelist[w]
      BY <1>1, <1>2, NoKeyAssumption DEF Cluster, CollectsForOthers, WorkerOK, KeysToCollect
    <3> QED BY <1>6, <3>1
  <2> QED BY <1>1, <2>1, <2>2, <2>3 DEF KeysToCollect
<1>10. Collects(w)'
  <2>1. CollectsLast(out'[w], collecting[w])
    <3>1. CASE out'[w] = out[w]
      BY <1>2, <3>1 DEF WorkerOK, Collects
    <3>2. CASE out'[w] = Append(out[w], m) /\ Kept(w, key, v)
      BY <1>1, <1>2, <1>3, <3>2, AddedOrder DEF WorkerOK, Collects, Kept
    <3> QED BY <1>4, <3>1, <3>2
  <2> QED BY <1>2, <1>5, <2>1 DEF WorkerOK, Collects
<1>11. Interrogates(w)'
  <2>1. mode[w] = "Interrogate" =>
           \A k \in Keys : MovesAway(w, k) =>
             /\ opState[w][k] # {} /\ ~HasKind(out'[w], "Interrogate") => k \in whitelist'[w]
             /\ Loose(out'[w], k) => k \in whitelist'[w]
    BY <1>2, <1>5, <1>6 DEF WorkerOK, Interrogates, Kept
  <2> QED BY <1>1, <1>2, <1>5, <2>1 DEF WorkerOK, Interrogates
<1>12. \A k \in Keys : OldOwner[k] = w => (Holds(k) => Holds(k)') /\ (Given(k) => Given(k)')
  BY <1>1, <1>5, <1>6 DEF Holds, Given
<1>13. Advances(w)
  BY <1>1, <1>5, <1>12 DEF Advances, Done
<1>14. \A k \in Keys : (Serves(w, k) => Serves(w, k)') /\ (Given(k) => Given(k)')
  BY <1>1, <1>12, <1>13, OthersAdvance DEF Serves
<1>15. QueueOK(w)'
  BY <1>1, <1>2, <1>5, <1>14 DEF QueueOK, Kept
<1> QED BY <1>7, <1>8, <1>9, <1>10, <1>11, <1>13, <1>15 DEF WorkerOK

----------------------------------------------------------------------------
\* No update is lost.

\* Message i is part of the state of the key, in w or on a link of w.
Seen(w, key, i) ==
  \/ i \in opState[w][key]
  \/ collecting[w] = key /\ i \in collected[w]
  \/ HasUpdate(out[w], key, i)
  \/ \E r \in Workers : HasUpdate(chan[<<r, w>>], key, i) \/ HasUpdate(chan[<<w, r>>], key, i)

Retains(w) == \A key \in Keys : \A i \in Ids : Seen(w, key, i) => Seen(w, key, i)'

LEMMA HeldIsSeen ==
  ASSUME TypeOK, NEW key \in Keys, NEW i,
         \A r, u \in Workers : r \notin alive => chan[<<r, u>>] = <<>>
  PROVE  i \in Held(key) <=> \E w \in alive : Seen(w, key, i)
<1>1. alive \subseteq Workers /\ Links = Workers \X Workers
  BY DEF TypeOK, EnvTypeOK, Links
<1>2. \A q : i \in Carried(q, key) <=> HasUpdate(q, key, i)
  BY DEF Carried, HasUpdate, IsState
<1>3. i \in Held(key) <=>
        \/ \E w \in alive : i \in opState[w][key]
        \/ \E w \in alive : collecting[w] = key /\ i \in collected[w]
        \/ \E l \in Links : i \in Carried(chan[l], key)
        \/ \E w \in alive : i \in Carried(out[w], key)
  BY DEF Held
<1>4. ASSUME NEW r \in Workers, NEW u \in Workers, HasUpdate(chan[<<r, u>>], key, i) PROVE r \in alive
  BY <1>4, NothingInside
<1>5. (\E l \in Links : HasUpdate(chan[l], key, i)) <=>
        \E w \in alive : \E r \in Workers : HasUpdate(chan[<<r, w>>], key, i) \/ HasUpdate(chan[<<w, r>>], key, i)
  <2>1. ASSUME NEW l \in Links, HasUpdate(chan[l], key, i)
        PROVE  \E w \in alive : \E r \in Workers : HasUpdate(chan[<<r, w>>], key, i) \/ HasUpdate(chan[<<w, r>>], key, i)
    <3>1. PICK r \in Workers, u \in Workers : l = <<r, u>>
      BY <1>1
    <3>2. HasUpdate(chan[<<r, u>>], key, i) /\ r \in alive
      BY <1>4, <2>1, <3>1
    <3> QED BY <3>2
  <2>2. ASSUME NEW w \in alive, NEW r \in Workers, HasUpdate(chan[<<r, w>>], key, i) \/ HasUpdate(chan[<<w, r>>], key, i)
        PROVE  \E l \in Links : HasUpdate(chan[l], key, i)
    BY <1>1, <2>2
  <2> QED BY <2>1, <2>2
<1> QED BY <1>2, <1>3, <1>5 DEF Seen

\* The same, in the next state.
LEMMA SeenIsHeld ==
  ASSUME NEW key \in Keys, NEW i, NEW w \in alive', w \in Workers, Seen(w, key, i)'
  PROVE  i \in Held(key)'
<1>1. \A q : HasUpdate(q, key, i) => i \in Carried(q, key)
  BY DEF Carried, HasUpdate, IsState
<1>2. HasUpdate(out[w], key, i)' => i \in Carried(out'[w], key)
  BY <1>1
<1>3. \A r, u \in Workers : HasUpdate(chan'[<<r, u>>], key, i) => i \in Carried(chan'[<<r, u>>], key) /\ <<r, u>> \in Links
  BY <1>1 DEF Links
<1>4. \/ i \in opState'[w][key]
      \/ collecting'[w] = key /\ i \in collected'[w]
      \/ i \in Carried(out'[w], key)
      \/ \E l \in Links : i \in Carried(chan'[l], key)
  BY <1>2, <1>3 DEF Seen
<1> QED BY <1>4 DEF Held

LEMMA HeldStays ==
  ASSUME OnlyJoins, TypeOK, TypeOK', Cluster, Migration, Migration', NEW w \in alive, Alone(w), Retains(w)
  PROVE  \A key \in Keys : \A i \in Ids : i \in Held(key) => i \in Held(key)'
<1> SUFFICES ASSUME NEW key \in Keys, NEW i \in Ids, i \in Held(key) PROVE i \in Held(key)'
  OBVIOUS
<1>1. w \in Workers /\ alive \subseteq Workers /\ alive' = alive
  BY Owners DEF Alone
<1>2. PICK u \in alive : Seen(u, key, i)
  BY HeldIsSeen DEF Migration, Pristine
<1>3. ASSUME NEW x \in alive, Seen(x, key, i)' PROVE i \in Held(key)'
  BY <1>1, <1>3, SeenIsHeld
<1>4. CASE u = w
  BY <1>2, <1>3, <1>4 DEF Retains
<1>5. CASE u # w
  <2>1. opState'[u] = opState[u] /\ collecting'[u] = collecting[u] /\ collected'[u] = collected[u] /\ out'[u] = out[u]
    BY <1>1, <1>5 DEF Alone
  <2>2. CASE i \in opState[u][key] \/ (collecting[u] = key /\ i \in collected[u]) \/ HasUpdate(out[u], key, i)
    <3>1. Seen(u, key, i)'
      BY <2>1, <2>2 DEF Seen
    <3> QED BY <1>3, <3>1
  <2>3. ASSUME NEW r \in Workers, HasUpdate(chan[<<r, u>>], key, i) \/ HasUpdate(chan[<<u, r>>], key, i)
        PROVE  i \in Held(key)'
    <3>1. CASE r = w
      <4>1. Seen(w, key, i)
        BY <1>1, <2>3, <3>1 DEF Seen
      <4> QED BY <1>3, <4>1 DEF Retains
    <3>2. CASE r # w
      <4>1. chan'[<<r, u>>] = chan[<<r, u>>] /\ chan'[<<u, r>>] = chan[<<u, r>>]
        BY <1>1, <1>5, <3>2 DEF Alone
      <4>2. Seen(u, key, i)'
        BY <2>3, <4>1 DEF Seen
      <4> QED BY <1>3, <4>2
    <3> QED BY <3>1, <3>2
  <2> QED BY <1>2, <2>2, <2>3 DEF Seen
<1> QED BY <1>4, <1>5

\* A data message on its way: it is taken off a link, or comes from the upstream.
LEMMA HandleMigration ==
  ASSUME OnlyJoins, TypeOK, TypeOK', RescaleCore, Cluster, Migration, NEW w \in alive, NEW d \in DataMessage, NEW r \in alive,
         NEW v \in Int, Comes(r, w, d.key, v), NEW c, NEW next, HandleData(w, d, r, v, c, next),
         \/ r = w /\ c = chan
         \/ /\ r # w /\ chan[<<r, w>>] # <<>> /\ c = Popped(r, w)
            /\ Head(chan[<<r, w>>]).kind = "Data" /\ Head(chan[<<r, w>>]).data = d,
         UNCHANGED <<remotes, lastVersion, delivered, round, alive, opState>>
  PROVE  Migration' /\ Alone(w) /\ Retains(w)
<1> DEFINE m == [kind |-> "Data", data |-> d]
           n == [kind |-> "Data", data |-> d, version |-> version[w]]
<1>1. /\ w \in Workers /\ d.key \in Keys /\ m \in OperatorMessage /\ n \in NetworkMessage
      /\ alive \subseteq Workers /\ Links = Workers \X Workers
      /\ chan \in [Links -> Seq(NetworkMessage)] /\ out[w] \in Seq(OperatorMessage)
  BY Standing, Owners, MessageTypes DEF TypeOK, LinkTypeOK, DataMessage, Links
<1>a. /\ m.kind = "Data" /\ n.kind = "Data" /\ n.data.key = d.key /\ n.version = version[w]
      /\ \A key : (IsData(m, key) <=> key = d.key) /\ ~IsState(m, key)
  BY DEF IsData, IsState
<1>2. /\ \A u \in Workers \ {w} :
           whitelist'[u] = whitelist[u] /\ buffered'[u] = buffered[u] /\ out'[u] = out[u]
      /\ whitelist'[w] = Whitelisted(w, d.key, v)
      /\ UNCHANGED <<mode, version, oldSet, newSet, collecting, collected>>
      /\ Places(w, d, v, c)
  BY HandlePlaces
<1>3. /\ c \in [Links -> Seq(NetworkMessage)]
      /\ \A l \in Links : \/ c[l] = chan[l]
                          \/ l = <<r, w>> /\ r # w /\ chan[l] # <<>> /\ c[l] = Tail(chan[l])
      /\ r # w => c[<<r, w>>] = Tail(chan[<<r, w>>])
  <2>1. CASE r = w /\ c = chan
    BY <1>1, <2>1
  <2>2. CASE r # w /\ chan[<<r, w>>] # <<>> /\ c = Popped(r, w)
    <3>1. c = [chan EXCEPT ![<<r, w>>] = Tail(chan[<<r, w>>])] /\ <<r, w>> \in Links
      BY <1>1, <2>2 DEF Popped
    <3>2. c \in [Links -> Seq(NetworkMessage)]
      BY <1>1, <2>2, LinkTypes DEF Popped
    <3> QED BY <1>1, <2>2, <3>1, <3>2
  <2> QED BY <2>1, <2>2
<1>4. \/ chan' = c
      \/ \E t \in alive \ {w} : Passed(w, t, d.key) /\ chan' = [c EXCEPT ![<<w, t>>] = Append(c[<<w, t>>], n)]
  BY <1>2 DEF Places
<1>b. \/ out'[w] = out[w]
      \/ out'[w] = Append(out[w], m)
  BY <1>2 DEF Places
<1> HIDE DEF m, n
<1>5. \A x \in Workers : chan'[<<x, w>>] = c[<<x, w>>]
  BY <1>1, <1>3, <1>4
<1>6. ASSUME NEW u \in alive \ {w}
      PROVE  \/ chan'[<<w, u>>] = chan[<<w, u>>]
             \/ chan'[<<w, u>>] = Append(chan[<<w, u>>], n) /\ Passed(w, u, d.key)
  <2>1. c[<<w, u>>] = chan[<<w, u>>]
    BY <1>1, <1>3
  <2>2. CASE chan' = c
    BY <2>1, <2>2
  <2>3. ASSUME NEW t \in alive \ {w}, Passed(w, t, d.key), chan' = [c EXCEPT ![<<w, t>>] = Append(c[<<w, t>>], n)]
        PROVE  \/ chan'[<<w, u>>] = chan[<<w, u>>]
               \/ chan'[<<w, u>>] = Append(chan[<<w, u>>], n) /\ Passed(w, u, d.key)
    <3>1. <<w, u>> \in Links /\ <<w, t>> \in Links
      BY <1>1
    <3>2. CASE t = u
      BY <1>3, <2>1, <2>3, <3>1, <3>2
    <3>3. CASE t # u
      BY <1>3, <2>1, <2>3, <3>1, <3>3
    <3> QED BY <3>2, <3>3
  <2> QED BY <1>4, <2>2, <2>3
<1>7. Alone(w)
  <2>1. ASSUME NEW x \in Workers, NEW u \in Workers,
               (x # w /\ u # w) \/ x = u \/ x \notin alive \/ u \notin alive
        PROVE  chan'[<<x, u>>] = chan[<<x, u>>]
    <3>1. c[<<x, u>>] = chan[<<x, u>>]
      BY <1>1, <1>3, <2>1
    <3> QED BY <1>1, <1>3, <1>4, <2>1, <3>1
  <2> QED BY <1>2, <2>1 DEF Alone
<1>8. WorkerOK(w)' /\ QueueOK(w)' /\ Advances(w)
  BY <1>2, <1>7, HandleWorker
<1>9. ASSUME NEW x \in alive \ {w} PROVE LinkOK(x, w)'
  <2>1. \/ chan'[<<x, w>>] = chan[<<x, w>>]
        \/ x = r /\ chan[<<x, w>>] # <<>> /\ chan'[<<x, w>>] = Tail(chan[<<x, w>>])
    BY <1>1, <1>3, <1>5
  <2>2. ASSUME NEW key \in Keys, HasState(chan'[<<x, w>>], key) PROVE Vacant(w, key)'
    <3>1. chan[<<x, w>>] \in Seq(NetworkMessage) /\ LinkOK(x, w)
      BY <1>1 DEF Migration
    <3>2. HasState(chan[<<x, w>>], key)
      BY <2>1, <2>2, <3>1, TakenHas
    <3>3. Vacant(w, key)
      BY <3>1, <3>2 DEF LinkOK
    <3>4. CASE out'[w] = out[w]
      BY <3>3, <3>4 DEF Vacant
    <3>5. CASE out'[w] = Append(out[w], m)
      <4>1. key # d.key
        <5>1. CASE x # r
          BY <1>1, <3>2, <5>1, NoStateComes
        <5>2. CASE x = r
          <6>1. chan'[<<x, w>>] = Tail(chan[<<x, w>>]) /\ chan[<<x, w>>] # <<>> /\ IsData(Head(chan[<<x, w>>]), d.key)
            BY <1>1, <1>3, <1>5, <5>2 DEF IsData
          <6>2. StateFirst(chan[<<x, w>>], d.key)
            BY <1>1, <3>1 DEF LinkOK
          <6> QED BY <2>2, <3>1, <6>1, <6>2, TakenOrder
        <5> QED BY <5>1, <5>2
      <4>2. ~IsData(m, key) /\ ~IsState(m, key)
        BY <1>a, <4>1
      <4> QED BY <1>1, <3>3, <3>5, <4>2, AddedHas DEF Vacant
    <3> QED BY <1>b, <3>4, <3>5
  <2>3. version'[w] = version[w] /\ version[w] <= version'[w] /\ lastVersion'[w][x] = lastVersion[w][x]
    BY <1>2, Standing
  <2> QED BY <1>7, <1>8, <2>1, <2>2, <2>3, InLink
<1>10. ASSUME NEW u \in alive \ {w} PROVE LinkOK(w, u)'
  <2>1. ASSUME Passed(w, u, d.key) PROVE Fits(n, w, u) /\ MayCarry(w, u, n.data.key)
    <3>1. Stuff(n, u, NewOwner) => Untold(w)
      BY <1>a, <2>1 DEF Stuff, Passed
    <3> QED BY <1>a, <2>1, <3>1, NothingAnnounced DEF Fits, Passed
  <2> QED BY <1>1, <1>6, <1>7, <1>8, <2>1, OutLink
<1>11. Migration'
  BY <1>7, <1>8, <1>9, <1>10, StepFrame
<1>12. Retains(w)
  <2> SUFFICES ASSUME NEW key \in Keys, NEW i \in Ids, Seen(w, key, i) PROVE Seen(w, key, i)'
    BY DEF Retains
  <2>1. CASE i \in opState[w][key] \/ (collecting[w] = key /\ i \in collected[w])
    BY <1>2, <2>1 DEF Seen
  <2>2. CASE HasUpdate(out[w], key, i)
    <3>1. HasUpdate(Append(out[w], m), key, i)
      BY <1>1, <2>2, AddedHas
    <3> QED BY <1>b, <2>2, <3>1 DEF Seen
  <2>3. ASSUME NEW x \in Workers, HasUpdate(chan[<<x, w>>], key, i) PROVE Seen(w, key, i)'
    <3>1. chan[<<x, w>>] \in Seq(NetworkMessage)
      BY <1>1
    <3>2. \/ chan'[<<x, w>>] = chan[<<x, w>>]
          \/ /\ chan[<<x, w>>] # <<>> /\ chan'[<<x, w>>] = Tail(chan[<<x, w>>])
             /\ ~IsState(Head(chan[<<x, w>>]), key)
      BY <1>1, <1>3, <1>5 DEF IsState
    <3>3. HasUpdate(chan'[<<x, w>>], key, i)
      BY <2>3, <3>1, <3>2, TakenHas
    <3> QED BY <3>3 DEF Seen
  <2>4. ASSUME NEW x \in Workers, HasUpdate(chan[<<w, x>>], key, i) PROVE Seen(w, key, i)'
    <3>1. chan[<<w, x>>] \in Seq(NetworkMessage)
      BY <1>1
    <3>2. chan'[<<w, x>>] = chan[<<w, x>>] \/ chan'[<<w, x>>] = Append(chan[<<w, x>>], n)
      <4>1. CASE x \in alive \ {w}
        BY <1>6, <4>1
      <4>2. CASE x \notin alive \/ x = w
        BY <1>1, <1>7, <4>2 DEF Alone
      <4> QED BY <4>1, <4>2
    <3>3. HasUpdate(Append(chan[<<w, x>>], n), key, i)
      BY <1>1, <2>4, <3>1, AddedHas
    <3> QED BY <2>4, <3>2, <3>3 DEF Seen
  <2> QED BY <2>1, <2>2, <2>3, <2>4 DEF Seen
<1> QED BY <1>7, <1>11, <1>12

----------------------------------------------------------------------------
\* Messages that say nothing of a key.

Idles == {"Epoch", "AbsBarrier", "SuspendMarker"}
Notes == {"Epoch", "BarrierMarker", "SuspendMarker", "AckUpgrade"}

\* For the keys, queue p is as good as queue q.
Alike(p, q) ==
  /\ (HasKind(p, "Collect") <=> HasKind(q, "Collect")) /\ (HasKind(p, "Interrogate") <=> HasKind(q, "Interrogate"))
  /\ HasKind(p, "Rescale") => HasKind(q, "Rescale")
  /\ Open(p) => Open(q)
  /\ \A key : /\ (HasData(p, key) <=> HasData(q, key)) /\ (HasState(p, key) <=> HasState(q, key))
              /\ StateFirst(q, key) => StateFirst(p, key)
              /\ CollectsLast(q, key) => CollectsLast(p, key)
              /\ Loose(p, key) => Loose(q, key)
              /\ \A i : HasUpdate(q, key, i) => HasUpdate(p, key, i)

LEMMA AlikeAdded ==
  ASSUME NEW q \in Seq(OperatorMessage), NEW m \in OperatorMessage, m.kind \in Idles
  PROVE  Append(q, m) \in Seq(OperatorMessage) /\ Alike(Append(q, m), q)
<1>1. \A key : ~IsData(m, key) /\ ~IsState(m, key)
  BY DEF IsData, IsState, Idles
<1>2. m.kind \notin {"Collect", "Interrogate", "Rescale", "Acquire"}
  BY DEF Idles
<1>3. Append(q, m) \in Seq(OperatorMessage) /\ (Open(Append(q, m)) => Open(q))
      /\ \A kind \in {"Collect", "Interrogate", "Rescale"} : HasKind(Append(q, m), kind) <=> HasKind(q, kind)
  BY <1>2, AddedHas, AddedOrder
<1>4. \A key : /\ (HasData(Append(q, m), key) <=> HasData(q, key)) /\ (HasState(Append(q, m), key) <=> HasState(q, key))
               /\ \A i : HasUpdate(q, key, i) => HasUpdate(Append(q, m), key, i)
  BY <1>1, AddedHas
<1>5. \A key : /\ StateFirst(q, key) => StateFirst(Append(q, m), key)
               /\ CollectsLast(q, key) => CollectsLast(Append(q, m), key)
               /\ Loose(Append(q, m), key) => Loose(q, key)
  BY <1>1, <1>2, AddedOrder
<1> QED BY <1>3, <1>4, <1>5 DEF Alike

LEMMA AlikeTaken ==
  ASSUME NEW q \in Seq(OperatorMessage), q # <<>>, Head(q).kind \in Idles \cup {"Rescale"}
  PROVE  Alike(Tail(q), q)
<1>1. \A key : ~IsData(Head(q), key) /\ ~IsState(Head(q), key)
  BY DEF IsData, IsState, Idles
<1>2. Head(q).kind \notin {"Collect", "Interrogate"}
  BY DEF Idles
<1>3. (Open(Tail(q)) => Open(q)) /\ (HasKind(Tail(q), "Rescale") => HasKind(q, "Rescale"))
      /\ \A kind \in {"Collect", "Interrogate"} : HasKind(Tail(q), kind) <=> HasKind(q, kind)
  BY <1>2, TakenHas, TakenOrder
<1>4. \A key : /\ (HasData(Tail(q), key) <=> HasData(q, key)) /\ (HasState(Tail(q), key) <=> HasState(q, key))
               /\ \A i : HasUpdate(q, key, i) => HasUpdate(Tail(q), key, i)
  BY <1>1, TakenHas
<1>5. \A key : /\ StateFirst(q, key) => StateFirst(Tail(q), key)
               /\ CollectsLast(q, key) => CollectsLast(Tail(q), key)
               /\ Loose(Tail(q), key) => Loose(q, key)
  BY TakenOrder
<1> QED BY <1>3, <1>4, <1>5 DEF Alike

LEMMA OneMore ==
  ASSUME NEW S, NEW q \in Seq(S), NEW m \in S PROVE q \o <<m>> = Append(q, m) /\ q \o <<>> = q
  OBVIOUS

LEMMA AlikeMarkers ==
  ASSUME NEW q \in Seq(OperatorMessage), NEW w
  PROVE  q \o MarkerOut(w) \in Seq(OperatorMessage) /\ Alike(q \o MarkerOut(w), q)
<1> DEFINE a == [kind |-> "AbsBarrier"]
           s == [kind |-> "SuspendMarker"]
<1>1. a \in OperatorMessage /\ s \in OperatorMessage /\ a.kind \in Idles /\ s.kind \in Idles
  BY MessageTypes DEF Idles
<1> DEFINE b == IF BarrierResolved(w) THEN <<a>> ELSE <<>>
           c == IF SuspendResolved(w) THEN <<s>> ELSE <<>>
<1>2. MarkerOut(w) = b \o c
  BY DEF MarkerOut
<1> HIDE DEF a, s
<1>a. b \in Seq(OperatorMessage) /\ c \in Seq(OperatorMessage) /\ (b = <<>> \/ b = <<a>>) /\ (c = <<>> \/ c = <<s>>)
  BY <1>1
<1> HIDE DEF b, c
<1>b. q \o b = q \/ q \o b = Append(q, a)
  BY <1>1, <1>a, OneMore
<1>c. q \o (b \o c) = (q \o b) \o c /\ q \o b \in Seq(OperatorMessage)
  BY <1>a, ConcatAssociative
<1>d. (q \o b) \o c = q \o b \/ (q \o b) \o c = Append(q \o b, s)
  BY <1>1, <1>a, <1>c, OneMore
<1>3. \/ q \o MarkerOut(w) = q
      \/ q \o MarkerOut(w) = Append(q, a) \/ q \o MarkerOut(w) = Append(q, s)
      \/ q \o MarkerOut(w) = Append(Append(q, a), s)
  BY <1>2, <1>b, <1>c, <1>d
<1>4. Alike(q, q) /\ Alike(Append(q, a), q) /\ Alike(Append(q, s), q)
      /\ Append(q, a) \in Seq(OperatorMessage) /\ Append(q, s) \in Seq(OperatorMessage)
  BY <1>1, AlikeAdded DEF Alike
<1>5. Alike(Append(Append(q, a), s), Append(q, a)) /\ Append(Append(q, a), s) \in Seq(OperatorMessage)
  BY <1>1, <1>4, AlikeAdded
<1>6. Alike(Append(Append(q, a), s), q)
  BY <1>4, <1>5 DEF Alike
<1> QED BY <1>3, <1>4, <1>5, <1>6

LEMMA AlikeEpoch ==
  ASSUME NEW q \in Seq(OperatorMessage), NEW w \in Workers, NEW f \in [Workers -> Nat], NEW local \in Nat,
         remotes[w] \subseteq Workers
  PROVE  Alike(q \o HandleEpoch(w, f, local), q)
<1>1. HandleEpoch(w, f, local) \in Seq(OperatorMessage)
  BY HandleEpochType
<1>2. \/ HandleEpoch(w, f, local) = <<>>
      \/ \E m : HandleEpoch(w, f, local) = <<m>> /\ m.kind = "Epoch"
  BY DEF HandleEpoch
<1>3. CASE HandleEpoch(w, f, local) = <<>>
  BY <1>3 DEF Alike
<1>4. ASSUME NEW m, HandleEpoch(w, f, local) = <<m>>, m.kind = "Epoch" PROVE Alike(q \o HandleEpoch(w, f, local), q)
  <2>1. m \in OperatorMessage
    BY <1>1, <1>4
  <2>2. q \o HandleEpoch(w, f, local) = Append(q, m)
    BY <1>4, <2>1
  <2>3. m.kind \in Idles
    BY <1>4 DEF Idles
  <2> QED BY <2>1, <2>2, <2>3, AlikeAdded
<1> QED BY <1>2, <1>3, <1>4

\* A worker whose router and operator stay as they are.
Rests(w) ==
  /\ mode'[w] = mode[w] /\ version'[w] = version[w] /\ oldSet'[w] = oldSet[w] /\ newSet'[w] = newSet[w]
  /\ whitelist'[w] = whitelist[w] /\ collecting'[w] = collecting[w] /\ collected'[w] = collected[w]
  /\ buffered'[w] = buffered[w] /\ opState'[w] = opState[w]
  /\ delivered'[w] = delivered[w] /\ remotes'[w] = remotes[w]

LEMMA RestingWorker ==
  ASSUME OnlyJoins, TypeOK, Cluster, Migration, NEW w \in alive, Alone(w), Rests(w), Alike(out'[w], out[w]),
         \A x \in alive \ {w} : lastVersion'[w][x] = lastVersion[w][x] \/ lastVersion'[w][x] = Top
  PROVE  /\ WorkerOK(w)' /\ QueueOK(w)' /\ Advances(w)
         /\ \A key \in Keys : Vacant(w, key) => Vacant(w, key)'
<1>1. /\ w \in Workers /\ remotes[w] \subseteq alive \ {w}
      /\ UNCHANGED <<Former, Members, OldOwner, NewOwner, Top, Base, round>>
      /\ \A u, k : (MovesAway(u, k)' <=> MovesAway(u, k)) /\ (MovesTo(u, k)' <=> MovesTo(u, k))
      /\ Untold(w)' <=> Untold(w)
  BY Owners, SameRound DEF Alone, Rests, Untold, Cluster, Connected
<1>2. WorkerOK(w) /\ QueueOK(w)
  BY DEF Migration
<1>3. Config(w)'
  BY <1>1, <1>2 DEF WorkerOK, Config, Rests
<1>4. Closing(w)'
  <2> SUFFICES ASSUME round > 0, ~Untold(w), mode[w] = "Normal"
               PROVE  ~Open(out'[w]) /\ \A r \in remotes[w] : lastVersion'[w][r] = Top
    BY <1>1 DEF Closing, Rests
  <2>1. ~Open(out[w]) /\ \A r \in remotes[w] : lastVersion[w][r] = Top
    BY <1>2 DEF WorkerOK, Closing
  <2> QED BY <1>1, <2>1 DEF Alike
<1>5. KeysToCollect(w)'
  BY <1>1, <1>2 DEF WorkerOK, KeysToCollect, Rests
<1>6. Collects(w)'
  BY <1>1, <1>2 DEF WorkerOK, Collects, Rests, Alike
<1>7. Interrogates(w)'
  BY <1>1, <1>2 DEF WorkerOK, Interrogates, Rests, Alike
<1>8. \A key \in Keys : OldOwner[key] = w => (Given(key) => Given(key)') /\ (Holds(key) => Holds(key)')
  BY <1>1 DEF Given, Holds, Rests, Alike
<1>9. Advances(w)
  BY <1>1, <1>8 DEF Advances, Done, Rests, Alike
<1>10. \A key \in Keys : (Given(key) => Given(key)') /\ (Serves(w, key) => Serves(w, key)')
  BY <1>1, <1>8, <1>9, OthersAdvance DEF Serves
<1>11. QueueOK(w)'
  BY <1>1, <1>2, <1>10 DEF QueueOK, Rests, Alike
<1>12. \A key \in Keys : Vacant(w, key) => Vacant(w, key)'
  BY DEF Vacant, Rests, Alike
<1> QED BY <1>3, <1>4, <1>5, <1>6, <1>7, <1>9, <1>11, <1>12 DEF WorkerOK

\* A step that is about no key.
LEMMA IdleStep ==
  ASSUME OnlyJoins, TypeOK, TypeOK', Cluster, Migration, NEW w \in alive, Alone(w), Rests(w), Alike(out'[w], out[w]),
         \A x \in alive \ {w} : \/ lastVersion'[w][x] = lastVersion[w][x]
                                \/ lastVersion'[w][x] = Top /\ Clear(chan'[<<x, w>>], w, NewOwner),
         \A x \in alive \ {w} : \/ chan'[<<x, w>>] = chan[<<x, w>>]
                                \/ /\ chan[<<x, w>>] # <<>> /\ chan'[<<x, w>>] = Tail(chan[<<x, w>>])
                                   /\ Head(chan[<<x, w>>]).kind # "Acquire",
         \A u \in alive \ {w} : \/ chan'[<<w, u>>] = chan[<<w, u>>]
                                \/ \E m \in NetworkMessage : /\ m.kind \in Notes
                                                             /\ chan'[<<w, u>>] = Append(chan[<<w, u>>], m)
  PROVE  Migration' /\ Retains(w)
<1>1. /\ w \in Workers /\ alive \subseteq Workers /\ version[w] <= version'[w] /\ Links = Workers \X Workers
      /\ chan \in [Links -> Seq(NetworkMessage)]
  BY Owners, SMTT(30) DEF Rests, TypeOK, RouterTypeOK, LinkTypeOK, Links
<1>2. /\ WorkerOK(w)' /\ QueueOK(w)' /\ Advances(w)
      /\ \A key \in Keys : Vacant(w, key) => Vacant(w, key)'
  BY RestingWorker
<1>3. ASSUME NEW x \in alive \ {w} PROVE LinkOK(x, w)'
  <2>1. LinkOK(x, w) /\ chan[<<x, w>>] \in Seq(NetworkMessage)
    BY <1>1 DEF Migration
  <2>2. \A key \in Keys : HasState(chan'[<<x, w>>], key) => HasState(chan[<<x, w>>], key)
    BY <2>1, TakenHas
  <2>3. \A key \in Keys : HasState(chan'[<<x, w>>], key) => Vacant(w, key)'
    BY <1>2, <2>1, <2>2 DEF LinkOK
  <2>4. /\ \/ chan'[<<x, w>>] = chan[<<x, w>>]
           \/ chan[<<x, w>>] # <<>> /\ chan'[<<x, w>>] = Tail(chan[<<x, w>>])
        /\ lastVersion'[w][x] = Top => lastVersion[w][x] = Top \/ Clear(chan'[<<x, w>>], w, NewOwner)
    OBVIOUS
  <2> QED BY <1>1, <1>2, <2>3, <2>4, InLink
<1>4. ASSUME NEW u \in alive \ {w} PROVE LinkOK(w, u)'
  <2>1. \A m : m.kind \in Notes => Fits(m, w, u) /\ m.kind # "Data"
    BY DEF Fits, Notes, Stuff
  <2>2. \/ chan'[<<w, u>>] = chan[<<w, u>>]
        \/ \E m \in NetworkMessage :
             /\ chan'[<<w, u>>] = Append(chan[<<w, u>>], m) /\ Fits(m, w, u)
             /\ m.kind = "Data" => MayCarry(w, u, m.data.key)
    BY <2>1
  <2> QED BY <1>2, <2>2, OutLink
<1>5. Migration'
  BY <1>2, <1>3, <1>4, StepFrame
<1>6. Retains(w)
  <2> SUFFICES ASSUME NEW key \in Keys, NEW i \in Ids, Seen(w, key, i) PROVE Seen(w, key, i)'
    BY DEF Retains
  <2>1. CASE i \in opState[w][key] \/ (collecting[w] = key /\ i \in collected[w]) \/ HasUpdate(out[w], key, i)
    BY <2>1 DEF Seen, Rests, Alike
  <2>2. ASSUME NEW x \in Workers, HasUpdate(chan[<<x, w>>], key, i) PROVE Seen(w, key, i)'
    <3>1. CASE x \in alive \ {w}
      <4>1. chan[<<x, w>>] \in Seq(NetworkMessage)
        BY <1>1
      <4>2. \/ chan'[<<x, w>>] = chan[<<x, w>>]
            \/ /\ chan[<<x, w>>] # <<>> /\ chan'[<<x, w>>] = Tail(chan[<<x, w>>])
               /\ ~IsState(Head(chan[<<x, w>>]), key)
        BY <3>1 DEF IsState
      <4>3. HasUpdate(chan'[<<x, w>>], key, i)
        BY <2>2, <4>1, <4>2, TakenHas
      <4> QED BY <4>3 DEF Seen
    <3>2. CASE x \notin alive \ {w}
      BY <1>1, <2>2, <3>2 DEF Alone, Seen
    <3> QED BY <3>1, <3>2
  <2>3. ASSUME NEW x \in Workers, HasUpdate(chan[<<w, x>>], key, i) PROVE Seen(w, key, i)'
    <3>1. CASE x \in alive \ {w}
      <4>1. chan[<<w, x>>] \in Seq(NetworkMessage)
        BY <1>1
      <4>2. CASE chan'[<<w, x>>] = chan[<<w, x>>]
        BY <2>3, <4>2 DEF Seen
      <4>3. ASSUME NEW m \in NetworkMessage, chan'[<<w, x>>] = Append(chan[<<w, x>>], m) PROVE Seen(w, key, i)'
        <5>1. HasUpdate(Append(chan[<<w, x>>], m), key, i)
          BY <2>3, <4>1, AddedHas
        <5> QED BY <4>3, <5>1 DEF Seen
      <4> QED BY <3>1, <4>2, <4>3
    <3>2. CASE x \notin alive \ {w}
      BY <1>1, <2>3, <3>2 DEF Alone, Seen
    <3> QED BY <3>1, <3>2
  <2> QED BY <2>1, <2>2, <2>3 DEF Seen
<1> QED BY <1>5, <1>6

LEMMA BroadcastLinks ==
  ASSUME TypeOK, Cluster, NEW w \in alive, NEW c \in [Links -> Seq(NetworkMessage)], NEW m \in NetworkMessage
  PROVE  /\ \A r, u \in Workers : r # w \/ u \notin remotes[w] => Broadcast(c, w, m)[<<r, u>>] = c[<<r, u>>]
         /\ \A u \in remotes[w] : Broadcast(c, w, m)[<<w, u>>] = Append(c[<<w, u>>], m)
<1>1. w \in Workers /\ remotes[w] \subseteq Workers
  BY ClusterFacts
<1>2. \A l \in Links : Broadcast(c, w, m)[l] = IF l[1] = w /\ l[2] \in remotes[w] THEN Append(c[l], m) ELSE c[l]
  BY DEF Broadcast
<1>3. \A r, u \in Workers : <<r, u>> \in Links /\ <<r, u>>[1] = r /\ <<r, u>>[2] = u
  BY DEF Links
<1> HIDE DEF Links
<1> QED BY <1>1, <1>2, <1>3

\* Everything of the router and the operator stays.
AllRest ==
  UNCHANGED <<mode, version, oldSet, newSet, whitelist, collecting, collected, buffered, opState, delivered,
              remotes, round, alive>>

LEMMA AllRestAlone ==
  ASSUME NEW w \in alive, AllRest,
         \A u \in Workers \ {w} : out'[u] = out[u] /\ lastVersion'[u] = lastVersion[u],
         \A r, u \in Workers : (r # w /\ u # w) \/ r = u \/ r \notin alive \/ u \notin alive =>
            chan'[<<r, u>>] = chan[<<r, u>>]
  PROVE  Alone(w) /\ Rests(w)
  BY DEF AllRest, Alone, Rests

\* The steps of a worker that are about no key.
LEMMA LocalMigration ==
  ASSUME OnlyJoins, TypeOK, TypeOK', Cluster, Migration, NEW w \in alive,
         BeginRun(w) \/ NoLocal(w) \/ LocalEpoch(w) \/ LocalBarrier(w) \/ (RunTail(w) /\ LifecycleStays(w))
  PROVE  Migration' /\ Alone(w) /\ Retains(w)
<1>1. /\ w \in Workers /\ remotes[w] \subseteq alive \ {w} /\ alive \subseteq Workers
      /\ chan \in [Links -> Seq(NetworkMessage)] /\ out \in [Workers -> Seq(OperatorMessage)]
      /\ out[w] \in Seq(OperatorMessage) /\ remotes[w] \subseteq Workers
  BY ClusterFacts, Owners DEF Cluster, Connected, TypeOK, LinkTypeOK
<1>2. AllRest /\ UNCHANGED lastVersion
  BY DEF BeginRun, NoLocal, LocalEpoch, LocalBarrier, RunTail, LifecycleStays, AllRest, routerVars, peerVars,
     opVars, envVars
<1>3. \/ chan' = chan
      \/ \E m \in NetworkMessage : m.kind \in Notes /\ chan' = Broadcast(chan, w, m)
  <2>1. CASE BeginRun(w) \/ NoLocal(w) \/ LifecycleStays(w)
    BY <2>1 DEF BeginRun, NoLocal, LifecycleStays
  <2>2. CASE LocalEpoch(w)
    <3>1. PICK e \in (localFrontier[w] + 1)..MaxEpoch : chan' = Broadcast(chan, w, [kind |-> "Epoch", ts |-> e])
      BY <2>2 DEF LocalEpoch
    <3>2. e \in Nat \ {NoTime}
      BY <1>1, DistributorAssumption DEF TypeOK, LocalTypeOK, NoTime
    <3>3. [kind |-> "Epoch", ts |-> e] \in NetworkMessage /\ [kind |-> "Epoch", ts |-> e].kind \in Notes
      BY <3>2, MessageTypes DEF Notes
    <3> QED BY <3>1, <3>3
  <2>3. CASE LocalBarrier(w)
    <3>1. chan' = Broadcast(chan, w, [kind |-> "BarrierMarker"])
      BY <2>3 DEF LocalBarrier
    <3>2. [kind |-> "BarrierMarker"] \in NetworkMessage /\ [kind |-> "BarrierMarker"].kind \in Notes
      BY MessageTypes DEF Notes
    <3> QED BY <3>1, <3>2
  <2> QED BY <2>1, <2>2, <2>3
<1>4. Alike(out'[w], out[w]) /\ \A u \in Workers \ {w} : out'[u] = out[u]
  <2>1. CASE BeginRun(w) \/ NoLocal(w) \/ LocalBarrier(w)
    BY <2>1 DEF BeginRun, NoLocal, LocalBarrier, Alike
  <2>2. CASE LocalEpoch(w)
    <3>1. PICK e \in (localFrontier[w] + 1)..MaxEpoch : out' = [out EXCEPT ![w] = @ \o HandleEpoch(w, frontier[w], e)]
      BY <2>2 DEF LocalEpoch
    <3>2. e \in Nat /\ frontier[w] \in [Workers -> Nat]
      BY <1>1, DistributorAssumption DEF TypeOK, LocalTypeOK, PeerTypeOK
    <3>3. Alike(out[w] \o HandleEpoch(w, frontier[w], e), out[w])
      BY <1>1, <3>2, AlikeEpoch
    <3> QED BY <1>1, <3>1, <3>3
  <2>3. CASE LifecycleStays(w)
    <3>1. out' = [out EXCEPT ![w] = @ \o MarkerOut(w)]
      BY <2>3 DEF LifecycleStays
    <3>2. Alike(out[w] \o MarkerOut(w), out[w])
      BY <1>1, AlikeMarkers
    <3> QED BY <1>1, <3>1, <3>2
  <2> QED BY <2>1, <2>2, <2>3
<1>5. /\ \A r, u \in Workers : r # w \/ u \notin alive \/ u = w => chan'[<<r, u>>] = chan[<<r, u>>]
      /\ \A u \in alive \ {w} : \/ chan'[<<w, u>>] = chan[<<w, u>>]
                                \/ \E m \in NetworkMessage : /\ m.kind \in Notes
                                                             /\ chan'[<<w, u>>] = Append(chan[<<w, u>>], m)
  <2>1. CASE chan' = chan
    BY <2>1
  <2>2. ASSUME NEW m \in NetworkMessage, m.kind \in Notes, chan' = Broadcast(chan, w, m)
        PROVE  <1>5!1 /\ <1>5!2
    <3> DEFINE e == Broadcast(chan, w, m)
    <3>0. /\ \A r, u \in Workers : r # w \/ u \notin remotes[w] => e[<<r, u>>] = chan[<<r, u>>]
          /\ \A u \in remotes[w] : e[<<w, u>>] = Append(chan[<<w, u>>], m)
      BY <1>1, BroadcastLinks
    <3>a. chan' = e
      BY <2>2
    <3> HIDE DEF e
    <3>1. /\ \A r, u \in Workers : r # w \/ u \notin remotes[w] => chan'[<<r, u>>] = chan[<<r, u>>]
          /\ \A u \in remotes[w] : chan'[<<w, u>>] = Append(chan[<<w, u>>], m)
      BY <3>0, <3>a
    <3> QED BY <1>1, <2>2, <3>1
  <2> QED BY <1>3, <2>1, <2>2
<1>6. Alone(w) /\ Rests(w)
  BY <1>1, <1>2, <1>4, <1>5, AllRestAlone
<1>7. \A x \in alive \ {w} : chan'[<<x, w>>] = chan[<<x, w>>]
  BY <1>1, <1>5
<1> QED BY <1>2, <1>4, <1>5, <1>6, <1>7, IdleStep

----------------------------------------------------------------------------
\* A message of a remote.

\* The state of a key arrives.
LEMMA AcquireMigration ==
  ASSUME OnlyJoins, TypeOK, TypeOK', RescaleCore, Cluster, Migration, NEW w \in alive, NEW r \in alive \ {w},
         chan[<<r, w>>] # <<>>, Head(chan[<<r, w>>]).kind = "Acquire",
         chan' = Popped(r, w), out' = [out EXCEPT ![w] = Append(@, Head(chan[<<r, w>>]))],
         AllRest, UNCHANGED lastVersion
  PROVE  Migration' /\ Alone(w) /\ Retains(w)
<1> DEFINE q == chan[<<r, w>>]
           m == Head(q)
<1>1. /\ w \in Workers /\ r \in Workers /\ alive \subseteq Workers /\ <<r, w>> \in Links
      /\ UNCHANGED <<Former, Members, OldOwner, NewOwner, Top, Base, round>>
      /\ \A u, k : (MovesAway(u, k)' <=> MovesAway(u, k)) /\ (MovesTo(u, k)' <=> MovesTo(u, k))
      /\ remotes[w] \subseteq alive \ {w}
  BY Owners, SameRound DEF AllRest, Links, Cluster, Connected
<1>2. chan \in [Links -> Seq(NetworkMessage)] /\ out \in [Workers -> Seq(OperatorMessage)]
  BY DEF TypeOK, LinkTypeOK
<1>3. q \in Seq(NetworkMessage) /\ m \in NetworkMessage /\ m \in OperatorMessage /\ m.kind = "Acquire"
  BY <1>1, <1>2, NetworkFields
<1>4. m.key \in Keys
  BY <1>3, OperatorFields
<1> DEFINE k == m.key
<1>5. /\ chan' = [chan EXCEPT ![<<r, w>>] = Tail(q)] /\ out' = [out EXCEPT ![w] = Append(out[w], m)]
      /\ \A key : (IsState(m, key) <=> key = k) /\ ~IsData(m, key)
  BY <1>3 DEF Popped, IsState, IsData
<1>6. WorkerOK(w) /\ QueueOK(w) /\ LinkOK(r, w)
  BY DEF Migration
<1> HIDE DEF m
<1>7. HasState(q, k) /\ ~HasState(Tail(q), k)
  <2>1. StateFirst(q, k)
    BY <1>4, <1>6 DEF LinkOK
  <2>2. IsState(Head(q), k)
    BY <1>5 DEF m
  <2>3. q # <<>>
    OBVIOUS
  <2> HIDE DEF q, k
  <2>4. HasState(q, k)
    BY <1>3, <2>2, <2>3, TakenHas
  <2>5. ~HasState(Tail(q), k)
    BY <1>3, <2>1, <2>2, <2>3, TakenOrder
  <2> QED BY <2>4, <2>5
<1>8. OldOwner[k] = r /\ MovesTo(w, k) /\ Given(k) /\ Vacant(w, k)
  BY <1>4, <1>6, <1>7 DEF LinkOK
<1>9. /\ \A u \in Workers \ {w} : out'[u] = out[u]
      /\ out'[w] = Append(out[w], m) /\ out[w] \in Seq(OperatorMessage)
      /\ \A x, u \in Workers : <<x, u>> # <<r, w>> => chan'[<<x, u>>] = chan[<<x, u>>]
      /\ chan'[<<r, w>>] = Tail(q)
  BY <1>1, <1>2, <1>5 DEF Links
<1>10. Alone(w) /\ Rests(w)
  BY <1>1, <1>9, AllRestAlone
<1> HIDE DEF q, k
<1>11. /\ \A kind \in {"Collect", "Interrogate", "Rescale"} : HasKind(out'[w], kind) <=> HasKind(out[w], kind)
       /\ \A key : HasData(out'[w], key) <=> HasData(out[w], key)
       /\ \A key : HasState(out'[w], key) <=> HasState(out[w], key) \/ key = k
       /\ \A key, i : HasUpdate(out'[w], key, i) <=> HasUpdate(out[w], key, i) \/ (key = k /\ i \in m.state)
       /\ \A key : CollectsLast(out[w], key) => CollectsLast(out'[w], key)
       /\ \A key : Loose(out'[w], key) => Loose(out[w], key)
  <2>1. /\ \A kind \in {"Collect", "Interrogate", "Rescale"} : HasKind(out'[w], kind) <=> HasKind(out[w], kind)
        /\ \A key : HasData(out'[w], key) <=> HasData(out[w], key)
        /\ \A key : HasState(out'[w], key) <=> HasState(out[w], key) \/ key = k
    <3>1. /\ \A kind : HasKind(Append(out[w], m), kind) <=> HasKind(out[w], kind) \/ m.kind = kind
          /\ \A key : HasData(Append(out[w], m), key) <=> HasData(out[w], key) \/ IsData(m, key)
          /\ \A key : HasState(Append(out[w], m), key) <=> HasState(out[w], key) \/ IsState(m, key)
      BY <1>3, <1>9, AddedHas
    <3> QED BY <1>3, <1>5, <1>9, <3>1
  <2>2. \A key, i : HasUpdate(out'[w], key, i) <=> HasUpdate(out[w], key, i) \/ (key = k /\ i \in m.state)
    BY <1>3, <1>5, <1>9, AddedHas
  <2>3. \A key : /\ CollectsLast(out[w], key) => CollectsLast(out'[w], key)
                 /\ Loose(out'[w], key) => Loose(out[w], key)
    BY <1>3, <1>5, <1>9, AddedOrder
  <2> QED BY <2>1, <2>2, <2>3
<1>12. Untold(w)' <=> Untold(w)
  BY <1>1, <1>10 DEF Rests, Untold
<1>13. Config(w)'
  BY <1>1, <1>6, <1>10, <1>12 DEF WorkerOK, Config, Rests
<1>14. Closing(w)'
  <2> SUFFICES ASSUME round > 0, ~Untold(w), mode[w] = "Normal" PROVE FALSE
    BY <1>1, <1>10, <1>12 DEF Closing, Rests
  <2>1. \A x \in remotes[w] : lastVersion[w][x] = Top
    BY <1>6 DEF WorkerOK, Closing
  <2>2. r \in remotes[w]
    BY Standing
  <2>3. Clear(q, w, NewOwner)
    BY <1>6, <2>1, <2>2 DEF LinkOK, q
  <2> QED BY <1>3, <1>7, <2>3, NothingThere
<1>15. KeysToCollect(w)'
  BY <1>1, <1>6, <1>10 DEF WorkerOK, KeysToCollect, Rests
<1>16. Collects(w)'
  BY <1>6, <1>10, <1>11 DEF WorkerOK, Collects, Rests
<1>17. Interrogates(w)'
  BY <1>1, <1>6, <1>10, <1>11 DEF WorkerOK, Interrogates, Rests
<1>18. Advances(w) /\ \A key \in Keys : OldOwner[key] = w => (Holds(key) => Holds(key)')
  BY <1>1, <1>10, <1>11, <1>12 DEF Advances, Done, Given, Holds, Rests
<1>19. \A key \in Keys : (Given(key) => Given(key)') /\ (Serves(w, key) => Serves(w, key)')
  BY <1>1, <1>10, <1>18, OthersAdvance DEF Serves
<1>20. QueueOK(w)'
  <2>1. opState'[w] = opState[w]
    BY <1>10 DEF Rests
  <2>2. \A key \in Keys : HasData(out'[w], key) \/ opState'[w][key] # {} => Serves(w, key)'
    BY <1>6, <1>11, <1>19, <2>1 DEF QueueOK
  <2>3. \A key \in Keys : HasState(out'[w], key) => MovesTo(w, key)' /\ Given(key)' /\ opState'[w][key] = {}
    BY <1>1, <1>6, <1>8, <1>11, <1>19, <2>1 DEF QueueOK, Vacant
  <2>4. \A key \in Keys : StateFirst(out'[w], key)
    BY <1>3, <1>5, <1>6, <1>8, <1>9, AddedOrder DEF QueueOK, Vacant
  <2> QED BY <2>2, <2>3, <2>4 DEF QueueOK
<1>21. ASSUME NEW x \in alive \ {w} PROVE LinkOK(x, w)'
  <2>1. LinkOK(x, w) /\ x \in Workers
    BY <1>1 DEF Migration
  <2>2. \/ chan'[<<x, w>>] = chan[<<x, w>>] /\ x # r
        \/ x = r /\ chan[<<x, w>>] = q /\ q # <<>> /\ chan'[<<x, w>>] = Tail(q)
    BY <1>1, <1>9, <2>1 DEF q
  <2>3. ASSUME NEW key \in Keys, HasState(chan'[<<x, w>>], key) PROVE Vacant(w, key)'
    <3>1. HasState(chan[<<x, w>>], key)
      BY <1>3, <2>2, <2>3, TakenHas
    <3>2. OldOwner[key] = x /\ Vacant(w, key)
      BY <2>1, <3>1 DEF LinkOK
    <3>3. key # k
      BY <1>7, <1>8, <2>2, <2>3, <3>2
    <3> QED BY <1>10, <1>11, <3>2, <3>3 DEF Vacant, Rests
  <2>4. version[w] <= version'[w] /\ lastVersion'[w][x] = lastVersion[w][x]
    BY <1>1, <1>10 DEF Rests, TypeOK, RouterTypeOK
  <2>5. \/ chan'[<<x, w>>] = chan[<<x, w>>]
        \/ chan[<<x, w>>] # <<>> /\ chan'[<<x, w>>] = Tail(chan[<<x, w>>])
    BY <2>2
  <2> QED BY <1>10, <1>18, <2>3, <2>4, <2>5, InLink
<1>22. ASSUME NEW u \in alive \ {w} PROVE LinkOK(w, u)'
  <2>1. chan'[<<w, u>>] = chan[<<w, u>>]
    BY <1>1, <1>9
  <2> QED BY <1>10, <1>18, <2>1, OutLink
<1>23. Migration'
  <2>1. WorkerOK(w)'
    BY <1>13, <1>14, <1>15, <1>16, <1>17 DEF WorkerOK
  <2> QED BY <1>10, <1>18, <1>20, <1>21, <1>22, <2>1, StepFrame
<1>24. Retains(w)
  <2> SUFFICES ASSUME NEW key \in Keys, NEW i \in Ids, Seen(w, key, i) PROVE Seen(w, key, i)'
    BY DEF Retains
  <2>1. CASE i \in opState[w][key] \/ (collecting[w] = key /\ i \in collected[w]) \/ HasUpdate(out[w], key, i)
    BY <1>10, <1>11, <2>1 DEF Seen, Rests
  <2>2. ASSUME NEW x \in Workers, HasUpdate(chan[<<x, w>>], key, i) PROVE Seen(w, key, i)'
    <3>1. CASE x # r
      BY <1>1, <1>9, <2>2, <3>1 DEF Seen
    <3>2. CASE x = r
      <4>1. HasUpdate(Tail(q), key, i) \/ (IsState(m, key) /\ i \in m.state)
        BY <1>3, <2>2, <3>2, TakenHas DEF q, m
      <4>2. HasUpdate(chan'[<<r, w>>], key, i) \/ HasUpdate(out'[w], key, i)
        BY <1>5, <1>9, <1>11, <4>1
      <4> QED BY <1>1, <4>2 DEF Seen
    <3> QED BY <3>1, <3>2
  <2>3. ASSUME NEW x \in Workers, HasUpdate(chan[<<w, x>>], key, i) PROVE Seen(w, key, i)'
    BY <1>1, <1>9, <2>3 DEF Seen
  <2> QED BY <2>1, <2>2, <2>3 DEF Seen
<1> QED BY <1>10, <1>23, <1>24

LEMMA ReceiveMigration ==
  ASSUME OnlyJoins, TypeOK, TypeOK', RescaleCore, PolledLinksFilled, Cluster, Migration, NEW w \in alive,
         NEW r \in Workers, ReceiveRemote(w, r)
  PROVE  Migration' /\ Alone(w) /\ Retains(w)
<1> DEFINE q == chan[<<r, w>>]
           m == Head(q)
<1>1. /\ w \in Workers /\ alive \subseteq Workers /\ <<r, w>> \in Links /\ <<w, r>> \in Links
      /\ remotes[w] \subseteq alive \ {w} /\ remotes[w] \subseteq Workers
      /\ chan \in [Links -> Seq(NetworkMessage)] /\ out \in [Workers -> Seq(OperatorMessage)]
  BY Owners, ClusterFacts DEF TypeOK, LinkTypeOK, Links, Cluster, Connected
<1>2. q # <<>> /\ r \in alive \ {w}
  BY <1>1 DEF ReceiveRemote, InRun, PolledLinksFilled, Migration, Pristine
<1>3. q \in Seq(NetworkMessage) /\ m \in NetworkMessage /\ LinkOK(r, w) /\ version[w] \in Nat
  BY <1>1, <1>2, SMTT(30) DEF Migration, TypeOK, RouterTypeOK
<1>4. Popped(r, w) = [chan EXCEPT ![<<r, w>>] = Tail(q)]
  BY DEF Popped
<1>5. CASE RemoteData(w, r, m)
  <2>1. m.kind = "Data" /\ HandleData(w, m.data, r, m.version, Popped(r, w), [turn EXCEPT !.poll = @ \ {r}])
        /\ UNCHANGED <<remotes, lastVersion, delivered, round, alive, opState>>
    BY <1>5 DEF RemoteData, peerVars, envVars, opVars
  <2>2. m.data \in DataMessage /\ m.version \in Nat /\ m.version \in Int
    BY <1>3, <2>1, NetworkFields
  <2>3. m.data.key \in Keys
    BY <2>2 DEF DataMessage
  <2> DEFINE key == m.data.key
             v == m.version
             d == m.data
             next == [turn EXCEPT !.poll = @ \ {r}]
             c == Popped(r, w)
  <2>4. Comes(r, w, key, v)
    <3>1. HasData(q, key)
      <4>1. IsData(m, key)
        BY <2>1 DEF IsData
      <4> QED BY <1>2, <1>3, <4>1, TakenHas
    <3>2. MayCarry(r, w, key)
      BY <1>3, <2>3, <3>1 DEF LinkOK
    <3>3. w \in Former => v <= version[w]
      BY <1>2, <1>3, <2>1, TakenLink, ZenonT(60) DEF LinkOK
    <3>4. w \in Former => ~(v > version[w])
      BY <1>3, <2>2, <3>3
    <3> QED BY <1>2, <2>2, <3>2, <3>4 DEF Comes
  <2>5. /\ d \in DataMessage /\ v \in Int /\ Comes(r, w, d.key, v) /\ HandleData(w, d, r, v, c, next)
        /\ r \in alive /\ r # w /\ chan[<<r, w>>] # <<>> /\ c = Popped(r, w)
        /\ Head(chan[<<r, w>>]).kind = "Data" /\ Head(chan[<<r, w>>]).data = d
    BY <1>2, <2>1, <2>2, <2>4
  <2> HIDE DEF d, v, c, next
  <2> QED BY <2>1, <2>5, HandleMigration
<1>6. ASSUME ~RemoteData(w, r, m)
      PROVE  /\ \/ RemoteEpoch(w, r, m) \/ RemoteMarker(w, r, m) \/ RemoteAcquire(w, r, m)
                \/ RemoteUpgrade(w, r, m) \/ RemoteAckUpgrade(w, r, m)
             /\ chan' = IF m.kind = "Upgrade"
                        THEN [Popped(r, w) EXCEPT ![<<w, r>>] =
                                Append(@, [kind |-> "AckUpgrade", version |-> m.version])]
                        ELSE Popped(r, w)
             /\ UNCHANGED <<routerVars, opVars, envVars>>
  BY <1>6 DEF ReceiveRemote
<1>7. CASE ~RemoteData(w, r, m) /\ ~RemoteAcquire(w, r, m)
  <2>1. AllRest
    BY <1>6, <1>7 DEF AllRest, RemoteEpoch, RemoteMarker, RemoteUpgrade, RemoteAckUpgrade, routerVars, opVars,
       envVars, peerVars
  <2>2. Alike(out'[w], out[w]) /\ \A u \in Workers \ {w} : out'[u] = out[u]
    <3>1. CASE RemoteEpoch(w, r, m)
      <4>1. out' = [out EXCEPT ![w] = @ \o HandleEpoch(w, frontier'[w], localFrontier[w])]
        BY <3>1 DEF RemoteEpoch
      <4>2. frontier'[w] \in [Workers -> Nat] /\ localFrontier[w] \in Nat
        BY <1>1 DEF TypeOK, PeerTypeOK, LocalTypeOK
      <4>3. Alike(out[w] \o HandleEpoch(w, frontier'[w], localFrontier[w]), out[w])
        BY <1>1, <4>2, AlikeEpoch
      <4> QED BY <1>1, <4>1, <4>3
    <3>2. CASE RemoteMarker(w, r, m) \/ RemoteUpgrade(w, r, m) \/ RemoteAckUpgrade(w, r, m)
      BY <3>2 DEF RemoteMarker, RemoteUpgrade, RemoteAckUpgrade, Alike
    <3> QED BY <1>6, <1>7, <3>1, <3>2
  <2>3. m.kind # "Acquire" /\ (m.kind = "Upgrade" <=> RemoteUpgrade(w, r, m))
    BY <1>6, <1>7 DEF RemoteEpoch, RemoteMarker, RemoteUpgrade, RemoteAckUpgrade
  <2> DEFINE a == [kind |-> "AckUpgrade", version |-> m.version]
  <2>4. m.kind = "Upgrade" => a \in NetworkMessage /\ a.kind \in Notes
    BY <1>3, NetworkFields, MessageTypes DEF Notes
  <2>5. chan' = IF m.kind = "Upgrade" THEN [Popped(r, w) EXCEPT ![<<w, r>>] = Append(@, a)] ELSE Popped(r, w)
    BY <1>6, <1>7
  <2> HIDE DEF a
  <2>6. /\ \A x, u \in Workers : <<x, u>> # <<r, w>> /\ <<x, u>> # <<w, r>> => chan'[<<x, u>>] = chan[<<x, u>>]
        /\ chan'[<<r, w>>] = Tail(q)
        /\ \/ chan'[<<w, r>>] = chan[<<w, r>>]
           \/ m.kind = "Upgrade" /\ chan'[<<w, r>>] = Append(chan[<<w, r>>], a)
    BY <1>1, <1>2, <1>4, <2>5 DEF Links
  <2>7. /\ \A x, u \in Workers : (x # w /\ u # w) \/ x = u \/ x \notin alive \/ u \notin alive =>
             chan'[<<x, u>>] = chan[<<x, u>>]
        /\ \A x \in alive \ {w} : \/ chan'[<<x, w>>] = chan[<<x, w>>]
                                  \/ /\ chan[<<x, w>>] # <<>> /\ chan'[<<x, w>>] = Tail(chan[<<x, w>>])
                                     /\ Head(chan[<<x, w>>]).kind # "Acquire"
        /\ \A u \in alive \ {w} : \/ chan'[<<w, u>>] = chan[<<w, u>>]
                                  \/ \E n \in NetworkMessage : /\ n.kind \in Notes
                                                               /\ chan'[<<w, u>>] = Append(chan[<<w, u>>], n)
    <3>1. \A x, u \in Workers : (x # w /\ u # w) \/ x = u \/ x \notin alive \/ u \notin alive =>
             chan'[<<x, u>>] = chan[<<x, u>>]
      BY <1>2, <2>6
    <3>2. \A x \in alive \ {w} : \/ chan'[<<x, w>>] = chan[<<x, w>>]
                                 \/ /\ chan[<<x, w>>] # <<>> /\ chan'[<<x, w>>] = Tail(chan[<<x, w>>])
                                    /\ Head(chan[<<x, w>>]).kind # "Acquire"
      BY <1>1, <1>2, <2>3, <2>6
    <3>3. \A u \in alive \ {w} : \/ chan'[<<w, u>>] = chan[<<w, u>>]
                                 \/ \E n \in NetworkMessage : /\ n.kind \in Notes
                                                              /\ chan'[<<w, u>>] = Append(chan[<<w, u>>], n)
      BY <1>1, <1>2, <2>4, <2>6
    <3> QED BY <3>1, <3>2, <3>3
  <2>8. /\ \A u \in Workers \ {w} : lastVersion'[u] = lastVersion[u]
        /\ \A x \in alive \ {w} : \/ lastVersion'[w][x] = lastVersion[w][x]
                                  \/ lastVersion'[w][x] = Top /\ Clear(chan'[<<x, w>>], w, NewOwner)
    <3>1. CASE RemoteUpgrade(w, r, m)
      <4>1. lastVersion' = [lastVersion EXCEPT ![w][r] = m.version] /\ m.kind = "Upgrade"
        BY <3>1 DEF RemoteUpgrade
      <4>2. m.version = Top /\ Clear(Tail(q), w, NewOwner)
        BY <1>2, <1>3, <4>1, TakenLink DEF LinkOK
      <4>3. lastVersion \in [Workers -> [Workers -> Nat \cup {NoVersion}]]
        BY DEF TypeOK, PeerTypeOK
      <4>4. /\ \A u \in Workers \ {w} : lastVersion'[u] = lastVersion[u]
            /\ \A x \in Workers : lastVersion'[w][x] = IF x = r THEN m.version ELSE lastVersion[w][x]
        BY <1>1, <4>1, <4>3
      <4> QED BY <1>1, <2>6, <4>2, <4>4
    <3>2. CASE ~RemoteUpgrade(w, r, m)
      BY <1>6, <1>7, <3>2 DEF RemoteEpoch, RemoteMarker, RemoteAckUpgrade, peerVars
    <3> QED BY <3>1, <3>2
  <2>9. Alone(w) /\ Rests(w)
    BY <1>1, <2>1, <2>2, <2>7, <2>8, AllRestAlone
  <2> QED BY <2>2, <2>7, <2>8, <2>9, IdleStep
<1>8. CASE ~RemoteData(w, r, m) /\ RemoteAcquire(w, r, m)
  <2>1. m.kind = "Acquire" /\ out' = [out EXCEPT ![w] = Append(@, m)] /\ UNCHANGED peerVars
    BY <1>8 DEF RemoteAcquire
  <2>2. chan' = Popped(r, w) /\ AllRest /\ UNCHANGED lastVersion
    BY <1>6, <1>8, <2>1 DEF AllRest, routerVars, opVars, envVars, peerVars
  <2> QED BY <1>2, <2>1, <2>2, AcquireMigration
<1> QED BY <1>5, <1>7, <1>8

----------------------------------------------------------------------------
\* The local upstream.

LEMMA RescaleDoneIsAllDone ==
  ASSUME TypeOK, RescaleDone PROVE AllDone
<1>1. \A u \in alive : delivered[u] = round /\ mode[u] = "Normal" /\ ~HasKind(out[u], "Rescale")
  BY DEF RescaleDone, Pending, HasKind
<1>2. round \in Int
  BY ScalesType DEF TypeOK, EnvTypeOK
<1> QED BY <1>1, <1>2 DEF AllDone, Done, Untold

LEMMA LocalDataMigration ==
  ASSUME OnlyJoins, Quiet, TypeOK, TypeOK', RescaleCore, Cluster, Migration, NEW w \in alive, LocalData(w)
  PROVE  Migration' /\ Alone(w) /\ Retains(w)
<1>1. PICK k \in Keys, ts \in (localFrontier[w] + 1)..(MaxEpoch + 1) :
        HandleData(w, [key |-> k, id |-> nextId, ts |-> ts], w, NoVersion, chan, ToTail)
  BY DEF LocalData
<1>2. nextId <= MaxData /\ UpstreamActive(w)
      /\ UNCHANGED <<remotes, lastVersion, delivered, round, alive, opState>>
  BY DEF LocalData, peerVars, opVars, envVars
<1> DEFINE d == [key |-> k, id |-> nextId, ts |-> ts]
<1>3. d \in DataMessage /\ d.key = k
  <2>1. nextId \in Ids
    BY <1>2, DistributorAssumption DEF TypeOK, EnvTypeOK, Ids
  <2>2. w \in Workers /\ localFrontier[w] \in Nat
    BY Owners DEF TypeOK, LocalTypeOK
  <2>3. ts \in Nat \ {NoTime}
    BY <2>2, DistributorAssumption DEF NoTime
  <2> QED BY <2>1, <2>3 DEF DataMessage
<1>4. round \in Int /\ delivered[w] \in Int /\ delivered[w] >= 0 /\ (round > 0 => Former = WorkersBefore(round))
  BY ScalesType, Owners DEF TypeOK, EnvTypeOK
<1>5. Comes(w, w, k, NoVersion)
  <2>1. RescaleDone \/ (delivered[w] < round /\ w \in WorkersBefore(round))
    BY <1>2 DEF UpstreamActive
  <2>2. CASE RescaleDone
    BY <2>2, RescaleDoneIsAllDone DEF Comes
  <2>3. CASE delivered[w] < round /\ w \in WorkersBefore(round)
    <3>1. Untold(w) /\ w \in Former
      BY <1>4, <2>3 DEF Untold
    <3> QED BY <3>1 DEF Comes
  <2> QED BY <2>1, <2>2, <2>3
<1>6. NoVersion \in Int
  BY DEF NoVersion
<1> DEFINE next == ToTail
           c == chan
<1>7. HandleData(w, d, w, NoVersion, c, next) /\ c = chan /\ Comes(w, w, d.key, NoVersion)
  BY <1>1, <1>3, <1>5
<1> HIDE DEF d, next, c
<1> QED BY <1>2, <1>3, <1>6, <1>7, HandleMigration

LEMMA LocalRescaleMigration ==
  ASSUME OnlyJoins, TypeOK, TypeOK', RescaleCore, Cluster, Migration, NEW w \in alive, LocalRescale(w)
  PROVE  Migration' /\ Alone(w) /\ Retains(w)
<1> DEFINE m == [kind |-> "Interrogate"]
<1>1. /\ w \in Workers /\ alive \subseteq Workers /\ out \in [Workers -> Seq(OperatorMessage)]
      /\ out[w] \in Seq(OperatorMessage) /\ round \in Nat /\ Top \in Nat /\ Top # NoVersion
      /\ alive = Members /\ (round > 0 => Members = Scales[round])
  BY Owners DEF TypeOK, LinkTypeOK, NoVersion, Members
<1>2. m \in OperatorMessage /\ m.kind = "Interrogate" /\ \A key : ~IsData(m, key) /\ ~IsState(m, key)
  BY MessageTypes DEF IsData, IsState
<1> HIDE DEF m
<1>3. Untold(w) /\ mode[w] = "Normal" /\ round > 0
  <2>1. Untold(w)
    BY DEF LocalRescale, Untold
  <2>2. delivered[w] \in Nat /\ delivered[w] < round
    BY <1>1, ScalesType DEF LocalRescale, TypeOK, EnvTypeOK
  <2> QED BY <1>1, <2>1, <2>2, Standing
<1>4. /\ UNCHANGED <<version, collecting, collected, buffered, opState, chan, alive, round>>
      /\ remotes' = [remotes EXCEPT ![w] = @ \cup (Scales[round] \ {w})]
      /\ lastVersion' = Fresh(w, lastVersion, NoVersion)
      /\ delivered' = [delivered EXCEPT ![w] = round]
      /\ mode' = [mode EXCEPT ![w] = "Interrogate"]
      /\ oldSet' = [oldSet EXCEPT ![w] = newSet[w]] /\ newSet' = [newSet EXCEPT ![w] = Scales[round]]
      /\ whitelist' = [whitelist EXCEPT ![w] = {}]
      /\ out' = [out EXCEPT ![w] = Append(@, m)]
  BY <1>3 DEF LocalRescale, opVars, m
<1>5. /\ UNCHANGED <<Former, Members, OldOwner, NewOwner, Top, Base>>
      /\ \A u, k : (MovesAway(u, k)' <=> MovesAway(u, k)) /\ (MovesTo(u, k)' <=> MovesTo(u, k))
  BY <1>4, SameRound
<1>6. /\ delivered'[w] = round /\ mode'[w] = "Interrogate" /\ oldSet'[w] = newSet[w] /\ newSet'[w] = Members
      /\ whitelist'[w] = {} /\ out'[w] = Append(out[w], m)
      /\ \A u \in Workers \ {w} :
           /\ remotes'[u] = remotes[u] /\ delivered'[u] = delivered[u] /\ mode'[u] = mode[u]
           /\ oldSet'[u] = oldSet[u] /\ newSet'[u] = newSet[u] /\ whitelist'[u] = whitelist[u]
           /\ out'[u] = out[u]
  BY <1>1, <1>3, <1>4, SMTT(30) DEF TypeOK, RouterTypeOK, PeerTypeOK, EnvTypeOK
<1>7. /\ \A u \in Workers \ {w} : lastVersion'[u] = lastVersion[u]
      /\ \A x \in Workers : lastVersion'[w][x] = lastVersion[w][x] \/ lastVersion'[w][x] = NoVersion
  <2> DEFINE row == [r \in Workers |-> IF r \in Scales[round] \ remotes[w] THEN NoVersion ELSE lastVersion[w][r]]
  <2>1. lastVersion' = [lastVersion EXCEPT ![w] = row]
    BY <1>4 DEF Fresh
  <2>2. \A x \in Workers : row[x] = lastVersion[w][x] \/ row[x] = NoVersion
    OBVIOUS
  <2> HIDE DEF row
  <2> QED BY <1>1, <2>1, <2>2 DEF TypeOK, PeerTypeOK
<1>8. Alone(w)
  BY <1>4, <1>6, <1>7 DEF Alone
<1>9. WorkerOK(w) /\ QueueOK(w)
  BY DEF Migration
<1>10. ~Untold(w)'
  BY <1>1, <1>4, <1>6 DEF Untold
<1>11. Advances(w)
  BY <1>3 DEF Advances, Given, Done
<1>12. /\ \A kind : HasKind(Append(out[w], m), kind) <=> HasKind(out[w], kind) \/ m.kind = kind
       /\ \A key : HasData(Append(out[w], m), key) <=> HasData(out[w], key)
       /\ \A key : HasState(Append(out[w], m), key) <=> HasState(out[w], key)
       /\ \A key : ~Loose(Append(out[w], m), key)
       /\ \A key : StateFirst(out[w], key) => StateFirst(Append(out[w], m), key)
       /\ \A key, i : HasUpdate(out[w], key, i) => HasUpdate(Append(out[w], m), key, i)
  <2>1. /\ \A kind : HasKind(Append(out[w], m), kind) <=> HasKind(out[w], kind) \/ m.kind = kind
        /\ \A key : HasData(Append(out[w], m), key) <=> HasData(out[w], key)
        /\ \A key : HasState(Append(out[w], m), key) <=> HasState(out[w], key)
    BY <1>1, <1>2, AddedHas
  <2>2. \A key, i : HasUpdate(out[w], key, i) => HasUpdate(Append(out[w], m), key, i)
    BY <1>1, <1>2, AddedHas
  <2>3. \A key : /\ ~Loose(Append(out[w], m), key)
                 /\ StateFirst(out[w], key) => StateFirst(Append(out[w], m), key)
    BY <1>1, <1>2, AddedOrder
  <2> QED BY <2>1, <2>2, <2>3
<1>13. WorkerOK(w)'
  <2>1. Config(w)'
    BY <1>3, <1>4, <1>5, <1>6, <1>9, <1>10 DEF WorkerOK, Config
  <2>2. Closing(w)'
    BY <1>6 DEF Closing
  <2>3. collecting[w] = NoKey /\ buffered[w] = <<>>
    BY <1>1, <1>3 DEF Cluster, CollectsForOthers
  <2>4. KeysToCollect(w)'
    BY <1>4, <1>6, <2>3, NoKeyAssumption DEF KeysToCollect
  <2>5. ~HasKind(out'[w], "Collect")
    BY <1>2, <1>3, <1>6, <1>9, <1>12 DEF WorkerOK, Collects
  <2>6. Collects(w)'
    BY <2>5, NothingThere DEF Collects
  <2>7. Interrogates(w)'
    BY <1>2, <1>6, <1>12 DEF Interrogates
  <2> QED BY <2>1, <2>2, <2>4, <2>6, <2>7 DEF WorkerOK
<1>14. \A key \in Keys : OldOwner[key] = w => Holds(key)'
  BY <1>5, <1>6 DEF Holds
<1>15. \A key \in Keys : (Given(key) => Given(key)') /\ (Serves(w, key) => Serves(w, key)')
  BY <1>5, <1>8, <1>11, <1>14, OthersAdvance DEF Serves
<1>16. QueueOK(w)'
  BY <1>4, <1>5, <1>6, <1>9, <1>12, <1>15 DEF QueueOK
<1>17. \A key \in Keys : Vacant(w, key) => Vacant(w, key)'
  BY <1>4, <1>6, <1>12 DEF Vacant
<1>18. ASSUME NEW x \in alive \ {w} PROVE LinkOK(x, w)' /\ LinkOK(w, x)'
  <2>1. LinkOK(x, w) /\ version[w] <= version'[w] /\ (lastVersion'[w][x] = Top => lastVersion[w][x] = Top)
    BY <1>1, <1>4, <1>7 DEF Migration, TypeOK, RouterTypeOK
  <2>2. \A key \in Keys : HasState(chan'[<<x, w>>], key) => Vacant(w, key)'
    BY <1>4, <1>17, <2>1 DEF LinkOK
  <2>3. LinkOK(x, w)'
    BY <1>4, <1>8, <1>11, <2>1, <2>2, InLink
  <2>4. LinkOK(w, x)'
    BY <1>4, <1>8, <1>11, OutLink
  <2> QED BY <2>3, <2>4
<1>19. Migration'
  BY <1>8, <1>11, <1>13, <1>16, <1>18, StepFrame
<1>20. Retains(w)
  BY <1>4, <1>6, <1>12 DEF Retains, Seen
<1> QED BY <1>8, <1>19, <1>20

----------------------------------------------------------------------------
\* The tail.

\* The interrogation ends: what is there of a key that moves is in the whitelist.
LEMMA InterrogateMigration ==
  ASSUME OnlyJoins, TypeOK, TypeOK', RescaleCore, Cluster, Migration, NEW w \in alive,
         InterrogateLifecycle(w), UNCHANGED <<opState, alive, round, delivered>>
  PROVE  Migration' /\ Alone(w) /\ Retains(w)
<1>1. /\ w \in Workers /\ alive \subseteq Workers /\ out \in [Workers -> Seq(OperatorMessage)]
      /\ out[w] \in Seq(OperatorMessage) /\ round \in Nat /\ Top \in Nat
      /\ trigger[w] \in Nat /\ version[w] \in Nat
  BY Owners DEF TypeOK, LinkTypeOK, RouterTypeOK
<1>2. mode[w] = "Interrogate" /\ ~HasKind(out[w], "Interrogate")
  BY DEF InterrogateLifecycle, Pending, HasKind
<1>3. ~Untold(w) /\ round > 0 /\ delivered[w] = round /\ version[w] <= Top
  BY <1>2, Standing
<1>4. trigger[w] = Top
  <2>1. RoundOf(trigger[w]) = round
    BY <1>1, <1>2, <1>3 DEF RescaleCore, VersionIsRound
  <2> QED BY <1>1, <1>3, <2>1, DistributorAssumption DEF RoundOf, Top
<1>5. /\ mode' = [mode EXCEPT ![w] = "Collect"] /\ version' = [version EXCEPT ![w] = trigger[w]]
      /\ collecting' = [collecting EXCEPT ![w] = NoKey] /\ buffered' = [buffered EXCEPT ![w] = <<>>]
      /\ collected' = [collected EXCEPT ![w] = {}] /\ out' = [out EXCEPT ![w] = @ \o MarkerOut(w)]
      /\ UNCHANGED <<oldSet, newSet, whitelist, remotes, lastVersion, chan>>
  BY DEF InterrogateLifecycle, peerVars
<1>6. Alike(out[w] \o MarkerOut(w), out[w])
  BY <1>1, AlikeMarkers
<1>7. /\ mode'[w] = "Collect" /\ version'[w] = Top /\ collecting'[w] = NoKey /\ buffered'[w] = <<>>
      /\ Alike(out'[w], out[w])
      /\ \A u \in Workers \ {w} :
           /\ mode'[u] = mode[u] /\ version'[u] = version[u] /\ collecting'[u] = collecting[u]
           /\ buffered'[u] = buffered[u] /\ collected'[u] = collected[u] /\ out'[u] = out[u]
  BY <1>1, <1>4, <1>5, <1>6 DEF TypeOK, RouterTypeOK
<1>8. Alone(w)
  BY <1>5, <1>7 DEF Alone
<1>9. /\ UNCHANGED <<Former, Members, OldOwner, NewOwner, Top, Base, round>>
      /\ \A u, k : (MovesAway(u, k)' <=> MovesAway(u, k)) /\ (MovesTo(u, k)' <=> MovesTo(u, k))
      /\ (Untold(w)' <=> Untold(w))
  BY SameRound DEF Untold
<1>10. WorkerOK(w) /\ QueueOK(w)
  BY DEF Migration
<1>11. Advances(w)
  BY <1>2 DEF Advances, Given, Done
<1>12. collecting[w] = NoKey
  BY <1>1, <1>2 DEF Cluster, CollectsForOthers
<1>13. WorkerOK(w)'
  <2>1. Config(w)'
    BY <1>2, <1>3, <1>5, <1>7, <1>9, <1>10 DEF WorkerOK, Config
  <2>2. Closing(w)'
    BY <1>7 DEF Closing
  <2>3. KeysToCollect(w)'
    BY <1>5, <1>7, <1>9, <1>10, NoKeyAssumption DEF WorkerOK, KeysToCollect
  <2>4. ~HasKind(out'[w], "Collect") /\ ~HasKind(out'[w], "Interrogate")
    BY <1>2, <1>7, <1>10 DEF WorkerOK, Collects, Alike
  <2>5. Collects(w)'
    BY <2>4, NothingThere DEF Collects
  <2>6. Interrogates(w)'
    BY <1>7, <2>4 DEF Interrogates
  <2> QED BY <2>1, <2>2, <2>3, <2>5, <2>6 DEF WorkerOK
<1>14. \A key \in Keys : Given(key) => Given(key)'
  BY <1>8, <1>11, OthersAdvance
<1>15. ASSUME NEW key \in Keys, HasData(out[w], key) \/ opState[w][key] # {} PROVE Serves(w, key)'
  <2>1. Serves(w, key)
    BY <1>10, <1>15 DEF QueueOK
  <2>2. CASE OldOwner[key] = w /\ NewOwner[key] # w
    <3>1. MovesAway(w, key)
      BY <2>2 DEF MovesAway
    <3>2. HasData(out[w], key) => Loose(out[w], key)
      BY <1>2, NothingThere
    <3>3. key \in whitelist'[w]
      BY <1>2, <1>5, <1>10, <1>15, <3>1, <3>2 DEF WorkerOK, Interrogates
    <3> QED BY <1>7, <1>9, <2>2, <3>3 DEF Serves, Holds
  <2>3. CASE OldOwner[key] = w /\ NewOwner[key] = w
    BY <1>9, <2>3 DEF Serves
  <2>4. CASE OldOwner[key] # w
    BY <1>9, <1>14, <2>1, <2>4 DEF Serves
  <2> QED BY <2>2, <2>3, <2>4
<1>16. QueueOK(w)'
  <2>1. \A key \in Keys : HasData(out'[w], key) \/ opState'[w][key] # {} => Serves(w, key)'
    BY <1>7, <1>15 DEF Alike
  <2> QED BY <1>7, <1>9, <1>10, <1>14, <2>1 DEF QueueOK, Alike
<1>17. \A key \in Keys : Vacant(w, key) => Vacant(w, key)'
  BY <1>7 DEF Vacant, Alike
<1>18. ASSUME NEW x \in alive \ {w} PROVE LinkOK(x, w)' /\ LinkOK(w, x)'
  <2>1. LinkOK(x, w) /\ version[w] <= version'[w]
    BY <1>3, <1>7 DEF Migration
  <2>2. \A key \in Keys : HasState(chan'[<<x, w>>], key) => Vacant(w, key)'
    BY <1>5, <1>17, <2>1 DEF LinkOK
  <2>3. LinkOK(x, w)'
    BY <1>5, <1>8, <1>11, <2>1, <2>2, InLink
  <2>4. LinkOK(w, x)'
    BY <1>5, <1>8, <1>11, OutLink
  <2> QED BY <2>3, <2>4
<1>19. Migration'
  BY <1>8, <1>11, <1>13, <1>16, <1>18, StepFrame
<1>20. Retains(w)
  BY <1>5, <1>7, <1>12, NoKeyAssumption DEF Retains, Seen, Alike
<1> QED BY <1>8, <1>19, <1>20

\* The reconfiguration ends for w: no more state comes.
LEMMA FinishedMigration ==
  ASSUME OnlyJoins, TypeOK, TypeOK', RescaleCore, Cluster, Migration, NEW w \in alive,
         FinishedLifecycle(w), UNCHANGED <<opState, alive, round, delivered>>
  PROVE  Migration' /\ Alone(w) /\ Retains(w)
<1> DEFINE m == [kind |-> "Rescale"]
           p == out[w] \o MarkerOut(w)
<1>1. /\ w \in Workers /\ alive \subseteq Workers /\ out \in [Workers -> Seq(OperatorMessage)]
      /\ out[w] \in Seq(OperatorMessage) /\ remotes \in [Workers -> SUBSET Workers]
      /\ oldSet[w] \subseteq newSet[w] /\ remotes[w] \subseteq alive \ {w}
      /\ m \in OperatorMessage /\ m.kind = "Rescale" /\ \A key : ~IsData(m, key) /\ ~IsState(m, key)
  BY Owners, ClusterFacts, MessageTypes DEF TypeOK, LinkTypeOK, PeerTypeOK, IsData, IsState, Cluster, Connected
<1> HIDE DEF m
<1>2. mode[w] = "Finished" /\ \A r \in remotes[w] : lastVersion[w][r] = version[w]
  BY DEF FinishedLifecycle, Upgraded
<1>3. ~Untold(w) /\ round > 0 /\ version[w] = Top
  BY <1>2, Standing
<1>4. /\ remotes' = [remotes EXCEPT ![w] = @ \ (oldSet[w] \ newSet[w])]
      /\ mode' = [mode EXCEPT ![w] = "Normal"] /\ oldSet' = [oldSet EXCEPT ![w] = newSet[w]]
      /\ out' = [out EXCEPT ![w] = @ \o MarkerOut(w) \o <<m>>]
      /\ UNCHANGED <<version, newSet, whitelist, collecting, collected, buffered, lastVersion, chan>>
  BY DEF FinishedLifecycle, m
<1>5. Alike(p, out[w]) /\ p \in Seq(OperatorMessage)
  BY <1>1, AlikeMarkers
<1>6. remotes' = remotes
  <2>1. remotes[w] \ (oldSet[w] \ newSet[w]) = remotes[w]
    BY <1>1
  <2> QED BY <1>1, <1>4, <2>1
<1>7. /\ mode'[w] = "Normal" /\ oldSet'[w] = newSet[w] /\ out'[w] = p \o <<m>>
      /\ \A u \in Workers \ {w} : mode'[u] = mode[u] /\ oldSet'[u] = oldSet[u] /\ out'[u] = out[u]
  BY <1>1, <1>4 DEF TypeOK, RouterTypeOK
<1>8. Alone(w)
  BY <1>4, <1>6, <1>7 DEF Alone
<1> HIDE DEF p
<1>9. /\ \A kind \in {"Collect", "Interrogate"} : HasKind(out'[w], kind) <=> HasKind(out[w], kind)
      /\ \A key : HasData(out'[w], key) <=> HasData(out[w], key)
      /\ \A key : HasState(out'[w], key) <=> HasState(out[w], key)
      /\ \A key : StateFirst(out[w], key) => StateFirst(out'[w], key)
      /\ ~Open(out'[w])
      /\ \A key, i : HasUpdate(out[w], key, i) => HasUpdate(out'[w], key, i)
  <2>1. out'[w] = Append(p, m)
    BY <1>1, <1>5, <1>7, OneMore
  <2>2. /\ \A kind : HasKind(Append(p, m), kind) <=> HasKind(p, kind) \/ m.kind = kind
        /\ \A key : HasData(Append(p, m), key) <=> HasData(p, key)
        /\ \A key : HasState(Append(p, m), key) <=> HasState(p, key)
    BY <1>1, <1>5, AddedHas
  <2>3. \A key, i : HasUpdate(p, key, i) => HasUpdate(Append(p, m), key, i)
    BY <1>1, <1>5, AddedHas
  <2>4. ~Open(Append(p, m)) /\ \A key : StateFirst(p, key) => StateFirst(Append(p, m), key)
    BY <1>1, <1>5, AddedOrder
  <2> QED BY <1>1, <1>5, <2>1, <2>2, <2>3, <2>4 DEF Alike
<1>10. /\ UNCHANGED <<Former, Members, OldOwner, NewOwner, Top, Base, round>>
       /\ \A u, k : (MovesAway(u, k)' <=> MovesAway(u, k)) /\ (MovesTo(u, k)' <=> MovesTo(u, k))
       /\ (Untold(w)' <=> Untold(w))
  BY SameRound DEF Untold
<1>11. WorkerOK(w) /\ QueueOK(w)
  BY DEF Migration
<1>12. Advances(w)
  BY <1>2, <1>3, <1>7, <1>10 DEF Advances, Given, Done
<1>13. WorkerOK(w)'
  <2>1. Config(w)'
    BY <1>2, <1>3, <1>4, <1>7, <1>10, <1>11 DEF WorkerOK, Config
  <2>2. Closing(w)'
    BY <1>2, <1>3, <1>4, <1>6, <1>9, <1>10 DEF Closing
  <2>3. whitelist[w] = {}
    BY <1>2, <1>11 DEF WorkerOK, KeysToCollect
  <2>4. KeysToCollect(w)'
    BY <1>4, <1>10, <1>11, <2>3 DEF WorkerOK, KeysToCollect
  <2>5. ~HasKind(out'[w], "Collect") /\ ~HasKind(out'[w], "Interrogate")
    BY <1>2, <1>9, <1>11 DEF WorkerOK, Collects, Interrogates
  <2>6. Collects(w)'
    BY <2>5, NothingThere DEF Collects
  <2>7. Interrogates(w)'
    BY <1>7, <2>5 DEF Interrogates
  <2> QED BY <2>1, <2>2, <2>4, <2>6, <2>7 DEF WorkerOK
<1>14. \A key \in Keys : (Given(key) => Given(key)') /\ (Serves(w, key) => Serves(w, key)')
  <2>1. \A key \in Keys : Given(key) => Given(key)'
    BY <1>8, <1>12, OthersAdvance
  <2>2. \A key \in Keys : OldOwner[key] = w => ~Holds(key)
    BY <1>2, <1>3 DEF Holds
  <2> QED BY <1>10, <2>1, <2>2 DEF Serves
<1>15. QueueOK(w)'
  BY <1>9, <1>10, <1>11, <1>14 DEF QueueOK
<1>16. \A key \in Keys : Vacant(w, key) => Vacant(w, key)'
  BY <1>9 DEF Vacant
<1>17. ASSUME NEW x \in alive \ {w} PROVE LinkOK(x, w)' /\ LinkOK(w, x)'
  <2>1. LinkOK(x, w) /\ version[w] <= version'[w]
    BY <1>1, <1>4 DEF Migration, TypeOK, RouterTypeOK
  <2>2. \A key \in Keys : HasState(chan'[<<x, w>>], key) => Vacant(w, key)'
    BY <1>4, <1>16, <2>1 DEF LinkOK
  <2>3. LinkOK(x, w)'
    BY <1>4, <1>8, <1>12, <2>1, <2>2, InLink
  <2>4. LinkOK(w, x)'
    BY <1>4, <1>8, <1>12, OutLink
  <2> QED BY <2>3, <2>4
<1>18. Migration'
  BY <1>8, <1>12, <1>13, <1>15, <1>17, StepFrame
<1>19. Retains(w)
  BY <1>4, <1>9 DEF Retains, Seen
<1> QED BY <1>8, <1>18, <1>19

\* What the links from w hold after the collected state and the buffered data
\* were sent.
Flushed(w, u, c) ==
  /\ ~HasKind(c[<<w, u>>], "Upgrade") /\ UpTo(c[<<w, u>>], Top) /\ (u \in Former => UpTo(c[<<w, u>>], version[u]))
  /\ \A key \in Keys :
       /\ HasData(c[<<w, u>>], key) =>
            MayCarry(w, u, key) \/ (collecting[w] = key /\ OldOwner[key] = w /\ MovesTo(u, key))
       /\ HasState(c[<<w, u>>], key) =>
            /\ OldOwner[key] = w /\ MovesTo(u, key) /\ Vacant(u, key)
            /\ Given(key) \/ collecting[w] = key
       /\ StateFirst(c[<<w, u>>], key)
       /\ \A i : HasUpdate(chan[<<w, u>>], key, i) => HasUpdate(c[<<w, u>>], key, i)

LEMMA FlushedLink ==
  ASSUME OnlyJoins, TypeOK, RescaleCore, Cluster, Migration, NEW w \in alive, mode[w] = "Collect"
  PROVE  /\ FlushCollected(w) \in [Links -> Seq(NetworkMessage)]
         /\ \A r, u \in Workers : r # w \/ u \notin alive \ {w} => FlushCollected(w)[<<r, u>>] = chan[<<r, u>>]
         /\ \A u \in alive \ {w} : Flushed(w, u, FlushCollected(w))
         /\ \A key \in Keys : \A i : collecting[w] = key /\ i \in collected[w] =>
              \E u \in alive \ {w} : HasUpdate(FlushCollected(w)[<<w, u>>], key, i)
<1> DEFINE F == FlushCollected(w)
           k == collecting[w]
<1>1. /\ w \in Workers /\ alive \subseteq Workers /\ chan \in [Links -> Seq(NetworkMessage)]
      /\ version[w] = Top /\ Top \in Nat /\ ~Untold(w) /\ buffered[w] \in Seq(DataMessage)
      /\ collected[w] \in SUBSET Ids /\ k \in Keys \cup {NoKey}
  BY Owners, Standing DEF TypeOK, LinkTypeOK, RouterTypeOK
<1>2. ASSUME NEW u \in alive \ {w} PROVE Flushed(w, u, chan)
  <2>1. ~HasKind(chan[<<w, u>>], "Upgrade") /\ LinkOK(w, u)
    BY NothingAnnounced DEF Migration
  <2> QED BY <2>1 DEF Flushed, LinkOK
<1>3. CASE k = NoKey
  <2>1. F = chan
    BY <1>3 DEF FlushCollected
  <2> QED BY <1>1, <1>2, <1>3, <2>1, NoKeyAssumption
<1>4. CASE k # NoKey
  <2> DEFINE t == NewTarget(w, k)
             acquire == [kind |-> "Acquire", key |-> k, state |-> collected[w]]
             data == [n \in DOMAIN buffered[w] |->
                        [kind |-> "Data", data |-> buffered[w][n], version |-> version[w]]]
             q == chan[<<w, t>>]
  <2>1. k \in Keys /\ MovesAway(w, k) /\ \A n \in DOMAIN buffered[w] : buffered[w][n].key = k
    BY <1>1, <1>4 DEF Migration, WorkerOK, KeysToCollect
  <2>2. OldOwner[k] = w /\ t = NewOwner[k] /\ t \in alive \ {w} /\ t \notin Former /\ MovesTo(t, k)
    <3>1. OldOwner[k] = w /\ NewOwner[k] # w /\ w \in Former /\ NewOwner[k] \in alive /\ NewOwner[k] \notin Former
      BY <2>1, Owners DEF MovesAway
    <3>2. t = NewOwner[k]
      BY <2>1, <3>1, Standing
    <3> QED BY <3>1, <3>2 DEF MovesTo
  <2>3. ~Given(k)
    BY <2>2 DEF Given
  <2>4. acquire \in NetworkMessage /\ acquire.kind = "Acquire"
        /\ (\A key : (IsState(acquire, key) <=> key = k) /\ ~IsData(acquire, key)) /\ acquire.state = collected[w]
    BY <1>1, <2>1, MessageTypes DEF IsState, IsData
  <2>5. /\ data \in Seq(NetworkMessage)
        /\ OnlyData(data, k, Top)
    <3>1. DOMAIN buffered[w] = 1..Len(buffered[w]) /\ Len(buffered[w]) \in Nat
      BY <1>1, LenProperties
    <3>2. \A n \in 1..Len(buffered[w]) : buffered[w][n] \in DataMessage
      BY <1>1, ElementOfSeq
    <3>3. \A n \in 1..Len(buffered[w]) :
            [kind |-> "Data", data |-> buffered[w][n], version |-> version[w]] \in NetworkMessage
      BY <1>1, <3>2, MessageTypes
    <3>4. /\ data \in [1..Len(buffered[w]) -> NetworkMessage] /\ DOMAIN data = DOMAIN buffered[w]
          /\ \A n \in DOMAIN buffered[w] :
               data[n].kind = "Data" /\ data[n].data = buffered[w][n] /\ data[n].version = version[w]
      BY <3>1, <3>3
    <3> HIDE DEF data
    <3>5. data \in Seq(NetworkMessage)
      BY <3>1, <3>4, SeqDef
    <3> QED BY <1>1, <2>1, <3>4, <3>5 DEF OnlyData
  <2>6. F = [chan EXCEPT ![<<w, t>>] = @ \o <<acquire>> \o data] /\ <<w, t>> \in Links
    BY <1>1, <1>4, <2>2 DEF FlushCollected, Links
  <2> HIDE DEF acquire, data, F, t
  <2> DEFINE p == Append(q, acquire)
             g == p \o data
  <2>7. q \in Seq(NetworkMessage) /\ q \o <<acquire>> = p /\ p \in Seq(NetworkMessage)
    BY <1>1, <2>4, <2>6, OneMore, AddedHas
  <2>8. /\ F \in [Links -> Seq(NetworkMessage)] /\ F[<<w, t>>] = g
        /\ \A r, u \in Workers : <<r, u>> # <<w, t>> => F[<<r, u>>] = chan[<<r, u>>]
    <3>1. g \in Seq(NetworkMessage)
      BY <2>5, <2>7, SeqFacts
    <3>2. F = [chan EXCEPT ![<<w, t>>] = g]
      BY <2>6, <2>7
    <3> HIDE DEF g
    <3> QED BY <1>1, <2>6, <3>1, <3>2 DEF Links
  <2> HIDE DEF p, g, k, q
  <2>a. /\ \A kind : kind # "Data" => (HasKind(g, kind) <=> HasKind(p, kind))
        /\ \A key : HasData(g, key) => HasData(p, key) \/ key = k
        /\ \A key : HasState(g, key) <=> HasState(p, key)
        /\ \A key, i : HasUpdate(g, key, i) <=> HasUpdate(p, key, i)
        /\ \A key : StateFirst(p, key) => StateFirst(g, key)
        /\ UpTo(p, Top) => UpTo(g, Top)
    <3>1. p \in Seq(NetworkMessage) /\ data \in Seq(NetworkMessage) /\ OnlyData(data, k, Top) /\ Top \in Nat /\ Top <= Top
      BY <1>1, <2>5, <2>7
    <3> HIDE DEF Top
    <3>2. /\ \A kind : kind # "Data" => (HasKind(p \o data, kind) <=> HasKind(p, kind))
          /\ \A key : HasData(p \o data, key) => HasData(p, key) \/ key = k
          /\ \A key : HasState(p \o data, key) <=> HasState(p, key)
      BY <3>1, JoinedData
    <3>3. /\ \A key, i : HasUpdate(p \o data, key, i) <=> HasUpdate(p, key, i)
          /\ \A key : StateFirst(p, key) => StateFirst(p \o data, key)
          /\ UpTo(p, Top) => UpTo(p \o data, Top)
      BY <3>1, JoinedData
    <3> QED BY <3>2, <3>3 DEF g
  <2>9. /\ \A key : HasData(g, key) => HasData(q, key) \/ key = k
        /\ \A key : HasState(g, key) <=> HasState(q, key) \/ key = k
        /\ HasKind(g, "Upgrade") => HasKind(q, "Upgrade")
        /\ \A key, i : HasUpdate(g, key, i) <=> HasUpdate(q, key, i) \/ (key = k /\ i \in collected[w])
    <3>1. /\ \A key : HasData(p, key) <=> HasData(q, key)
          /\ \A key : HasState(p, key) <=> HasState(q, key) \/ key = k
          /\ HasKind(p, "Upgrade") <=> HasKind(q, "Upgrade")
      BY <2>4, <2>7, AddedHas DEF p
    <3>2. \A key, i : HasUpdate(p, key, i) <=> HasUpdate(q, key, i) \/ (key = k /\ i \in collected[w])
      BY <2>4, <2>7, AddedHas DEF p
    <3> QED BY <2>a, <3>1, <3>2
  <2>10. Flushed(w, t, chan) /\ LinkOK(w, t) /\ QueueOK(t) /\ q = chan[<<w, t>>]
    BY <1>2, <2>2 DEF Migration, q
  <2>11. ~HasData(q, k) /\ ~HasState(q, k) /\ Vacant(t, k)
    <3>1. ~MayCarry(w, t, k) /\ ~Serves(t, k)
      BY <2>2, <2>3 DEF MayCarry, Serves
    <3> QED BY <2>1, <2>3, <2>10, <3>1 DEF LinkOK, QueueOK, Vacant
  <2>12. \A key \in Keys : StateFirst(g, key)
    <3>1. \A key \in Keys : StateFirst(q, key)
      BY <2>10 DEF LinkOK
    <3>2. \A key \in Keys : StateFirst(p, key)
      BY <2>4, <2>7, <2>11, <3>1, AddedOrder DEF p
    <3> QED BY <2>a, <3>2
  <2>13. UpTo(g, Top)
    <3>1. UpTo(p, Top)
      BY <2>4, <2>7, <2>10, AddedLink DEF Flushed, p
    <3> QED BY <2>a, <3>1
  <2>14. Flushed(w, t, F)
    <3>1. ASSUME NEW key \in Keys
          PROVE  /\ HasData(g, key) => MayCarry(w, t, key) \/ (k = key /\ OldOwner[key] = w /\ MovesTo(t, key))
                 /\ HasState(g, key) => /\ OldOwner[key] = w /\ MovesTo(t, key) /\ Vacant(t, key)
                                        /\ Given(key) \/ k = key
                 /\ \A i : HasUpdate(q, key, i) => HasUpdate(g, key, i)
      <4>1. HasData(q, key) => MayCarry(w, t, key)
        BY <2>10 DEF LinkOK
      <4>2. HasState(q, key) => OldOwner[key] = w /\ MovesTo(t, key) /\ Vacant(t, key) /\ Given(key)
        BY <2>10 DEF LinkOK
      <4> QED BY <2>2, <2>9, <2>11, <4>1, <4>2
    <3>2. ~HasKind(g, "Upgrade")
      BY <2>9, <2>10 DEF Flushed
    <3> QED BY <2>2, <2>8, <2>12, <2>13, <3>1, <3>2 DEF Flushed, k, q
  <2>15. ASSUME NEW u \in alive \ {w} PROVE Flushed(w, u, F)
    <3>1. CASE u = t
      BY <2>14, <3>1
    <3>2. CASE u # t
      <4>1. F[<<w, u>>] = chan[<<w, u>>]
        BY <1>1, <2>2, <2>8, <3>2
      <4> QED BY <1>2, <4>1 DEF Flushed
    <3> QED BY <3>1, <3>2
  <2>16. \A r, u \in Workers : r # w \/ u \notin alive \ {w} => F[<<r, u>>] = chan[<<r, u>>]
    BY <2>2, <2>8
  <2>17. \A i : i \in collected[w] => HasUpdate(F[<<w, t>>], k, i)
    BY <2>8, <2>9
  <2> QED BY <2>2, <2>8, <2>15, <2>16, <2>17 DEF F, k
<1> QED BY <1>1, <1>3, <1>4

\* The state and the data of the collected key are sent, perhaps an Upgrade
\* behind them.
LEMMA FlushedOK ==
  ASSUME OnlyJoins, TypeOK, RescaleCore, Cluster, Migration, NEW w \in alive, NEW u \in alive \ {w}, mode[w] = "Collect",
         Alone(w), Advances(w), NEW q \in Seq(NetworkMessage), q = FlushCollected(w)[<<w, u>>],
         \/ chan'[<<w, u>>] = q
         \/ chan'[<<w, u>>] = Append(q, [kind |-> "Upgrade", version |-> version[w]]),
         \A key \in Keys : collecting[w] = key => Given(key)'
  PROVE  LinkOK(w, u)' /\ \A key \in Keys : \A i : HasUpdate(q, key, i) => HasUpdate(chan'[<<w, u>>], key, i)
<1> DEFINE m == [kind |-> "Upgrade", version |-> version[w]]
           p == chan'[<<w, u>>]
<1>1. /\ w \in Workers /\ u \in Workers /\ version[w] = Top /\ Top \in Nat
      /\ UNCHANGED <<Former, OldOwner, NewOwner, Top, round>>
      /\ \A x, key : (MovesAway(x, key)' <=> MovesAway(x, key)) /\ (MovesTo(x, key)' <=> MovesTo(x, key))
      /\ (mode[w] # "Normal" => ~Untold(w))
  BY Owners, SameRound, Standing DEF Alone
<1>2. m \in NetworkMessage /\ m.kind = "Upgrade" /\ m.version = Top /\ \A key : ~IsData(m, key) /\ ~IsState(m, key)
  BY <1>1, MessageTypes DEF IsData, IsState
<1>3. p = q \/ p = Append(q, m)
  OBVIOUS
<1> HIDE DEF m, p
<1>4. /\ ~HasKind(q, "Upgrade") /\ UpTo(q, Top) /\ (u \in Former => UpTo(q, version[u]))
      /\ \A key \in Keys :
           /\ HasData(q, key) => MayCarry(w, u, key) \/ (collecting[w] = key /\ OldOwner[key] = w /\ MovesTo(u, key))
           /\ HasState(q, key) => /\ OldOwner[key] = w /\ MovesTo(u, key) /\ Vacant(u, key)
                                  /\ Given(key) \/ collecting[w] = key
           /\ StateFirst(q, key)
  BY FlushedLink DEF Flushed
<1>5. \A key \in Keys : /\ HasData(p, key) <=> HasData(q, key)
                        /\ HasState(p, key) <=> HasState(q, key)
                        /\ \A i : HasUpdate(q, key, i) => HasUpdate(p, key, i)
  <2>1. \A key : /\ HasData(Append(q, m), key) <=> HasData(q, key)
                 /\ HasState(Append(q, m), key) <=> HasState(q, key)
    BY <1>2, AddedHas
  <2>2. \A key, i : HasUpdate(q, key, i) => HasUpdate(Append(q, m), key, i)
    BY <1>2, AddedHas
  <2> QED BY <1>3, <2>1, <2>2
<1>6. \A key \in Keys : StateFirst(p, key)
  <2>1. \A key \in Keys : StateFirst(Append(q, m), key)
    BY <1>2, <1>4, AddedOrder
  <2> QED BY <1>3, <1>4, <2>1
<1>7. UpTo(p, Top) /\ (u \in Former => UpTo(p, version[u])) /\ Closed(p, u, NewOwner, Top)
  <2>1. Closed(q, u, NewOwner, Top)
    BY <1>4, NothingThere
  <2>2. UpTo(Append(q, m), Top) /\ Closed(Append(q, m), u, NewOwner, Top)
    BY <1>2, <1>4, <2>1, AddedLink
  <2>3. u \in Former => UpTo(Append(q, m), version[u])
    BY <1>2, <1>4, AddedLink
  <2> QED BY <1>3, <1>4, <2>1, <2>2, <2>3
<1>8. lastVersion[u][w] # Top /\ round > 0
  BY NothingAnnounced
<1>9. /\ lastVersion'[u] = lastVersion[u] /\ out'[u] = out[u] /\ opState'[u] = opState[u] /\ version'[u] = version[u]
  BY <1>1 DEF Alone
<1>10. /\ \A key \in Keys : Given(key) => Given(key)'
       /\ \A key \in Keys : MayCarry(w, u, key) => MayCarry(w, u, key)'
  BY OthersAdvance
<1>11. \A key \in Keys : /\ HasData(p, key) => MayCarry(w, u, key)'
                         /\ HasState(p, key) => /\ OldOwner'[key] = w /\ MovesTo(u, key)' /\ Given(key)'
                                                /\ Vacant(u, key)'
  <2> SUFFICES ASSUME NEW key \in Keys
               PROVE  /\ HasData(q, key) => MayCarry(w, u, key)'
                      /\ HasState(q, key) => /\ OldOwner'[key] = w /\ MovesTo(u, key)' /\ Given(key)'
                                             /\ Vacant(u, key)'
    BY <1>5
  <2>1. collecting[w] = key /\ OldOwner[key] = w /\ MovesTo(u, key) => MayCarry(w, u, key)'
    BY <1>1 DEF MayCarry
  <2>2. HasData(q, key) => MayCarry(w, u, key)'
    BY <1>4, <1>10, <2>1
  <2>3. Vacant(u, key) => Vacant(u, key)'
    BY <1>9 DEF Vacant
  <2> QED BY <1>1, <1>4, <1>10, <2>2, <2>3
<1>12. LinkOK(w, u)'
  <2>1. round' = 0 \/ lastVersion'[u][w] = Top' => Clear(p, u, NewOwner')
    BY <1>1, <1>8, <1>9
  <2>2. /\ Closed(p, u, NewOwner', Top') /\ UpTo(p, Top') /\ (u \in Former' => UpTo(p, version'[u]))
    BY <1>1, <1>7, <1>9
  <2> QED BY <1>6, <1>11, <2>1, <2>2 DEF LinkOK, p
<1> QED BY <1>5, <1>12 DEF p

LEMMA FlushStep ==
  ASSUME OnlyJoins, TypeOK, TypeOK', RescaleCore, Cluster, Migration, NEW w \in alive, mode[w] = "Collect",
         Alone(w), Advances(w), WorkerOK(w)', QueueOK(w)', \A key \in Keys : Vacant(w, key) => Vacant(w, key)',
         \A key \in Keys : \A i : HasUpdate(out[w], key, i) => HasUpdate(out'[w], key, i),
         UNCHANGED <<opState, version, lastVersion>>,
         \A r \in alive \ {w} : chan'[<<r, w>>] = chan[<<r, w>>],
         \A u \in alive \ {w} :
            \/ chan'[<<w, u>>] = FlushCollected(w)[<<w, u>>]
            \/ chan'[<<w, u>>] = Append(FlushCollected(w)[<<w, u>>], [kind |-> "Upgrade", version |-> version[w]]),
         \A key \in Keys : collecting[w] = key => Given(key)'
  PROVE  Migration' /\ Retains(w)
<1> DEFINE F == FlushCollected(w)
<1>1. /\ w \in Workers /\ alive \subseteq Workers /\ version[w] \in Nat /\ Links = Workers \X Workers
      /\ F \in [Links -> Seq(NetworkMessage)]
  BY Owners, Standing, FlushedLink DEF Links
<1>2. ASSUME NEW u \in alive \ {w}
      PROVE  /\ LinkOK(w, u)' /\ \A key \in Keys : \A i : HasUpdate(F[<<w, u>>], key, i) => HasUpdate(chan'[<<w, u>>], key, i)
  <2> DEFINE q == F[<<w, u>>]
  <2>1. q \in Seq(NetworkMessage) /\ q = FlushCollected(w)[<<w, u>>]
    BY <1>1
  <2>2. chan'[<<w, u>>] = q \/ chan'[<<w, u>>] = Append(q, [kind |-> "Upgrade", version |-> version[w]])
    OBVIOUS
  <2> HIDE DEF q
  <2>3. LinkOK(w, u)' /\ \A key \in Keys : \A i : HasUpdate(q, key, i) => HasUpdate(chan'[<<w, u>>], key, i)
    BY <2>1, <2>2, FlushedOK
  <2> QED BY <2>3 DEF q
<1>3. ASSUME NEW x \in alive \ {w} PROVE LinkOK(x, w)'
  <2>1. LinkOK(x, w) /\ version[w] <= version'[w] /\ chan'[<<x, w>>] = chan[<<x, w>>]
    BY <1>1 DEF Migration
  <2>2. \A key \in Keys : HasState(chan'[<<x, w>>], key) => Vacant(w, key)'
    BY <2>1 DEF LinkOK
  <2> QED BY <2>1, <2>2, InLink
<1>4. Migration'
  BY <1>2, <1>3, StepFrame
<1>5. Retains(w)
  <2> SUFFICES ASSUME NEW key \in Keys, NEW i \in Ids, Seen(w, key, i) PROVE Seen(w, key, i)'
    BY DEF Retains
  <2>1. CASE i \in opState[w][key]
    BY <2>1 DEF Seen
  <2>2. CASE collecting[w] = key /\ i \in collected[w]
    <3>1. PICK u \in alive \ {w} : HasUpdate(F[<<w, u>>], key, i)
      BY <2>2, FlushedLink
    <3>2. HasUpdate(chan'[<<w, u>>], key, i)
      BY <1>2, <3>1
    <3> QED BY <1>1, <3>2 DEF Seen
  <2>3. CASE HasUpdate(out[w], key, i)
    BY <2>3 DEF Seen
  <2>4. ASSUME NEW x \in Workers, HasUpdate(chan[<<x, w>>], key, i) PROVE Seen(w, key, i)'
    <3>1. chan'[<<x, w>>] = chan[<<x, w>>]
      BY <1>1 DEF Alone
    <3> QED BY <2>4, <3>1 DEF Seen
  <2>5. ASSUME NEW x \in Workers, HasUpdate(chan[<<w, x>>], key, i) PROVE Seen(w, key, i)'
    <3>1. CASE x \in alive \ {w}
      <4>1. HasUpdate(F[<<w, x>>], key, i)
        BY <2>5, <3>1, FlushedLink DEF Flushed
      <4>2. HasUpdate(chan'[<<w, x>>], key, i)
        BY <1>2, <3>1, <4>1
      <4> QED BY <4>2 DEF Seen
    <3>2. CASE x \notin alive \ {w}
      <4>1. chan'[<<w, x>>] = chan[<<w, x>>]
        BY <1>1, <3>2 DEF Alone
      <4> QED BY <2>5, <4>1 DEF Seen
    <3> QED BY <3>1, <3>2
  <2> QED BY <2>1, <2>2, <2>3, <2>4, <2>5 DEF Seen
<1> QED BY <1>4, <1>5

LEMMA CollectStarts ==
  ASSUME OnlyJoins, TypeOK, RescaleCore, Cluster, Migration, NEW w \in alive, CollectReturned(w)
  PROVE  /\ mode[w] = "Collect" /\ ~HasKind(out[w], "Collect") /\ ~HasKind(out[w], "Interrogate")
         /\ ~Untold(w) /\ round > 0 /\ version[w] = Top
         /\ \A key \in Keys : OldOwner[key] = w => (Holds(key) <=> key \in whitelist[w])
         /\ \A key \in Keys : collecting[w] = key => MovesAway(w, key) /\ key \notin whitelist[w]
         /\ \A key \in whitelist[w] : key \in Keys /\ MovesAway(w, key) /\ collecting[w] # key
<1>1. WorkerOK(w) /\ mode[w] = "Collect" /\ (collecting[w] = NoKey \/ ~HasKind(out[w], "Collect"))
  BY DEF Migration, CollectReturned, Pending, HasKind
<1>2. ~HasKind(out[w], "Collect")
  <2> SUFFICES ASSUME HasKind(out[w], "Collect") PROVE FALSE
    OBVIOUS
  <2>1. PICK n \in DOMAIN out[w] : out[w][n].kind = "Collect"
    BY DEF HasKind
  <2>2. out[w][n].key = NoKey
    BY <1>1, <2>1 DEF WorkerOK, Collects, CollectsLast
  <2>3. out[w][n] \in OperatorMessage
    <3>1. w \in Workers
      BY Standing
    <3> QED BY <2>1, <3>1, ElementOfSeq DEF TypeOK, LinkTypeOK
  <2>4. out[w][n].key \in Keys
    BY <2>1, <2>3, OperatorFields
  <2> QED BY <2>2, <2>4, NoKeyAssumption
<1>3. ~HasKind(out[w], "Interrogate")
  BY <1>1 DEF WorkerOK, Interrogates
<1>4. ~Untold(w) /\ round > 0 /\ version[w] = Top
  BY <1>1, Standing
<1>5. \A key \in Keys : OldOwner[key] = w => (Holds(key) <=> key \in whitelist[w])
  BY <1>1, <1>2, <1>4 DEF Holds
<1>6. whitelist[w] \subseteq Keys
  BY Standing DEF TypeOK, RouterTypeOK
<1> QED BY <1>1, <1>2, <1>3, <1>4, <1>5, <1>6 DEF WorkerOK, KeysToCollect

\* One more key is collected.
LEMMA NextKeyMigration ==
  ASSUME OnlyJoins, TypeOK, TypeOK', RescaleCore, Cluster, Migration, NEW w \in alive,
         CollectNextKey(w), UNCHANGED <<opState, alive, round, delivered>>
  PROVE  Migration' /\ Alone(w) /\ Retains(w)
<1>1. /\ w \in Workers /\ alive \subseteq Workers /\ out \in [Workers -> Seq(OperatorMessage)]
      /\ out[w] \in Seq(OperatorMessage) /\ Links = Workers \X Workers
  BY Owners DEF TypeOK, LinkTypeOK, Links
<1>2. PICK k \in whitelist[w] :
        /\ whitelist' = [whitelist EXCEPT ![w] = @ \ {k}]
        /\ collecting' = [collecting EXCEPT ![w] = k]
        /\ out' = [out EXCEPT ![w] = @ \o MarkerOut(w) \o <<[kind |-> "Collect", key |-> k]>>]
  BY DEF CollectNextKey
<1> DEFINE m == [kind |-> "Collect", key |-> k]
           p == out[w] \o MarkerOut(w)
<1>3. /\ collected' = [collected EXCEPT ![w] = {}] /\ buffered' = [buffered EXCEPT ![w] = <<>>]
      /\ chan' = FlushCollected(w)
      /\ UNCHANGED <<mode, version, oldSet, newSet, remotes, lastVersion>>
  BY DEF CollectNextKey, peerVars
<1>4. CollectReturned(w)
  BY DEF CollectNextKey
<1>5. /\ mode[w] = "Collect" /\ ~HasKind(out[w], "Collect") /\ ~HasKind(out[w], "Interrogate")
      /\ ~Untold(w) /\ round > 0 /\ version[w] = Top
      /\ \A key \in Keys : OldOwner[key] = w => (Holds(key) <=> key \in whitelist[w])
      /\ \A key \in Keys : collecting[w] = key => MovesAway(w, key) /\ key \notin whitelist[w]
      /\ \A key \in whitelist[w] : key \in Keys /\ MovesAway(w, key) /\ collecting[w] # key
  BY <1>4, CollectStarts
<1>6. /\ k \in Keys /\ m \in OperatorMessage /\ m.kind = "Collect" /\ m.key = k
      /\ \A key : ~IsData(m, key) /\ ~IsState(m, key)
  BY <1>5, MessageTypes DEF IsData, IsState
<1>7. Alike(p, out[w]) /\ p \in Seq(OperatorMessage)
  BY <1>1, AlikeMarkers
<1>8. /\ whitelist'[w] = whitelist[w] \ {k} /\ collecting'[w] = k /\ collected'[w] = {} /\ buffered'[w] = <<>>
      /\ out'[w] = p \o <<m>>
      /\ \A u \in Workers \ {w} :
           /\ whitelist'[u] = whitelist[u] /\ collecting'[u] = collecting[u] /\ collected'[u] = collected[u]
           /\ buffered'[u] = buffered[u] /\ out'[u] = out[u]
  BY <1>1, <1>2, <1>3 DEF TypeOK, RouterTypeOK
<1> HIDE DEF m, p
<1>9. out'[w] = Append(p, m)
  BY <1>6, <1>7, <1>8, OneMore
<1>10. /\ HasKind(out'[w], "Collect") /\ ~HasKind(out'[w], "Interrogate")
       /\ \A key : HasData(out'[w], key) <=> HasData(out[w], key)
       /\ \A key : HasState(out'[w], key) <=> HasState(out[w], key)
       /\ \A key : StateFirst(out[w], key) => StateFirst(out'[w], key)
       /\ \A key, i : HasUpdate(out[w], key, i) => HasUpdate(out'[w], key, i)
       /\ CollectsLast(out'[w], k)
  <2>1. /\ \A kind : HasKind(Append(p, m), kind) <=> HasKind(p, kind) \/ m.kind = kind
        /\ \A key : HasData(Append(p, m), key) <=> HasData(p, key)
        /\ \A key : HasState(Append(p, m), key) <=> HasState(p, key)
    BY <1>6, <1>7, AddedHas
  <2>2. \A key, i : HasUpdate(p, key, i) => HasUpdate(Append(p, m), key, i)
    BY <1>6, <1>7, AddedHas
  <2>3. \A key : StateFirst(p, key) => StateFirst(Append(p, m), key)
    BY <1>6, <1>7, AddedOrder
  <2>4. ~HasKind(p, "Collect") /\ ~HasKind(p, "Interrogate")
    BY <1>5, <1>7 DEF Alike
  <2>5. CollectsLast(p, k)
    BY <2>4, NothingThere
  <2>6. CollectsLast(Append(p, m), k)
    BY <1>6, <1>7, <2>4, <2>5, AddedOrder
  <2> QED BY <1>6, <1>7, <1>9, <2>1, <2>2, <2>3, <2>4, <2>6 DEF Alike
<1>11. /\ \A r, u \in Workers : r # w \/ u \notin alive \ {w} => chan'[<<r, u>>] = chan[<<r, u>>]
       /\ \A r \in alive \ {w} : chan'[<<r, w>>] = chan[<<r, w>>]
  BY <1>1, <1>3, <1>5, FlushedLink
<1>12. Alone(w)
  BY <1>3, <1>8, <1>11 DEF Alone
<1>13. /\ UNCHANGED <<Former, Members, OldOwner, NewOwner, Top, Base, round>>
       /\ \A u, key : (MovesAway(u, key)' <=> MovesAway(u, key)) /\ (MovesTo(u, key)' <=> MovesTo(u, key))
       /\ (Untold(w)' <=> Untold(w))
  BY SameRound DEF Untold
<1>14. WorkerOK(w) /\ QueueOK(w)
  BY DEF Migration
<1>15. \A key \in Keys : OldOwner[key] = w /\ (Given(key) \/ collecting[w] = key) => Given(key)'
  BY <1>3, <1>5, <1>8, <1>13 DEF Given
<1>16. Advances(w)
  BY <1>5, <1>15 DEF Advances, Done
<1>17. WorkerOK(w)'
  <2>1. Config(w)'
    BY <1>3, <1>13, <1>14 DEF WorkerOK, Config
  <2>2. Closing(w)'
    BY <1>3, <1>5 DEF Closing
  <2>3. KeysToCollect(w)'
    <3>1. DOMAIN buffered'[w] = {}
      BY <1>8
    <3> QED BY <1>3, <1>5, <1>6, <1>8, <1>13, <3>1 DEF KeysToCollect
  <2>4. Collects(w)'
    BY <1>3, <1>5, <1>8, <1>10 DEF Collects
  <2>5. Interrogates(w)'
    BY <1>3, <1>5, <1>10 DEF Interrogates
  <2> QED BY <2>1, <2>2, <2>3, <2>4, <2>5 DEF WorkerOK
<1>18. \A key \in Keys : Given(key) => Given(key)'
  BY <1>12, <1>16, OthersAdvance
<1>19. \A key \in Keys : Serves(w, key) => Serves(w, key)'
  <2>1. ASSUME NEW key \in Keys, OldOwner[key] = w, Holds(key) PROVE Holds(key)'
    <3>1. key \in whitelist'[w] \/ (collecting'[w] = key /\ HasKind(out'[w], "Collect"))
      BY <1>5, <1>8, <1>10, <2>1
    <3>2. OldOwner'[key] = w /\ mode'[w] = "Collect"
      BY <1>3, <1>5, <1>13, <2>1
    <3> QED BY <3>1, <3>2 DEF Holds
  <2> QED BY <1>13, <1>18, <2>1 DEF Serves
<1>20. QueueOK(w)'
  BY <1>10, <1>13, <1>14, <1>18, <1>19 DEF QueueOK
<1>21. \A key \in Keys : Vacant(w, key) => Vacant(w, key)'
  BY <1>10 DEF Vacant
<1>22. \A key \in Keys : collecting[w] = key => Given(key)'
  BY <1>5, <1>15 DEF MovesAway
<1>23. Migration' /\ Retains(w)
  BY <1>3, <1>5, <1>10, <1>11, <1>12, <1>16, <1>17, <1>20, <1>21, <1>22, FlushStep
<1> QED BY <1>12, <1>23

\* Everything is collected: the remotes are told.
LEMMA CollectDoneMigration ==
  ASSUME OnlyJoins, TypeOK, TypeOK', RescaleCore, Cluster, Migration, NEW w \in alive,
         CollectLifecycleDone(w), UNCHANGED <<opState, alive, round, delivered>>
  PROVE  Migration' /\ Alone(w) /\ Retains(w)
<1> DEFINE m == [kind |-> "Upgrade", version |-> version[w]]
           F == FlushCollected(w)
<1>1. /\ w \in Workers /\ alive \subseteq Workers /\ out \in [Workers -> Seq(OperatorMessage)]
      /\ out[w] \in Seq(OperatorMessage) /\ Links = Workers \X Workers /\ remotes[w] \subseteq alive \ {w}
      /\ version[w] \in Nat
  BY Owners, Standing, ClusterFacts DEF TypeOK, LinkTypeOK, Links, Cluster, Connected
<1>2. /\ mode' = [mode EXCEPT ![w] = "Finished"] /\ collecting' = [collecting EXCEPT ![w] = NoKey]
      /\ collected' = [collected EXCEPT ![w] = {}] /\ buffered' = [buffered EXCEPT ![w] = <<>>]
      /\ chan' = Broadcast(F, w, m) /\ out' = [out EXCEPT ![w] = @ \o MarkerOut(w)]
      /\ UNCHANGED <<version, oldSet, newSet, whitelist, remotes, lastVersion>>
      /\ whitelist[w] = {} /\ CollectReturned(w)
  BY DEF CollectLifecycleDone, peerVars
<1>3. /\ mode[w] = "Collect" /\ ~HasKind(out[w], "Collect") /\ ~HasKind(out[w], "Interrogate")
      /\ ~Untold(w) /\ round > 0 /\ version[w] = Top
      /\ \A key \in Keys : OldOwner[key] = w => (Holds(key) <=> key \in whitelist[w])
      /\ \A key \in Keys : collecting[w] = key => MovesAway(w, key) /\ key \notin whitelist[w]
  BY <1>2, CollectStarts
<1>4. Alike(out[w] \o MarkerOut(w), out[w])
  BY <1>1, AlikeMarkers
<1>5. /\ mode'[w] = "Finished" /\ collecting'[w] = NoKey /\ collected'[w] = {} /\ buffered'[w] = <<>>
      /\ Alike(out'[w], out[w])
      /\ \A u \in Workers \ {w} :
           /\ mode'[u] = mode[u] /\ collecting'[u] = collecting[u] /\ collected'[u] = collected[u]
           /\ buffered'[u] = buffered[u] /\ out'[u] = out[u]
  BY <1>1, <1>2, <1>4 DEF TypeOK, RouterTypeOK
<1>6. F \in [Links -> Seq(NetworkMessage)] /\ m \in NetworkMessage
      /\ \A r, u \in Workers : r # w \/ u \notin alive \ {w} => F[<<r, u>>] = chan[<<r, u>>]
  BY <1>1, <1>3, FlushedLink, MessageTypes
<1> HIDE DEF m, F
<1>7. /\ \A r, u \in Workers : r # w \/ u \notin remotes[w] => chan'[<<r, u>>] = F[<<r, u>>]
      /\ \A u \in remotes[w] : chan'[<<w, u>>] = Append(F[<<w, u>>], m)
  <2>1. /\ \A r, u \in Workers : r # w \/ u \notin remotes[w] => Broadcast(F, w, m)[<<r, u>>] = F[<<r, u>>]
        /\ \A u \in remotes[w] : Broadcast(F, w, m)[<<w, u>>] = Append(F[<<w, u>>], m)
    BY <1>6, BroadcastLinks
  <2> QED BY <1>2, <2>1
<1>8. /\ \A r, u \in Workers : r # w \/ u \notin alive \ {w} => chan'[<<r, u>>] = chan[<<r, u>>]
      /\ \A r \in alive \ {w} : chan'[<<r, w>>] = chan[<<r, w>>]
      /\ \A u \in alive \ {w} : chan'[<<w, u>>] = F[<<w, u>>] \/ chan'[<<w, u>>] = Append(F[<<w, u>>], m)
  BY <1>1, <1>6, <1>7
<1>9. Alone(w)
  BY <1>2, <1>5, <1>8 DEF Alone
<1>10. /\ UNCHANGED <<Former, Members, OldOwner, NewOwner, Top, Base, round>>
       /\ \A u, key : (MovesAway(u, key)' <=> MovesAway(u, key)) /\ (MovesTo(u, key)' <=> MovesTo(u, key))
       /\ (Untold(w)' <=> Untold(w))
  BY SameRound DEF Untold
<1>11. WorkerOK(w) /\ QueueOK(w)
  BY DEF Migration
<1>12. \A key \in Keys : OldOwner[key] = w => Given(key)'
  BY <1>3, <1>5, <1>10 DEF Given
<1>13. Advances(w)
  BY <1>3, <1>12 DEF Advances, Done
<1>14. WorkerOK(w)'
  <2>1. Config(w)'
    BY <1>2, <1>3, <1>5, <1>10, <1>11 DEF WorkerOK, Config
  <2>2. Closing(w)'
    BY <1>5 DEF Closing
  <2>3. KeysToCollect(w)'
    BY <1>2, <1>5, NoKeyAssumption DEF KeysToCollect
  <2>4. ~HasKind(out'[w], "Collect") /\ ~HasKind(out'[w], "Interrogate")
    BY <1>3, <1>5 DEF Alike
  <2>5. Collects(w)'
    BY <2>4, NothingThere DEF Collects
  <2>6. Interrogates(w)'
    BY <1>5, <2>4 DEF Interrogates
  <2> QED BY <2>1, <2>2, <2>3, <2>5, <2>6 DEF WorkerOK
<1>15. \A key \in Keys : Given(key) => Given(key)'
  BY <1>9, <1>13, OthersAdvance
<1>16. \A key \in Keys : Serves(w, key) => Serves(w, key)'
  BY <1>2, <1>3, <1>10, <1>15 DEF Serves
<1>17. QueueOK(w)'
  BY <1>5, <1>10, <1>11, <1>15, <1>16 DEF QueueOK, Alike
<1>18. \A key \in Keys : Vacant(w, key) => Vacant(w, key)'
  BY <1>5 DEF Vacant, Alike
<1>19. \A key \in Keys : collecting[w] = key => Given(key)'
  BY <1>3, <1>12 DEF MovesAway
<1>20. Migration' /\ Retains(w)
  <2>1. \A key \in Keys : \A i : HasUpdate(out[w], key, i) => HasUpdate(out'[w], key, i)
    BY <1>5 DEF Alike
  <2> QED BY <1>2, <1>3, <1>8, <1>9, <1>13, <1>14, <1>17, <1>18, <1>19, <2>1, FlushStep DEF F, m
<1> QED BY <1>9, <1>20

LEMMA RunTailMigration ==
  ASSUME OnlyJoins, TypeOK, TypeOK', RescaleCore, Cluster, Migration, NEW w \in alive, RunTail(w)
  PROVE  Migration' /\ Alone(w) /\ Retains(w)
<1>1. UNCHANGED <<opState, alive, round, delivered>>
  BY DEF RunTail, opVars, envVars
<1>2. ~CollectLifecyclePanics(w)
  <2>1. w \in Workers
    BY Standing
  <2> QED BY <2>1, RunTailCluster
<1>3. \/ LifecycleStays(w) \/ InterrogateLifecycle(w) \/ CollectNextKey(w)
      \/ CollectLifecycleDone(w) \/ FinishedLifecycle(w)
  BY <1>2 DEF RunTail
<1>4. CASE LifecycleStays(w)
  BY <1>4, LocalMigration
<1>5. CASE InterrogateLifecycle(w)
  BY <1>1, <1>5, InterrogateMigration
<1>6. CASE CollectNextKey(w)
  BY <1>1, <1>6, NextKeyMigration
<1>7. CASE CollectLifecycleDone(w)
  BY <1>1, <1>7, CollectDoneMigration
<1>8. CASE FinishedLifecycle(w)
  BY <1>1, <1>8, FinishedMigration
<1> QED BY <1>3, <1>4, <1>5, <1>6, <1>7, <1>8

----------------------------------------------------------------------------
\* The operator.

\* It takes a message off its queue: what is to be shown of each message.
Takes(w, h, t) ==
  \A key \in Keys :
    /\ opState'[w][key] # {} =>
         /\ opState[w][key] # {} \/ IsData(h, key) \/ IsState(h, key)
         /\ ~HasState(t, key)
    /\ h.kind = "Collect" /\ collecting[w] = key => opState'[w][key] = {} /\ ~HasData(t, key)
    /\ \A i \in Ids : \/ i \in opState[w][key]
                      \/ collecting[w] = key /\ i \in collected[w]
                      \/ IsState(h, key) /\ i \in h.state
         => i \in opState'[w][key] \/ (collecting[w] = key /\ i \in collected'[w])

LEMMA OperatorStep ==
  ASSUME OnlyJoins, TypeOK, TypeOK', RescaleCore, Cluster, Migration, NEW w \in alive, NEW h, NEW t,
         StatefulOp(w), h = Head(out[w]), t = Tail(out[w]),
         \A u \in Workers \ {w} :
            opState'[u] = opState[u] /\ whitelist'[u] = whitelist[u] /\ collected'[u] = collected[u],
         KeysToCollect(w)', Collects(w)', Interrogates(w)',
         whitelist[w] \subseteq whitelist'[w], whitelist'[w] = whitelist[w] \/ mode[w] = "Interrogate",
         Takes(w, h, t)
  PROVE  Migration' /\ Alone(w) /\ Retains(w)
<1> USE DEF Takes
<1>1. /\ w \in Workers /\ alive \subseteq Workers /\ out \in [Workers -> Seq(OperatorMessage)]
      /\ out[w] \in Seq(OperatorMessage) /\ out[w] # <<>>
  BY Owners DEF TypeOK, LinkTypeOK, StatefulOp
<1>2. /\ UNCHANGED <<mode, version, oldSet, newSet, collecting, buffered, remotes, lastVersion, chan,
                     delivered, round, alive>>
      /\ out'[w] = t /\ \A u \in Workers \ {w} : out'[u] = out[u]
  BY <1>1 DEF StatefulOp, peerVars, envVars
<1>3. Alone(w)
  BY <1>2 DEF Alone
<1>4. /\ UNCHANGED <<Former, Members, OldOwner, NewOwner, Top, Base, round>>
      /\ \A u, key : (MovesAway(u, key)' <=> MovesAway(u, key)) /\ (MovesTo(u, key)' <=> MovesTo(u, key))
      /\ (Untold(w)' <=> Untold(w))
  BY <1>2, SameRound DEF Untold
<1>5. WorkerOK(w) /\ QueueOK(w)
  BY DEF Migration
<1>6. /\ \A kind : HasKind(out[w], kind) <=> h.kind = kind \/ HasKind(t, kind)
      /\ \A key : HasData(out[w], key) <=> IsData(h, key) \/ HasData(t, key)
      /\ \A key : HasState(out[w], key) <=> IsState(h, key) \/ HasState(t, key)
      /\ \A key, i : HasUpdate(out[w], key, i) <=> HasUpdate(t, key, i) \/ (IsState(h, key) /\ i \in h.state)
  BY <1>1, TakenHas
<1>7. (\A key : StateFirst(out[w], key) => StateFirst(t, key)) /\ (Open(t) => Open(out[w]))
  BY <1>1, TakenOrder
<1>8. WorkerOK(w)'
  <2>1. Config(w)'
    BY <1>2, <1>4, <1>5 DEF WorkerOK, Config
  <2>2. Closing(w)'
    BY <1>2, <1>4, <1>5, <1>7 DEF WorkerOK, Closing
  <2> QED BY <2>1, <2>2 DEF WorkerOK
<1>9. Advances(w)
  <2>1. ASSUME NEW key \in Keys, OldOwner[key] = w, Given(key) PROVE Given(key)'
    <3>1. mode[w] # "Interrogate" /\ whitelist'[w] = whitelist[w]
      BY <2>1 DEF Given
    <3> QED BY <1>2, <1>4, <2>1, <3>1 DEF Given
  <2> QED BY <1>2, <1>4, <1>6, <2>1 DEF Advances, Done
<1>10. \A key \in Keys : Given(key) => Given(key)'
  BY <1>3, <1>9, OthersAdvance
<1>11. ASSUME NEW key \in Keys, HasData(t, key) \/ opState'[w][key] # {} PROVE Serves(w, key)'
  <2>1. Serves(w, key) \/ (MovesTo(w, key) /\ Given(key))
    BY <1>5, <1>6, <1>11 DEF QueueOK
  <2>2. CASE MovesTo(w, key) /\ Given(key)
    BY <1>4, <1>10, <2>2 DEF Serves
  <2>3. CASE OldOwner[key] = w /\ NewOwner[key] = w
    BY <1>4, <2>3 DEF Serves
  <2>4. CASE OldOwner[key] = w /\ Holds(key)
    <3>1. ~(h.kind = "Collect" /\ collecting[w] = key)
      BY <1>11
    <3>2. \/ Untold(w) \/ mode[w] = "Interrogate"
          \/ mode[w] = "Collect" /\ (key \in whitelist'[w] \/ (collecting[w] = key /\ HasKind(t, "Collect")))
      BY <1>6, <2>4, <3>1 DEF Holds
    <3>3. Holds(key)'
      <4>1. OldOwner'[key] = w
        BY <1>4, <2>4
      <4> QED BY <1>2, <1>4, <3>2, <4>1 DEF Holds
    <3> QED BY <1>4, <2>4, <3>3 DEF Serves
  <2> QED BY <2>1, <2>2, <2>3, <2>4 DEF Serves
<1>12. QueueOK(w)'
  BY <1>2, <1>4, <1>5, <1>6, <1>7, <1>10, <1>11 DEF QueueOK
<1>13. \A key \in Keys : Vacant(w, key) => Vacant(w, key)'
  BY <1>2, <1>6 DEF Vacant
<1>14. ASSUME NEW x \in alive \ {w} PROVE LinkOK(x, w)' /\ LinkOK(w, x)'
  <2>1. LinkOK(x, w) /\ version[w] <= version'[w]
    BY <1>1, <1>2 DEF Migration, TypeOK, RouterTypeOK
  <2>2. \A key \in Keys : HasState(chan'[<<x, w>>], key) => Vacant(w, key)'
    BY <1>2, <1>13, <2>1 DEF LinkOK
  <2>3. LinkOK(x, w)'
    BY <1>2, <1>3, <1>9, <2>1, <2>2, InLink
  <2>4. LinkOK(w, x)'
    BY <1>2, <1>3, <1>9, OutLink
  <2> QED BY <2>3, <2>4
<1>15. Migration'
  BY <1>3, <1>8, <1>9, <1>12, <1>14, StepFrame
<1>16. Retains(w)
  <2> SUFFICES ASSUME NEW key \in Keys, NEW i \in Ids, Seen(w, key, i) PROVE Seen(w, key, i)'
    BY DEF Retains
  <2>1. CASE \E r \in Workers : HasUpdate(chan[<<r, w>>], key, i) \/ HasUpdate(chan[<<w, r>>], key, i)
    BY <1>2, <2>1 DEF Seen
  <2>2. CASE HasUpdate(t, key, i)
    BY <1>2, <2>2 DEF Seen
  <2>3. CASE \/ i \in opState[w][key] \/ (collecting[w] = key /\ i \in collected[w])
             \/ IsState(h, key) /\ i \in h.state
    <3>1. i \in opState'[w][key] \/ (collecting[w] = key /\ i \in collected'[w])
      BY <2>3
    <3> QED BY <1>2, <3>1 DEF Seen
  <2> QED BY <1>6, <2>1, <2>2, <2>3 DEF Seen
<1> QED BY <1>3, <1>15, <1>16

LEMMA StatefulOpMigration ==
  ASSUME OnlyJoins, TypeOK, TypeOK', RescaleCore, Cluster, Migration, NEW w \in alive, StatefulOp(w)
  PROVE  Migration' /\ Alone(w) /\ Retains(w)
<1> DEFINE q == out[w]
           h == Head(q)
           t == Tail(q)
<1>1. /\ w \in Workers /\ alive \subseteq Workers /\ q \in Seq(OperatorMessage) /\ q # <<>>
      /\ h \in OperatorMessage /\ whitelist \in [Workers -> SUBSET Keys]
      /\ opState \in [Workers -> [Keys -> SUBSET Ids]] /\ collected \in [Workers -> SUBSET Ids]
  BY Owners, SMTT(30) DEF TypeOK, LinkTypeOK, StatefulOp, RouterTypeOK, OperatorTypeOK
<1>2. /\ UNCHANGED <<mode, version, oldSet, newSet, collecting, buffered, remotes, lastVersion, chan,
                     delivered, round, alive>>
      /\ out' = [out EXCEPT ![w] = t]
  BY DEF StatefulOp, peerVars, envVars
<1>3. out'[w] = t /\ \A u \in Workers \ {w} : out'[u] = out[u]
  BY <1>1, <1>2 DEF TypeOK, LinkTypeOK
<1>4. WorkerOK(w) /\ QueueOK(w)
  BY DEF Migration
<1>5. /\ \A kind : HasKind(q, kind) <=> h.kind = kind \/ HasKind(t, kind)
      /\ \A key : HasData(q, key) <=> IsData(h, key) \/ HasData(t, key)
      /\ \A key : HasState(q, key) <=> IsState(h, key) \/ HasState(t, key)
  BY <1>1, TakenHas
<1>6. \A key : /\ StateFirst(q, key) /\ (IsData(h, key) \/ IsState(h, key)) => ~HasState(t, key)
               /\ CollectsLast(q, key) => CollectsLast(t, key)
               /\ CollectsLast(q, key) /\ h.kind = "Collect" =>
                     h.key = key /\ ~HasKind(t, "Collect") /\ ~HasData(t, key)
               /\ Loose(t, key) => Loose(q, key)
  BY <1>1, TakenOrder
<1>7. h = Head(out[w]) /\ t = Tail(out[w])
  OBVIOUS
<1>8. /\ UNCHANGED <<Former, Members, OldOwner, NewOwner, Top, Base, round>>
      /\ \A u, key : (MovesAway(u, key)' <=> MovesAway(u, key)) /\ (MovesTo(u, key)' <=> MovesTo(u, key))
  BY <1>2, SameRound
<1>9. \/ StatefulData(w, h) \/ StatefulInterrogate(w, h) \/ StatefulCollect(w, h) \/ StatefulAcquire(w, h)
      \/ StatefulBarrier(w, h) \/ StatefulEpoch(w, h) \/ StatefulForward(w, h)
  BY DEF StatefulOp
<1> HIDE DEF q, h, t
<1>10. /\ \A key \in Keys : /\ HasData(q, key) \/ opState[w][key] # {} => Serves(w, key)
                            /\ HasState(q, key) => MovesTo(w, key) /\ opState[w][key] = {}
                            /\ StateFirst(q, key)
       /\ HasKind(q, "Collect") => mode[w] = "Collect" /\ collected[w] = {}
       /\ CollectsLast(q, collecting[w])
       /\ HasKind(q, "Interrogate") => mode[w] = "Interrogate"
       /\ mode[w] = "Interrogate" => \A key \in Keys : MovesAway(w, key) =>
            /\ opState[w][key] # {} /\ ~HasKind(q, "Interrogate") => key \in whitelist[w]
            /\ Loose(q, key) => key \in whitelist[w]
  BY <1>4 DEF q, QueueOK, WorkerOK, Collects, Interrogates
<1>11. CASE UNCHANGED <<opState, whitelist, collected>> /\ h.kind \in Idles \cup {"Rescale"}
  <2>1. Alike(out'[w], out[w])
    BY <1>1, <1>3, <1>7, <1>11, AlikeTaken DEF q
  <2>2. AllRest
    BY <1>2, <1>11 DEF AllRest
  <2>3. Alone(w) /\ Rests(w)
    BY <1>2, <1>3, <2>2, AllRestAlone
  <2> QED BY <1>2, <2>1, <2>3, IdleStep
<1>12. CASE StatefulData(w, h)
  <2> DEFINE k == h.data.key
  <2>1. /\ h.kind = "Data" /\ k \in Keys /\ opState' = [opState EXCEPT ![w][k] = @ \cup {h.data.id}]
        /\ UNCHANGED <<whitelist, collected>>
    BY <1>1, <1>12, OperatorFields DEF StatefulData, DataMessage
  <2> HIDE DEF k
  <2>2. \A key : (IsData(h, key) <=> key = k) /\ ~IsState(h, key)
    BY <2>1 DEF IsData, IsState, k
  <2>3. /\ \A u \in Workers \ {w} :
             opState'[u] = opState[u] /\ whitelist'[u] = whitelist[u] /\ collected'[u] = collected[u]
        /\ \A key \in Keys : /\ opState[w][key] \subseteq opState'[w][key]
                             /\ key # k => opState'[w][key] = opState[w][key]
    BY <1>1, <2>1
  <2>4. KeysToCollect(w)'
    BY <1>2, <1>4, <1>8, <2>1 DEF WorkerOK, KeysToCollect
  <2>5. Collects(w)'
    BY <1>2, <1>3, <1>5, <1>6, <1>10, <2>1 DEF Collects
  <2>6. Interrogates(w)'
    <3>1. ASSUME NEW key \in Keys, mode[w] = "Interrogate", MovesAway(w, key)
          PROVE  /\ opState'[w][key] # {} /\ ~HasKind(t, "Interrogate") => key \in whitelist'[w]
                 /\ Loose(t, key) => key \in whitelist'[w]
      <4>1. ~HasKind(t, "Interrogate") => ~HasKind(q, "Interrogate")
        BY <1>5, <2>1
      <4>2. HasData(q, k)
        BY <1>5, <2>2
      <4>3. ~HasKind(q, "Interrogate") => Loose(q, k)
        BY <4>2, NothingThere
      <4> QED BY <1>6, <1>10, <2>1, <2>3, <3>1, <4>1, <4>3
    <3>2. HasKind(t, "Interrogate") => mode[w] = "Interrogate"
      BY <1>5, <1>10
    <3> QED BY <1>2, <1>3, <1>8, <3>1, <3>2 DEF Interrogates
  <2>7. Takes(w, h, t)
    BY <1>5, <1>6, <1>10, <2>1, <2>2, <2>3 DEF Takes
  <2>8. whitelist[w] \subseteq whitelist'[w] /\ (whitelist'[w] = whitelist[w] \/ mode[w] = "Interrogate")
    BY <2>1
  <2> QED BY <1>7, <2>3, <2>4, <2>5, <2>6, <2>7, <2>8, OperatorStep
<1>13. CASE StatefulInterrogate(w, h)
  <2> DEFINE found == {key \in Keys : opState[w][key] # {} /\ Moves(w, key)}
  <2>1. /\ h.kind = "Interrogate" /\ whitelist' = [whitelist EXCEPT ![w] = @ \cup found]
        /\ UNCHANGED <<opState, collected>>
    BY <1>13 DEF StatefulInterrogate
  <2>2. mode[w] = "Interrogate" /\ \A key : ~IsData(h, key) /\ ~IsState(h, key)
    BY <1>5, <1>10, <2>1 DEF IsData, IsState
  <2>3. \A key \in Keys : key \in found <=> opState[w][key] # {} /\ MovesAway(w, key)
    <3>1. w \in Former =>
            \A key \in Keys : NewTarget(w, key) = NewOwner[key] /\ OldTarget(w, key) = OldOwner[key]
      BY <2>2, Standing
    <3>2. w \notin Former =>
            \A key \in Keys : NewTarget(w, key) = NewOwner[key] /\ OldTarget(w, key) = NewOwner[key]
      BY Standing
    <3>3. \A key \in Keys : OldOwner[key] \in Former /\ (MovesTo(w, key) => w \notin Former)
      BY Owners
    <3>4. \A key \in Keys : opState[w][key] # {} => OldOwner[key] = w \/ MovesTo(w, key)
      BY <1>10 DEF Serves
    <3> QED BY <3>1, <3>2, <3>3, <3>4 DEF Moves, MovesAway
  <2> HIDE DEF found
  <2>4. /\ whitelist'[w] = whitelist[w] \cup found
        /\ \A u \in Workers \ {w} :
             opState'[u] = opState[u] /\ whitelist'[u] = whitelist[u] /\ collected'[u] = collected[u]
    BY <1>1, <2>1
  <2>a. found \subseteq Keys
    BY DEF found
  <2>5. KeysToCollect(w)'
    <3>1. collecting[w] = NoKey
      BY <1>1, <2>2 DEF Cluster, CollectsForOthers
    <3> QED BY <1>2, <1>4, <1>8, <2>2, <2>3, <2>4, <2>a, <3>1, NoKeyAssumption DEF WorkerOK, KeysToCollect
  <2>6. Collects(w)'
    BY <1>2, <1>3, <1>5, <1>6, <1>10, <2>1 DEF Collects
  <2>7. Interrogates(w)'
    BY <1>2, <1>3, <1>6, <1>8, <1>10, <2>1, <2>2, <2>3, <2>4 DEF Interrogates
  <2>8. Takes(w, h, t)
    BY <1>5, <1>10, <2>1, <2>2 DEF Takes
  <2>9. whitelist[w] \subseteq whitelist'[w] /\ (whitelist'[w] = whitelist[w] \/ mode[w] = "Interrogate")
    BY <2>2, <2>4
  <2>10. \A u \in Workers \ {w} :
           opState'[u] = opState[u] /\ whitelist'[u] = whitelist[u] /\ collected'[u] = collected[u]
    BY <2>4
  <2> QED BY <1>7, <2>5, <2>6, <2>7, <2>8, <2>9, <2>10, OperatorStep
<1>14. CASE StatefulCollect(w, h)
  <2> DEFINE k == h.key
  <2>1. /\ h.kind = "Collect" /\ k \in Keys /\ collected' = [collected EXCEPT ![w] = opState[w][k]]
        /\ opState' = [opState EXCEPT ![w][k] = {}] /\ UNCHANGED whitelist
    BY <1>1, <1>14, OperatorFields DEF StatefulCollect
  <2> HIDE DEF k
  <2>2. /\ collecting[w] = k /\ ~HasKind(t, "Collect") /\ ~HasData(t, k) /\ mode[w] = "Collect" /\ collected[w] = {}
        /\ \A key : ~IsData(h, key) /\ ~IsState(h, key)
    BY <1>5, <1>6, <1>10, <2>1 DEF IsData, IsState, k
  <2>3. /\ \A u \in Workers \ {w} :
             opState'[u] = opState[u] /\ whitelist'[u] = whitelist[u] /\ collected'[u] = collected[u]
        /\ collected'[w] = opState[w][k] /\ opState'[w][k] = {}
        /\ \A key \in Keys : key # k => opState'[w][key] = opState[w][key]
    BY <1>1, <2>1
  <2>4. KeysToCollect(w)'
    BY <1>2, <1>4, <1>8, <2>1 DEF WorkerOK, KeysToCollect
  <2>5. Collects(w)'
    BY <1>2, <1>3, <1>6, <1>10, <2>2 DEF Collects
  <2>6. Interrogates(w)'
    <3>1. ~HasKind(t, "Interrogate")
      BY <1>5, <1>10, <2>2
    <3> QED BY <1>2, <1>3, <2>2, <3>1 DEF Interrogates
  <2>7. Takes(w, h, t)
    BY <1>5, <1>10, <2>1, <2>2, <2>3 DEF Takes
  <2>8. whitelist[w] \subseteq whitelist'[w] /\ (whitelist'[w] = whitelist[w] \/ mode[w] = "Interrogate")
    BY <2>1
  <2> QED BY <1>7, <2>3, <2>4, <2>5, <2>6, <2>7, <2>8, OperatorStep
<1>15. CASE StatefulAcquire(w, h)
  <2> DEFINE k == h.key
  <2>1. /\ h.kind = "Acquire" /\ k \in Keys /\ h.state \subseteq Ids
        /\ opState' = [opState EXCEPT ![w][k] = IF h.state = {} THEN opState[w][k] ELSE h.state]
        /\ UNCHANGED <<whitelist, collected>>
    BY <1>1, <1>15, OperatorFields DEF StatefulAcquire
  <2> HIDE DEF k
  <2>2. \A key : ~IsData(h, key) /\ (IsState(h, key) <=> key = k)
    BY <2>1 DEF IsData, IsState, k
  <2>3. HasState(q, k) /\ MovesTo(w, k) /\ opState[w][k] = {} /\ ~HasState(t, k)
    BY <1>5, <1>6, <1>10, <2>1, <2>2
  <2>4. /\ \A u \in Workers \ {w} :
             opState'[u] = opState[u] /\ whitelist'[u] = whitelist[u] /\ collected'[u] = collected[u]
        /\ opState'[w][k] = h.state
        /\ \A key \in Keys : key # k => opState'[w][key] = opState[w][key]
    BY <1>1, <2>1, <2>3
  <2>5. KeysToCollect(w)'
    BY <1>2, <1>4, <1>8, <2>1 DEF WorkerOK, KeysToCollect
  <2>6. Collects(w)'
    BY <1>2, <1>3, <1>5, <1>6, <1>10, <2>1 DEF Collects
  <2>7. Interrogates(w)'
    <3>1. ~MovesAway(w, k)
      BY <2>3 DEF MovesAway, MovesTo
    <3>2. HasKind(t, "Interrogate") <=> HasKind(q, "Interrogate")
      BY <1>5, <2>1
    <3> QED BY <1>2, <1>3, <1>6, <1>8, <1>10, <2>1, <2>4, <3>1, <3>2 DEF Interrogates
  <2>8. Takes(w, h, t)
    BY <1>5, <1>10, <2>1, <2>2, <2>3, <2>4 DEF Takes
  <2>9. whitelist[w] \subseteq whitelist'[w] /\ (whitelist'[w] = whitelist[w] \/ mode[w] = "Interrogate")
    BY <2>1
  <2> QED BY <1>7, <2>4, <2>5, <2>6, <2>7, <2>8, <2>9, OperatorStep
<1>16. CASE StatefulBarrier(w, h) \/ StatefulEpoch(w, h) \/ StatefulForward(w, h)
  <2>1. UNCHANGED <<opState, whitelist, collected>> /\ h.kind \in Idles \cup {"Rescale"}
    BY <1>16 DEF StatefulBarrier, StatefulEpoch, StatefulForward, opVars, Idles
  <2> QED BY <1>11, <2>1
<1> QED BY <1>9, <1>12, <1>13, <1>14, <1>15, <1>16

----------------------------------------------------------------------------
\* A reconfiguration starts when the one before is over.

LEMMA StartRescaleMigration ==
  ASSUME OnlyJoins, TypeOK, TypeOK', RescaleCore, Cluster, Cluster', Migration, StartRescale
  PROVE  Migration' /\ \A key \in Keys : \A i : i \in Held(key) => i \in Held(key)'
<1> DEFINE joining == Scales[round + 1] \ alive
           all     == alive \cup joining
<1>1. /\ RescaleDone /\ round' = round + 1 /\ alive' = all
      /\ newSet' = [w \in Workers |-> IF w \in joining THEN all ELSE newSet[w]]
      /\ oldSet' = [w \in Workers |-> IF w \in joining THEN all ELSE oldSet[w]]
      /\ delivered' = [w \in Workers |-> IF w \in joining THEN round ELSE delivered[w]]
      /\ UNCHANGED <<mode, version, whitelist, collecting, collected, buffered, lastVersion, chan, out, opState>>
  BY DEF StartRescale
<1>2. /\ alive = Members /\ alive \subseteq Workers /\ round \in Nat /\ Top \in Nat /\ FirstVersion \in Nat
      /\ (round = 0 => Former = Members) /\ alive \subseteq all
  BY Owners, DistributorAssumption
<1>3. alive' = Members' /\ alive' \subseteq Workers
  BY DEF TypeOK, EnvTypeOK, Cluster, NobodyLeaves
<1>4. Former' = alive /\ OldOwner' = NewOwner /\ Base' = Top /\ Top' = FirstVersion + round /\ Top <= Top'
      /\ round' > 0
  <2>1. Former' = alive
    BY <1>1, <1>2 DEF Former, Members, WorkersBefore
  <2>2. OldOwner' = NewOwner
    BY <1>2, <2>1 DEF OldOwner, NewOwner
  <2> QED BY <1>1, <1>2, <2>1, <2>2 DEF Base, Top
<1> HIDE DEF all
<1>5. ASSUME NEW w \in alive' PROVE w \in Workers /\ (w \in alive \/ (w \in joining /\ w \notin alive)) /\ Untold(w)'
  <2>1. w \in Workers /\ (w \in alive \/ (w \in joining /\ w \notin alive))
    BY <1>1, <1>3, <1>5 DEF all
  <2>2. delivered[w] <= round /\ delivered[w] \in Int
    BY <2>1, ScalesType DEF RescaleCore, DeliveredBehind, TypeOK, EnvTypeOK
  <2> QED BY <1>1, <1>2, <2>1, <2>2 DEF Untold
<1>6. AllDone
  BY <1>1, RescaleDoneIsAllDone
<1>7. ASSUME NEW w \in Workers PROVE mode[w] = "Normal" /\ collecting[w] = NoKey /\ buffered[w] = <<>>
  <2>1. mode[w] = "Normal"
    BY <1>6 DEF AllDone, Done, RescaleCore, GoneIsNormal
  <2> QED BY <2>1 DEF Cluster, CollectsForOthers
<1>8. ASSUME NEW w \in alive
      PROVE  /\ ~Untold(w) /\ newSet[w] = alive /\ oldSet[w] = alive /\ version[w] = Top /\ whitelist[w] = {}
             /\ ~HasKind(out[w], "Collect") /\ ~HasKind(out[w], "Interrogate")
             /\ \A key \in Keys : /\ HasData(out[w], key) \/ opState[w][key] # {} => NewOwner[key] = w
                                  /\ ~HasState(out[w], key)
             /\ newSet'[w] = newSet[w] /\ oldSet'[w] = oldSet[w] /\ delivered'[w] = delivered[w]
  <2>1. WorkerOK(w) /\ QueueOK(w) /\ Done(w) /\ mode[w] = "Normal" /\ w \in Workers
    BY <1>2, <1>6, <1>7 DEF Migration, AllDone
  <2>2. ~Untold(w) /\ ~HasKind(out[w], "Rescale")
    BY <2>1 DEF Done
  <2>3. newSet[w] = alive /\ oldSet[w] = alive /\ version[w] = Top
    BY <1>2, <2>1, <2>2 DEF WorkerOK, Config
  <2>4. whitelist[w] = {} /\ ~HasKind(out[w], "Collect") /\ ~HasKind(out[w], "Interrogate")
    BY <2>1 DEF WorkerOK, KeysToCollect, Collects, Interrogates
  <2>5. ASSUME NEW key \in Keys, HasData(out[w], key) \/ opState[w][key] # {} PROVE NewOwner[key] = w
    <3>1. Serves(w, key)
      BY <2>1, <2>5 DEF QueueOK
    <3>2. OldOwner[key] = w => ~Holds(key)
      BY <2>1, <2>2 DEF Holds
    <3> QED BY <3>1, <3>2 DEF Serves, MovesTo
  <2>6. ASSUME NEW key \in Keys, HasState(out[w], key) PROVE FALSE
    <3>1. MovesTo(w, key) /\ Open(out[w])
      BY <2>1, <2>2, <2>6, NothingThere DEF QueueOK
    <3>2. round > 0
      BY <1>2, <3>1, Owners
    <3> QED BY <2>1, <2>2, <3>1, <3>2 DEF WorkerOK, Closing
  <2>7. newSet'[w] = newSet[w] /\ oldSet'[w] = oldSet[w] /\ delivered'[w] = delivered[w]
    BY <1>1, <2>1
  <2> QED BY <2>2, <2>3, <2>4, <2>5, <2>6, <2>7
<1>9. ASSUME NEW w \in Workers \ alive
      PROVE  /\ version[w] = 0 /\ out[w] = <<>> /\ whitelist[w] = {} /\ \A key \in Keys : opState[w][key] = {}
  BY DEF Migration, Pristine, Cluster, CollectsForOthers
<1>10. Pristine'
  BY <1>1, <1>2 DEF Migration, Pristine
<1>11. ASSUME NEW w \in alive' PROVE WorkerOK(w)' /\ QueueOK(w)'
  <2>1. w \in Workers /\ mode'[w] = "Normal" /\ collecting'[w] = NoKey /\ buffered'[w] = <<>> /\ Untold(w)'
    BY <1>1, <1>5, <1>7
  <2>2. CASE w \in alive
    <3>1. Config(w)'
      BY <1>1, <1>4, <1>8, <2>1, <2>2 DEF Config
    <3>2. Closing(w)'
      BY <2>1 DEF Closing
    <3>3. KeysToCollect(w)'
      <4>1. whitelist'[w] = {} /\ DOMAIN buffered'[w] = {}
        BY <1>1, <1>8, <2>1, <2>2
      <4> QED BY <2>1, <4>1, NoKeyAssumption DEF KeysToCollect
    <3>4. Collects(w)' /\ Interrogates(w)'
      <4>1. ~HasKind(out'[w], "Collect") /\ ~HasKind(out'[w], "Interrogate")
        BY <1>1, <1>8, <2>2
      <4> QED BY <2>1, <4>1, NothingThere DEF Collects, Interrogates
    <3>5. QueueOK(w)'
      <4>1. ASSUME NEW key \in Keys
            PROVE  /\ HasData(out[w], key) \/ opState[w][key] # {} => Serves(w, key)'
                   /\ ~HasState(out[w], key) /\ StateFirst(out[w], key)
        <5>1. NewOwner[key] = w => Serves(w, key)'
          BY <1>4, <2>1 DEF Serves, Holds
        <5> QED BY <1>8, <2>2, <5>1, NothingThere
      <4> QED BY <1>1, <4>1 DEF QueueOK
    <3> QED BY <3>1, <3>2, <3>3, <3>4, <3>5 DEF WorkerOK
  <2>3. CASE w \in joining /\ w \notin alive
    <3>1. version'[w] = 0 /\ out'[w] = <<>> /\ whitelist'[w] = {} /\ (\A key \in Keys : opState'[w][key] = {})
          /\ newSet'[w] = all /\ oldSet'[w] = all
      BY <1>1, <1>9, <2>1, <2>3
    <3>2. Config(w)'
      BY <1>1, <1>3, <1>4, <2>1, <2>3, <3>1 DEF Config
    <3>3. Closing(w)'
      BY <2>1 DEF Closing
    <3>4. KeysToCollect(w)'
      BY <2>1, <3>1, NoKeyAssumption DEF KeysToCollect
    <3>5. Collects(w)' /\ Interrogates(w)'
      BY <2>1, <3>1, NothingInside DEF Collects, Interrogates
    <3>6. QueueOK(w)'
      BY <3>1, NothingInside DEF QueueOK
    <3> QED BY <3>2, <3>3, <3>4, <3>5, <3>6 DEF WorkerOK
  <2> QED BY <1>5, <2>2, <2>3
<1>12. ASSUME NEW w \in alive', NEW r \in alive' \ {w} PROVE LinkOK(r, w)'
  <2> DEFINE q == chan[<<r, w>>]
  <2>1. w \in Workers /\ r \in Workers /\ <<r, w>> \in Links /\ q \in Seq(NetworkMessage) /\ chan'[<<r, w>>] = q
    BY <1>1, <1>5 DEF Links, TypeOK, LinkTypeOK
  <2>2. lastVersion'[w][r] # Top'
    <3>1. RoundOf(Top') = round + 1 /\ Top' # NoVersion
      BY <1>2, <1>4 DEF RoundOf, NoVersion
    <3>2. delivered[r] \in Int /\ delivered[r] <= round
      BY <2>1, ScalesType DEF TypeOK, EnvTypeOK, RescaleCore, DeliveredBehind
    <3>3. ~CollectedFor(r, round + 1)
      BY <1>2, <3>2 DEF CollectedFor
    <3> QED BY <1>1, <2>1, <3>1, <3>3 DEF RescaleCore, LastVersionsAreTrue
  <2>3. /\ Clear(q, w, NewOwner) /\ UpTo(q, Top) /\ UpTo(q, Top')
        /\ w \in alive => UpTo(q, version[w])
    <3>1. CASE r \in alive /\ w \in alive
      <4>1. Clear(q, w, NewOwner)
        BY <1>6, <3>1, DoneIsClear DEF AllDone
      <4>2. UpTo(q, Top)
        BY <3>1 DEF Migration, LinkOK
      <4>3. \A n \in DOMAIN q : q[n].kind = "Data" => q[n].version \in Nat
        BY <2>1, ElementOfSeq, NetworkFields
      <4>4. UpTo(q, Top')
        <5> HIDE DEF q
        <5>1. Top \in Nat /\ Top' \in Nat /\ Top <= Top'
          BY <1>2, <1>4
        <5> QED BY <4>2, <4>3, <5>1 DEF UpTo
      <4> QED BY <1>8, <3>1, <4>1, <4>2, <4>4
    <3>2. CASE r \notin alive \/ w \notin alive
      <4>1. q = <<>>
        BY <2>1, <3>2 DEF Migration, Pristine
      <4> QED BY <4>1, NothingInside
    <3> QED BY <3>1, <3>2
  <2> HIDE DEF q
  <2>4. /\ ~HasKind(q, "Upgrade") /\ Closed(q, w, NewOwner', Top')
        /\ \A key \in Keys : /\ HasData(q, key) => NewOwner[key] = w
                             /\ ~HasState(q, key) /\ StateFirst(q, key)
    BY <2>3, NothingThere
  <2>5. \A key \in Keys : HasData(q, key) => MayCarry(r, w, key)'
    BY <1>4, <2>4 DEF MayCarry
  <2>6. round' # 0 /\ (w \in Former' => UpTo(q, version'[w]))
    BY <1>1, <1>4, <2>3
  <2> QED BY <2>1, <2>2, <2>3, <2>4, <2>5, <2>6 DEF LinkOK
<1>13. Migration'
  BY <1>10, <1>11, <1>12 DEF Migration
<1>14. ASSUME NEW key \in Keys, NEW i, i \in Held(key) PROVE i \in Held(key)'
  BY <1>1, <1>2, <1>14 DEF Held
<1> QED BY <1>13, <1>14

----------------------------------------------------------------------------
\* Every step.

LEMMA StepsAlike ==
  ASSUME TypeOK, Cluster, Migration,
         UNCHANGED <<round, alive, delivered, mode, version, oldSet, newSet, whitelist, collecting, collected,
                     buffered, remotes, lastVersion, chan, out, opState>>
  PROVE  Migration' /\ \A key \in Keys : \A i : i \in Held(key) => i \in Held(key)'
<1>1. /\ UNCHANGED <<Former, Members, OldOwner, NewOwner, Top, Base>>
      /\ \A w, key : (MovesAway(w, key)' <=> MovesAway(w, key)) /\ (MovesTo(w, key)' <=> MovesTo(w, key))
  BY SameRound
<1>2. \A w : Untold(w)' <=> Untold(w)
  BY DEF Untold
<1>3. \A key : (Holds(key)' <=> Holds(key)) /\ (Given(key)' <=> Given(key))
  BY <1>1, <1>2 DEF Holds, Given
<1>4. \A w : Done(w)' <=> Done(w)
  BY <1>2 DEF Done
<1>5. \A w : WorkerOK(w) => WorkerOK(w)'
  <2>1. \A w : Config(w) => Config(w)'
    BY <1>1, <1>2 DEF Config
  <2>2. \A w : Closing(w) => Closing(w)'
    BY <1>1, <1>2 DEF Closing
  <2>3. \A w : KeysToCollect(w) => KeysToCollect(w)'
    BY <1>1 DEF KeysToCollect
  <2>4. \A w : Collects(w) => Collects(w)'
    BY DEF Collects
  <2>5. \A w : Interrogates(w) => Interrogates(w)'
    BY <1>1 DEF Interrogates
  <2> QED BY <2>1, <2>2, <2>3, <2>4, <2>5 DEF WorkerOK
<1>6. \A w, key : Serves(w, key)' <=> Serves(w, key)
  BY <1>1, <1>3 DEF Serves
<1>7. \A r, w, key : MayCarry(r, w, key)' <=> MayCarry(r, w, key)
  BY <1>1, <1>3, <1>4 DEF MayCarry
<1>8. \A w : QueueOK(w) => QueueOK(w)'
  BY <1>1, <1>3, <1>6 DEF QueueOK
<1>9. \A r, w : LinkOK(r, w) => LinkOK(r, w)'
  BY <1>1, <1>3, <1>7 DEF LinkOK, Vacant
<1>10. Pristine => Pristine'
  BY DEF Pristine
<1>11. \A key : Held(key)' = Held(key)
  BY DEF Held
<1> QED BY <1>5, <1>8, <1>9, <1>10, <1>11 DEF Migration

LEMMA NextMigration ==
  ASSUME OnlyJoins, Quiet, TypeOK, TypeOK', RescaleInv, Cluster, Cluster', Migration, [Next]_vars
  PROVE  Migration' /\ \A key \in Keys : \A i \in Ids : i \in Held(key) => i \in Held(key)'
<1> USE DEF RescaleInv
<1>1. CASE UNCHANGED vars
  BY <1>1, StepsAlike DEF vars, routerVars, peerVars, envVars, opVars
<1>2. ASSUME NEW w \in Workers, BeginRun(w) \/ RunStep(w) \/ StatefulOp(w)
      PROVE  Migration' /\ \A key \in Keys : \A i \in Ids : i \in Held(key) => i \in Held(key)'
  <2>1. w \in alive
    <3>1. CASE BeginRun(w)
      BY <3>1 DEF BeginRun
    <3>2. CASE StatefulOp(w)
      BY <3>2 DEF StatefulOp
    <3> QED BY <1>2, <3>1, <3>2, RunningIsAlive
  <2>2. Migration' /\ Alone(w) /\ Retains(w)
    <3>1. CASE BeginRun(w)
      BY <2>1, <3>1, LocalMigration
    <3>2. CASE StatefulOp(w)
      BY <2>1, <3>2, StatefulOpMigration
    <3>3. CASE RunStep(w)
      <4>1. ~LocalSuspend(w)
        BY <2>1, LocalCluster
      <4>2. ASSUME NEW r \in Workers, ReceiveRemote(w, r) PROVE Migration' /\ Alone(w) /\ Retains(w)
        BY <2>1, <4>2, ReceiveMigration
      <4>3. CASE NoLocal(w) \/ LocalEpoch(w) \/ LocalBarrier(w)
        BY <2>1, <4>3, LocalMigration
      <4>4. CASE LocalData(w)
        BY <2>1, <4>4, LocalDataMigration
      <4>5. CASE LocalRescale(w)
        BY <2>1, <4>5, LocalRescaleMigration
      <4>6. CASE RunTail(w)
        BY <2>1, <4>6, RunTailMigration
      <4> QED BY <3>3, <4>1, <4>2, <4>3, <4>4, <4>5, <4>6 DEF RunStep, LocalControl
    <3> QED BY <1>2, <3>1, <3>2, <3>3
  <2> QED BY <2>1, <2>2, HeldStays
<1>3. CASE StartSnapshot
  BY <1>3, StepsAlike DEF StartSnapshot, routerVars, peerVars, opVars
<1>4. CASE StartRescale
  BY <1>4, StartRescaleMigration
<1>5. ~StartSuspend
  BY DEF StartSuspend, OnlyJoins
<1>6. \A w \in Workers : ~WorkerLeaves(w)
  BY NoWorkerLeaves
<1> QED BY <1>1, <1>2, <1>3, <1>4, <1>5, <1>6 DEF Next, WorkerStep

LEMMA InitMigration ==
  ASSUME Init PROVE Migration
<1>1. /\ round = 0 /\ alive = InitWorkers /\ InitWorkers \subseteq Workers
      /\ \A w \in Workers : /\ delivered[w] = 0 /\ mode[w] = "Normal" /\ version[w] = 0 /\ newSet[w] = InitWorkers
                            /\ oldSet[w] = InitWorkers /\ whitelist[w] = {} /\ collecting[w] = NoKey
                            /\ buffered[w] = <<>> /\ out[w] = <<>> /\ \A key \in Keys : opState[w][key] = {}
      /\ \A r, w \in Workers : chan[<<r, w>>] = <<>>
  BY DistributorAssumption DEF Init, Links, WorkerSets
<1>2. Former = InitWorkers /\ Members = InitWorkers /\ Top = 0
  BY <1>1 DEF Former, Members, Top
<1>3. ASSUME NEW w \in alive PROVE WorkerOK(w) /\ QueueOK(w)
  <2>1. w \in Workers /\ DOMAIN buffered[w] = {} /\ ~Untold(w)
    BY <1>1 DEF Untold
  <2>2. /\ \A kind : ~HasKind(out[w], kind)
        /\ \A key : ~HasData(out[w], key) /\ ~HasState(out[w], key) /\ StateFirst(out[w], key)
                    /\ CollectsLast(out[w], key)
    BY <1>1, <2>1, NothingInside
  <2>3. Config(w) /\ Closing(w)
    BY <1>1, <1>2, <2>1 DEF Config, Closing
  <2>4. KeysToCollect(w)
    BY <1>1, <2>1, NoKeyAssumption DEF KeysToCollect
  <2>5. Collects(w) /\ Interrogates(w)
    BY <1>1, <2>1, <2>2 DEF Collects, Interrogates
  <2>6. QueueOK(w)
    BY <1>1, <2>1, <2>2 DEF QueueOK
  <2> QED BY <2>3, <2>4, <2>5, <2>6 DEF WorkerOK
<1>4. ASSUME NEW r \in Workers, NEW w \in Workers PROVE LinkOK(r, w)
  BY <1>1, <1>4, NothingInside DEF LinkOK
<1>5. Pristine
  BY <1>1 DEF Pristine
<1> QED BY <1>1, <1>3, <1>4, <1>5 DEF Migration

----------------------------------------------------------------------------
\* The state of a key.

\* Only a data message that comes to the operator counts as consumed, and its
\* id is in the state of its key then.
LEMMA ConsumedIsHeld ==
  ASSUME TypeOK, TypeOK', [Next]_vars, NEW i \in Ids, consumed'[i] > 0, consumed[i] = 0
  PROVE  \E key \in Keys : i \in Held(key)'
<1>1. consumed' # consumed
  OBVIOUS
<1>2. PICK w \in Workers : StatefulOp(w)
  <2>1. ASSUME NEW w \in Workers, BeginRun(w) \/ RunStep(w) \/ WorkerLeaves(w) PROVE consumed' = consumed
    <3>1. CASE BeginRun(w) \/ WorkerLeaves(w)
      BY <3>1 DEF BeginRun, WorkerLeaves, histVars
    <3>2. ASSUME NEW r \in Workers, ReceiveRemote(w, r) PROVE consumed' = consumed
      BY <3>2 DEF ReceiveRemote, RemoteData, histVars
    <3>3. CASE NoLocal(w) \/ LocalData(w) \/ LocalEpoch(w)
      BY <3>3 DEF NoLocal, LocalData, LocalEpoch, histVars
    <3>4. CASE LocalControl(w)
      BY <3>4 DEF LocalControl, LocalBarrier, LocalSuspend, LocalRescale, histVars
    <3>5. CASE RunTail(w)
      BY <3>5 DEF RunTail, histVars
    <3> QED BY <2>1, <3>1, <3>2, <3>3, <3>4, <3>5 DEF RunStep
  <2>2. CASE UNCHANGED vars \/ StartRescale \/ StartSnapshot \/ StartSuspend
    BY <1>1, <2>2 DEF vars, histVars, StartRescale, StartSnapshot, StartSuspend
  <2> QED BY <1>1, <2>1, <2>2 DEF Next, WorkerStep
<1>3. w \in alive /\ alive' = alive
  BY <1>2 DEF StatefulOp, envVars
<1> DEFINE h == Head(out[w])
<1>4. h \in OperatorMessage
  BY <1>2 DEF StatefulOp, TypeOK, LinkTypeOK
<1>5. StatefulData(w, h)
  BY <1>1, <1>2 DEF StatefulOp, StatefulInterrogate, StatefulCollect, StatefulAcquire, StatefulBarrier,
     StatefulEpoch, StatefulForward, opVars
<1>6. h.kind = "Data" /\ h.data.key \in Keys /\ h.data.id \in Ids
  BY <1>4, <1>5, OperatorFields DEF StatefulData, DataMessage
<1> HIDE DEF h
<1>7. i = h.data.id
  BY <1>5, <1>6 DEF StatefulData, TypeOK, EnvTypeOK
<1>8. i \in opState'[w][h.data.key]
  BY <1>2, <1>5, <1>6, <1>7 DEF StatefulData, TypeOK, OperatorTypeOK
<1> QED BY <1>3, <1>6, <1>8 DEF Held

\* Where there is state of a key there is no other.
LEMMA OneState ==
  ASSUME OnlyJoins, TypeOK, RescaleCore, Cluster, Migration, NEW key \in Keys
  PROVE  \E x : StatePlaces(key) \subseteq {x}
<1> DEFINE Op(w)   == opState[w][key] # {}
           Col(w)  == collecting[w] = key /\ collected[w] # {}
           Net(l)  == HasState(chan[l], key)
           Que(w)  == HasState(out[w], key)
<1>1. /\ alive \subseteq Workers
      /\ \A w \in alive : WorkerOK(w) /\ QueueOK(w)
      /\ \A w \in alive : \A r \in alive \ {w} : LinkOK(r, w)
  BY Owners DEF Migration
<1>2. ASSUME NEW w \in alive, Op(w) PROVE Serves(w, key)
  BY <1>1, <1>2 DEF QueueOK
<1>3. ASSUME NEW w \in alive, Col(w)
      PROVE  OldOwner[key] = w /\ NewOwner[key] # w /\ ~Holds(key) /\ ~Given(key)
  <2>1. WorkerOK(w)
    BY <1>1
  <2>2. MovesAway(w, key) /\ key \notin whitelist[w] /\ ~HasKind(out[w], "Collect")
    BY <1>3, <2>1 DEF WorkerOK, KeysToCollect, Collects
  <2>3. mode[w] = "Collect"
    BY <1>1, <1>3, NoKeyAssumption DEF Cluster, CollectsForOthers
  <2>4. ~Untold(w)
    <3>1. delivered[w] = round
      BY <1>1, <2>3 DEF RescaleCore, MovesForLastRound
    <3>2. round \in Nat
      BY Owners
    <3> QED BY <3>1, <3>2 DEF Untold
  <2> QED BY <1>3, <2>2, <2>3, <2>4 DEF MovesAway, Holds, Given
<1>4. ASSUME NEW w \in alive, Que(w) PROVE MovesTo(w, key) /\ Given(key) /\ ~Op(w)
  BY <1>1, <1>4 DEF QueueOK
<1>5. ASSUME NEW l \in Links, Net(l)
      PROVE  \E w \in alive : /\ l = <<OldOwner[key], w>> /\ MovesTo(w, key) /\ Given(key)
                              /\ ~Op(w) /\ ~Que(w)
  <2>1. PICK r \in Workers, w \in Workers : l = <<r, w>>
    BY DEF Links
  <2>2. r \in alive /\ w \in alive /\ r # w
    BY <1>5, <2>1, NothingInside DEF Migration, Pristine
  <2>3. LinkOK(r, w)
    BY <1>1, <2>2
  <2> QED BY <1>5, <2>1, <2>2, <2>3 DEF LinkOK, Vacant
<1>6. Holds(key) => ~Given(key)
  BY DEF Holds, Given
<1>7. \A w, u \in alive : Op(w) /\ Op(u) => w = u
  BY <1>2, <1>6 DEF Serves, MovesTo
<1>8. \A w, u \in alive : Op(w) => ~Col(u)
  BY <1>2, <1>3 DEF Serves, MovesTo
<1>9. \A w, u \in alive : Op(w) /\ Que(u) => FALSE
  BY <1>2, <1>4, <1>6 DEF Serves, MovesTo
<1>10. \A w \in alive : \A l \in Links : Op(w) /\ Net(l) => FALSE
  BY <1>2, <1>5, <1>6 DEF Serves, MovesTo
<1>11. \A w, u \in alive : Col(w) /\ Col(u) => w = u
  BY <1>3
<1>12. \A w, u \in alive : Col(w) => ~Que(u)
  BY <1>3, <1>4
<1>13. \A w \in alive : \A l \in Links : Col(w) => ~Net(l)
  BY <1>3, <1>5
<1>14. \A w, u \in alive : Que(w) /\ Que(u) => w = u
  BY <1>4 DEF MovesTo
<1>15. \A w \in alive : \A l \in Links : Que(w) /\ Net(l) => FALSE
  BY <1>4, <1>5 DEF MovesTo
<1>16. \A l, e \in Links : Net(l) /\ Net(e) => l = e
  BY <1>5 DEF MovesTo
<1>17. /\ \A l \in Links : (\E n \in DOMAIN chan[l] :
             chan[l][n].kind = "Acquire" /\ chan[l][n].key = key /\ chan[l][n].state # {}) => Net(l)
       /\ \A w : (\E n \in DOMAIN out[w] :
             out[w][n].kind = "Acquire" /\ out[w][n].key = key /\ out[w][n].state # {}) => Que(w)
  BY DEF HasState, IsState
<1>18. \A x \in StatePlaces(key) :
          \/ \E w \in alive : x = <<"op", w>> /\ Op(w)
          \/ \E w \in alive : x = <<"collect", w>> /\ Col(w)
          \/ \E l \in Links : x = <<"net", l>> /\ Net(l)
          \/ \E w \in alive : x = <<"queue", w>> /\ Que(w)
  BY <1>17 DEF StatePlaces
<1> HIDE DEF Op, Col, Net, Que
<1>19. \A x, y \in StatePlaces(key) : x = y
  <2> SUFFICES ASSUME NEW x \in StatePlaces(key), NEW y \in StatePlaces(key) PROVE x = y
    OBVIOUS
  <2>1. CASE \E w \in alive : x = <<"op", w>> /\ Op(w)
    BY <1>18, <2>1, <1>7, <1>8, <1>9, <1>10
  <2>2. CASE \E w \in alive : x = <<"collect", w>> /\ Col(w)
    BY <1>18, <2>2, <1>8, <1>11, <1>12, <1>13
  <2>3. CASE \E l \in Links : x = <<"net", l>> /\ Net(l)
    BY <1>18, <2>3, <1>10, <1>13, <1>15, <1>16
  <2>4. CASE \E w \in alive : x = <<"queue", w>> /\ Que(w)
    BY <1>18, <2>4, <1>9, <1>12, <1>14, <1>15
  <2> QED BY <1>18, <2>1, <2>2, <2>3, <2>4
<1> QED
  <2>1. CASE StatePlaces(key) = {}
    BY <2>1
  <2>2. CASE \E x : x \in StatePlaces(key)
    BY <1>19, <2>2
  <2> QED BY <2>1, <2>2

----------------------------------------------------------------------------
\* Every update of a message that was consumed is in some state.
AllUpdatesHeld == \A i \in Ids : consumed[i] > 0 => \E key \in Keys : i \in Held(key)

\* The inductive invariant, with the ones before.
MigrationInv == DeliveryInv /\ Migration /\ AllUpdatesHeld

LEMMA MigrationInductive ==
  ASSUME OnlyJoins, Quiet PROVE Spec => []MigrationInv
<1>1. Init => Migration /\ AllUpdatesHeld
  <2>1. Init => Migration
    BY InitMigration
  <2>2. Init => AllUpdatesHeld
    BY DEF Init, AllUpdatesHeld
  <2> QED BY <2>1, <2>2
<1>2. DeliveryInv /\ DeliveryInv' /\ Migration /\ AllUpdatesHeld /\ [Next]_vars => Migration' /\ AllUpdatesHeld'
  <2> SUFFICES ASSUME DeliveryInv, DeliveryInv', Migration, AllUpdatesHeld, [Next]_vars PROVE Migration' /\ AllUpdatesHeld'
    OBVIOUS
  <2>1. TypeOK /\ TypeOK' /\ RescaleInv /\ Cluster /\ Cluster'
    BY DEF DeliveryInv, IInv
  <2>2. Migration' /\ \A key \in Keys : \A i \in Ids : i \in Held(key) => i \in Held(key)'
    BY <2>1, NextMigration
  <2>3. ASSUME NEW i \in Ids, consumed'[i] > 0 PROVE \E key \in Keys : i \in Held(key)'
    <3>1. CASE consumed[i] = 0
      BY <2>1, <2>3, <3>1, ConsumedIsHeld
    <3>2. CASE consumed[i] > 0
      BY <2>2, <3>2 DEF AllUpdatesHeld
    <3>3. consumed[i] \in Nat
      BY <2>1 DEF TypeOK, EnvTypeOK
    <3> QED BY <3>1, <3>2, <3>3
  <2> QED BY <2>2, <2>3 DEF AllUpdatesHeld
<1> QED
  BY <1>1, <1>2, DeliveryInductive, PTL DEF Spec, MigrationInv

\* While workers only join, and the upstreams are quiet while a reconfiguration
\* is under way, the state of a key is in one place at every moment of its way
\* from one worker to the next: in an operator, in the Collect that picks it up,
\* in the Acquire that carries it over the link or in the queue of the new
\* operator (keyed/distributed/message_router/collect.rs and
\* operators/stateful_op.rs).
THEOREM OneOwner ==
  ASSUME OnlyJoins, Quiet PROVE Spec => []OneOwnerPerKey
<1>1. MigrationInv => OneOwnerPerKey
  <2> SUFFICES ASSUME MigrationInv, NEW key \in Keys PROVE Cardinality(StatePlaces(key)) <= 1
    BY DEF OneOwnerPerKey
  <2>1. TypeOK /\ RescaleCore /\ Cluster /\ Migration
    BY DEF MigrationInv, DeliveryInv, IInv, RescaleInv
  <2>2. PICK x : StatePlaces(key) \subseteq {x}
    BY <2>1, OneState
  <2>3. StatePlaces(key) = {} \/ StatePlaces(key) = {x}
    BY <2>2
  <2>4. Cardinality({}) = 0 /\ Cardinality({x}) = 1
    BY FS_EmptySet, FS_Singleton
  <2> QED BY <2>3, <2>4
<1> QED BY <1>1, MigrationInductive, PTL

\* ... and what was folded into the state of a key is never lost: when a key
\* moves, its state goes with it, and when the Acquire replaces the state of the
\* new operator (operators/stateful_op.rs) there is nothing to replace yet.
THEOREM UpdatesKept ==
  ASSUME OnlyJoins, Quiet PROVE Spec => []NoUpdateLost
<1>1. MigrationInv => NoUpdateLost
  <2> SUFFICES ASSUME MigrationInv, NEW i \in Accepted, consumed[i] > 0 PROVE \E k \in Keys : i \in Held(k)
    BY DEF NoUpdateLost
  <2>1. i \in Ids
    BY DistributorAssumption DEF MigrationInv, DeliveryInv, IInv, TypeOK, EnvTypeOK, Accepted, Ids
  <2> QED BY <2>1 DEF MigrationInv, AllUpdatesHeld
<1> QED BY <1>1, MigrationInductive, PTL
============================================================================
