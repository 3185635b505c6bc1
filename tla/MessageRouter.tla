--------------------------- MODULE MessageRouter ---------------------------
(***************************************************************************)
(* The message router inside a key distributor                             *)
(* (keyed/distributed/message_router.rs and its four states): which worker *)
(* a keyed data message goes to, while the cluster is stable (Normal) and  *)
(* while it changes its set of workers (Interrogate, Collect, Finished).   *)
(*                                                                         *)
(* F(K) in the source's rules is Target[oldSet[w]][k] here, F'(K) is       *)
(* Target[newSet[w]][k].  A Normal router has one worker set: both         *)
(* variables hold it.                                                      *)
(***************************************************************************)
EXTENDS Integers, Sequences, FiniteSets

CONSTANTS
  Workers,   \* worker ids
  Keys,      \* keys of the stream
  Target,    \* the WorkerPartitioner: Target[S][k] is the worker of S that owns k
  NoKey      \* no key is being collected (Option::None)

\* The worker sets a cluster can have.
WorkerSets == (SUBSET Workers) \ {{}}

ASSUME WorkersAssumption == Workers # {} /\ IsFiniteSet(Workers)
ASSUME TargetAssumption ==
  /\ Target \in [WorkerSets -> [Keys -> Workers]]
  /\ \A S \in WorkerSets : \A k \in Keys : Target[S][k] \in S
ASSUME NoKeyAssumption == NoKey \notin Keys /\ "buffer" \notin Workers

VARIABLES
  mode,         \* mode[w]: the variant of the MessageRouter enum
  version,      \* version[w]: the configuration version the router works at
  trigger,      \* trigger[w]: version of the RescaleMessage being worked on
  oldSet,       \* oldSet[w]: workers before the rescale under way
  newSet,       \* newSet[w]: workers after it (Normal: the worker set)
  whitelist,    \* whitelist[w]: keys found by the interrogation, not yet collected
  collecting,   \* collecting[w]: the key of current_collect, or NoKey
  collected,    \* collected[w]: the state the Collect message has picked up
  buffered,     \* buffered[w]: data messages of the key being collected
  remotes,      \* remotes[w]: the other workers w is connected to
  lastVersion,  \* lastVersion[w][r]: version of r's last Upgrade
  lastAck       \* lastAck[w][r]: version of r's last AckUpgrade

routerVars == <<mode, version, trigger, oldSet, newSet, whitelist, collecting,
                collected, buffered>>
peerVars   == <<remotes, lastVersion, lastAck>>

NoVersion == -1       \* Option::None of a version; smaller than every version
Buffer    == "buffer" \* route_message returned None: the message was buffered

Modes == {"Normal", "Interrogate", "Collect", "Finished"}

OldTarget(w, k) == Target[oldSet[w]][k]
NewTarget(w, k) == Target[newSet[w]][k]

\* Mutant: every key counts as moved.
MovesAlways(w, k) == TRUE

\* A key that this reconfiguration takes from one worker to another.
Moves(w, k) == OldTarget(w, k) # NewTarget(w, k)

----------------------------------------------------------------------------
\* Rules 1.1, 1.2 and 2 of the interrogate state: the old owner serves the key.
RouteInterrogate(w, k) == OldTarget(w, k)

\* Mutant: a key that is being collected is not held back.
RouteCollectNoBuffer(w, k, sender) ==
  IF NewTarget(w, k) # w
  THEN IF k \in whitelist[w] THEN w ELSE NewTarget(w, k)
  ELSE IF OldTarget(w, k) = sender THEN w ELSE OldTarget(w, k)

\* Rules 1.1, 1.2, 2 and 3 of the collect state.
RouteCollect(w, k, sender) ==
  IF NewTarget(w, k) # w
  THEN IF k \in whitelist[w] THEN w
       ELSE IF collecting[w] = k THEN Buffer
       ELSE NewTarget(w, k)
  ELSE IF OldTarget(w, k) = sender THEN w ELSE OldTarget(w, k)

\* A finished router keeps a key that is its own under the new set once the
\* old owner has upgraded; until then the old owner gets it, unless it sent it.
RouteFinished(w, k, sender) ==
  LET old == OldTarget(w, k)
      new == NewTarget(w, k)
  IN  IF \/ new # w
         \/ old = new
         \/ old = sender
         \/ old \in remotes[w] /\ lastVersion[w][old] = version[w]
      THEN new
      ELSE old

\* The worker a message for key k goes to, or Buffer.  msgVersion is NoVersion
\* for a message of the local upstream.
RouteMessage(w, k, sender, msgVersion) ==
  CASE msgVersion > version[w]  -> w
    [] msgVersion <= version[w] /\ mode[w] = "Normal"      -> NewTarget(w, k)
    [] msgVersion <= version[w] /\ mode[w] = "Interrogate" -> RouteInterrogate(w, k)
    [] msgVersion <= version[w] /\ mode[w] = "Collect"     -> RouteCollect(w, k, sender)
    [] msgVersion <= version[w] /\ mode[w] = "Finished"    -> RouteFinished(w, k, sender)

\* Routing in the interrogate state also records a key that has to move.
Whitelisted(w, k, msgVersion) ==
  IF /\ msgVersion <= version[w] /\ mode[w] = "Interrogate"
     /\ OldTarget(w, k) = w /\ NewTarget(w, k) # w
  THEN whitelist[w] \cup {k}
  ELSE whitelist[w]
============================================================================
