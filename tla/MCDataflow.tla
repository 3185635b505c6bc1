----------------------------- MODULE MCDataflow -----------------------------
(***************************************************************************)
(* A job with the shapes that are hard to schedule: a timestamped stream   *)
(* that is split into an on-time and a late half, and a union of the       *)
(* on-time half with a second source.                                      *)
(***************************************************************************)
EXTENDS Dataflow, TLC

GraphKind ==
  << "source", "assign_timestamps", "generate_epochs", "split",
     "map", "flatten", "sink",
     "map", "source", "stateful_map", "ttl_map", "filter", "sink" >>

GraphInputs ==
  << <<1>>, <<3>>, <<4>>, <<5>>,
     <<7>>, <<8>>, <<9>>,
     <<6>>, <<2>>, <<10, 11>>, <<12>>, <<13>>, <<14>> >>

GraphOutputs ==
  0 :> <<1, 2>> @@
  << <<3>>, <<4>>, <<5>>, <<6, 7>>,
     <<8>>, <<9>>, <<>>,
     <<10>>, <<11>>, <<12>>, <<13>>, <<14>>, <<>> >>

GraphFeed == 1 :> <<1, 2>> @@ 9 :> <<3>>

\* Record 2 is late or advances the epoch; record 3 does not get a timestamp.
GraphStamps == <<{3}, {2, 4}, {1}>>

\* The job has the shape that the theorems on epochs and on the fold are about.
ASSUME JobAssumption == LateStreamApart /\ TtlOnTime /\ OnePathToFold /\ LateStreamKept
=============================================================================
