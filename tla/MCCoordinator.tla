--------------------------- MODULE MCCoordinator ---------------------------
(***************************************************************************)
(* Small instances of the coordinator for TLC.                             *)
(***************************************************************************)
EXTENDS Coordinator

ScaleAndSnapshot == {Scale(1), Scale(2), Snapshot}
AllRequests      == {Scale(1), Scale(2), Snapshot, Suspend}
OnlySnapshot     == {Snapshot}
============================================================================
