---------------------------- MODULE MCPartitions ----------------------------
(***************************************************************************)
(* Two workers and two partitions; the second worker may leave, a third    *)
(* one may join, and each takes a partition along.                         *)
(***************************************************************************)
EXTENDS Partitions

\* Part p goes to worker p if there is one, to worker 0 otherwise.
Rendezvous(p, S) == IF p \in S THEN p ELSE 0

\* The records of a partition go to the sink part of the other one, which moves
\* in the other rescale: the reader is then neither its old nor its new owner.
OtherPart(p) == 3 - p

PartLength == <<2, 1>>

Faults == [f \in Flavours |-> IF f = "stateful" THEN 2 ELSE 1]
=============================================================================
