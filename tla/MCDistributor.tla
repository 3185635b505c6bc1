--------------------------- MODULE MCDistributor ---------------------------
(***************************************************************************)
(* Small instances of the distributor for TLC.                             *)
(***************************************************************************)
EXTENDS Distributor, TLC

CONSTANTS a, b, c   \* worker ids
CONSTANTS k, l      \* keys

\* Rendezvous hashing: the owner of a key is the member of the set it ranks
\* highest, so a key moves only to a worker that joins or from one that leaves.
Ranking == (k :> <<b, c, a>>) @@ (l :> <<c, a, b>>)
Rendezvous ==
  [S \in WorkerSets |->
     [x \in Keys |-> LET i == CHOOSE i \in 1..3 : /\ Ranking[x][i] \in S
                                                  /\ \A j \in 1..(i - 1) : Ranking[x][j] \notin S
                     IN  Ranking[x][i]]]

NoScales    == <<>>
UpToTwo     == <<{a}, {a, b}>>
JoinB       == <<{a, b}>>
UpToThree   == <<{a, b, c}>>
DownToB     == <<{b}>>
============================================================================
