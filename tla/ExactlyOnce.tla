----------------------------- MODULE ExactlyOnce -----------------------------
(***************************************************************************)
(* What a job promises for its state (README.md: "every message affects    *)
(* the state exactly once"): a record is folded into the state at most     *)
(* once, a snapshot is a copy of the state taken at one moment, and a      *)
(* restart goes back to the last copy that was committed.                  *)
(***************************************************************************)
EXTENDS Naturals

CONSTANTS Records, None

VARIABLES
  applied,   \* applied[r]: how often record r counts in the state
  copy,      \* the copy that a snapshot under way has taken, or None
  saved      \* the last committed copy

vars == <<applied, copy, saved>>

Nothing == [r \in Records |-> 0]

Init == applied = Nothing /\ copy = None /\ saved = Nothing

Apply(r) ==
  /\ applied[r] = 0
  /\ applied' = [applied EXCEPT ![r] = 1]
  /\ UNCHANGED <<copy, saved>>

Copy == copy = None /\ copy' = applied /\ UNCHANGED <<applied, saved>>

Commit == copy # None /\ saved' = copy /\ UNCHANGED <<applied, copy>>

\* A copy is dropped when the next snapshot begins.
Discard == copy' = None /\ UNCHANGED <<applied, saved>>

Recover == applied' = saved /\ copy' = None /\ UNCHANGED saved

Next == (\E r \in Records : Apply(r)) \/ Copy \/ Commit \/ Discard \/ Recover

Spec == Init /\ [][Next]_vars
==============================================================================
