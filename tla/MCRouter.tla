------------------------------ MODULE MCRouter ------------------------------
(* Instances of Router for TLC. *)
EXTENDS Router, TLC

CONSTANTS p1, p2

\* One connector keys the radio that has the focus, one radio 1.
FocusChanOf == (p1 :> "FOCUS") @@ (p2 :> "PTT1")

\* Two applications share the CAT line of radio 1.
CatChanOf == (p1 :> "R1") @@ (p2 :> "R1")

OnePtt == [p \in {p1} |-> "PTT1"]

Symmetry == Permutations({p1, p2})
=============================================================================
