------------------------------ MODULE Knockout ------------------------------
(***************************************************************************)
(* What a single elimination promises, whatever its bracket looks like:    *)
(* entrants drop out one at a time, nobody comes back, and the last one    *)
(* standing, and nobody else, is crowned.                                  *)
(***************************************************************************)
EXTENDS Naturals, FiniteSets

CONSTANT Entrants
VARIABLES alive, crowned

Init == alive \in SUBSET Entrants /\ crowned = 0

Drop(x) ==
    /\ crowned = 0
    /\ alive' = alive \ {x}
    /\ \/ Cardinality(alive') > 1 /\ crowned' = 0
       \/ alive' = {crowned'}

Next == \E x \in alive : Drop(x)

Spec == Init /\ [][Next]_<<alive, crowned>>
=============================================================================
