------------------------------- MODULE Totals -------------------------------
(***************************************************************************)
(* The total of a function from a finite set into Nat: the balance that    *)
(* a contract must hold to honour every entry of a mapping.  The total     *)
(* counts the unit coins <<x, 1>>, ..., <<x, f[x]>> of each entry, so it   *)
(* needs no recursion and the theorems about finite sets apply to it.      *)
(***************************************************************************)
EXTENDS Naturals, FiniteSets

Coins(f) == UNION { {x} \X (1 .. f[x]) : x \in DOMAIN f }

Total(f) == Cardinality(Coins(f))

(***************************************************************************)
(* The mapping after n more units are credited to x.                       *)
(***************************************************************************)
Plus(f, x, n) == [f EXCEPT ![x] = @ + n]
=============================================================================
