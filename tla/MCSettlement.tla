---------------------------- MODULE MCSettlement ----------------------------
(* Reports for TLC: agreement and conflicting claims; see Settlement.cfg. *)
EXTENDS SettlementPath

CONSTANT h1

PlainReports == {[result |-> "win", hash |-> h1], [result |-> "loss", hash |-> h1]}
=============================================================================
