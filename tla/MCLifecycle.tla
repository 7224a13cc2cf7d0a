----------------------------- MODULE MCLifecycle -----------------------------
(***************************************************************************)
(* Reports for TLC: enough for agreement with and without transcripts, for *)
(* conflicting claims and for consistent claims with conflicting hashes.   *)
(***************************************************************************)
EXTENDS MatchLifecycle

CONSTANTS h1, h2

WonWithHash  == [result |-> "win", hash |-> h1]
LostWithHash == [result |-> "loss", hash |-> h1]
LostOther    == [result |-> "loss", hash |-> h2]
Lost         == [result |-> "loss", hash |-> NoHash]
Drew         == [result |-> "draw", hash |-> NoHash]

StakedReports == {WonWithHash, LostWithHash, LostOther}
FreeReports   == {WonWithHash, Lost, Drew}
=============================================================================
