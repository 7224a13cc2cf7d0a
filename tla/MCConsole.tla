------------------------------ MODULE MCConsole ------------------------------
(* Three entrants; see Console.cfg. *)
EXTENDS BracketConsole

ThreePlayers == <<2, 1, 3>>
=============================================================================
