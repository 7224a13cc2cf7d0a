----------------------------- MODULE MCRegistry -----------------------------
(***************************************************************************)
(* Instances of the registry alone, under any settlement contract that     *)
(* distributes exactly the stakes of the matches it closes.                *)
(***************************************************************************)
EXTENDS AMPRegistry, TLC

CONSTANTS p1, p2, erc20

NativeGame == [mode |-> "ASYNC_VERIFIER", verifiers |-> {},
               minStake |-> 0, stakeToken |-> Native, arbiter |-> Zero]
Erc20Game  == [NativeGame EXCEPT !.stakeToken = erc20, !.minStake = 1]

NativeAndErc20 == {NativeGame, Erc20Game}
=============================================================================
