----------------------------- MODULE MCCustody -----------------------------
(***************************************************************************)
(* Instances of the two custody contracts for TLC.  Rates are in units of  *)
(* BPS = 10, a hundredth of the code's scale per thousandth: a fee of 5    *)
(* takes half of the pool, so that fees on pools of a few units show both  *)
(* the caps and the rounding.                                              *)
(***************************************************************************)
EXTENDS AMPSettlement, TLC

CONSTANTS p1, p2, studio, treasury, erc20

AsyncNative == [mode |-> "ASYNC_VERIFIER", verifiers |-> {studio},
                minStake |-> 0, stakeToken |-> Native, arbiter |-> Zero]
AsyncErc20  == [AsyncNative EXCEPT !.stakeToken = erc20, !.minStake = 1]
RtNative    == [AsyncNative EXCEPT !.mode = "RT_HASH_AGREE", !.verifiers = {},
                                   !.arbiter = studio]
RtErc20     == [RtNative EXCEPT !.stakeToken = erc20]

AsyncGames == {AsyncNative, AsyncErc20}
OneAsync == {AsyncErc20}
OneRt == {RtNative}
RtGames == {RtNative, RtErc20}
=============================================================================
