------------------------------ MODULE MCFunding ------------------------------
(* Scenarios of one and two launches; see Funding.cfg. *)
EXTENDS PrizeFunding

CONSTANTS alice, bob, relay, erc20

UsdInstant  == [currency |-> "USD", mode |-> "instant", wallet |-> alice, amount |-> 3,
                bps |-> <<7, 3>>, winners |-> <<alice, bob>>, players |-> 0]
UsdBracket  == [UsdInstant EXCEPT !.mode = "bracket", !.winners = <<>>, !.players = 2]
AvaxInstant == [UsdInstant EXCEPT !.currency = "AVAX", !.bps = <<10>>, !.winners = <<bob>>]
AvaxOther   == [AvaxInstant EXCEPT !.winners = <<alice>>]
AvaxBracket == [UsdBracket EXCEPT !.currency = "AVAX"]

Erc20Cup == [sponsor |-> bob, token |-> erc20, amount |-> 2, bps |-> <<10>>]

Quiet == [forms |-> <<>>, captures |-> 1, deliveries |-> 0, failures |-> 0, moves |-> 0,
          outside |-> {}]

TheScenarios ==
    \* One order, posted twice and delivered twice, with two failures.
    { [Quiet EXCEPT !.forms = <<f>>, !.captures = 2, !.deliveries = 2, !.failures = 2] :
          f \in {UsdInstant, UsdBracket} }
    \* Two launches and a failure.
    \cup { [Quiet EXCEPT !.forms = <<f, g>>, !.deliveries = 1, !.failures = 1] :
          f \in {UsdInstant, UsdBracket}, g \in {UsdInstant, AvaxBracket} }
    \* Two launches while the owner pauses, unpauses or sets the fee.
    \cup { [Quiet EXCEPT !.forms = <<UsdBracket, f>>, !.moves = 2] :
          f \in {UsdInstant, AvaxInstant} }
    \* Wallets and the contract, to the deadline and past it.
    \cup { [Quiet EXCEPT !.forms = <<AvaxInstant, f>>, !.failures = 1, !.moves = 3,
                         !.outside = {Erc20Cup}] : f \in {AvaxOther, AvaxBracket} }
=============================================================================
