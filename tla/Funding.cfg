SPECIFICATION Spec
CONSTANTS
    alice = alice
    bob = bob
    relay = relay
    erc20 = erc20
    Accounts = {alice, bob, relay}
    Relayer = relay
    Zero = zero
    Native = native
    Tokens = {native, erc20}
    FeeOnTransfer = {erc20}
    BPS = 10
    MaxPlacements = 16
    MaxProtocolFeeBps = 5
    ProtocolFees = {5}
    MaxTime = 2
    MaxLaunches = 2
    Term = 1
    MaxCaptures = 2
    Scenarios <- TheScenarios
CHECK_DEADLOCK FALSE
INVARIANT CupsSolvent
 
 
INVARIANT WinnersAsEntered
