SPECIFICATION Spec
CONSTANT Draws <- MCDraws
CHECK_DEADLOCK FALSE
INVARIANT ReplayOrderFree
INVARIANT RelayerAgrees
INVARIANT BeatenBelow
INVARIANT PairsOnce
INVARIANT Playable
PROPERTY ImplementsKnockout
