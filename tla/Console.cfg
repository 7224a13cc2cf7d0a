SPECIFICATION Spec
CONSTANTS
    Seeds <- ThreePlayers
    Placements = 2
    PlayOutcomes = {"B", "Draw"}
    MaxReports = 3
    MaxRulings = 1
    MaxFinalizes = 2
    MaxCrashes = 1
CHECK_DEADLOCK FALSE
INVARIANT DocumentReplays
INVARIANT ResultBacked
INVARIANT ReportsAccounted
INVARIANT PaidWasWon
