SPECIFICATION Spec
CONSTANTS
  h1 = h1
  h2 = h2
  NoHash = nohash
  Kinds = {"staked"}
  ReportChoices <- StakedReports
  Signer = TRUE
  ArbitratedIn = {"disputed"}
  Rulings = {"draw", "cancelled"}
  MaxArbitrations = 0
  MaxFailures = 0
CHECK_DEADLOCK FALSE
INVARIANTS EndedMatchUncounted
