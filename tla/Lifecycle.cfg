SPECIFICATION FairSpec
CONSTANTS
  h1 = h1
  h2 = h2
  NoHash = nohash
  Kinds = {"staked", "bot"}
  ReportChoices <- StakedReports
  Signer = TRUE
  ArbitratedIn = {"disputed"}
  Rulings = {"draw", "cancelled"}
  MaxArbitrations = 1
  MaxFailures = 1
CHECK_DEADLOCK FALSE
INVARIANTS TypeOK JobsCarryTheVerdict RatingsMirrored SettlingHasJob 
PROPERTIES VerdictStands MatchEnds VerdictReachesRelayer
