SPECIFICATION FairPathSpec
CONSTANTS
  h1 = h1
  NoHash = nohash
  Kinds = {"staked"}
  ReportChoices <- PlainReports
  Signer = TRUE
  ArbitratedIn = {"disputed"}
  Rulings = {"draw", "cancelled"}
  MaxArbitrations = 0
  MaxFailures = 1
  Modes = {"ASYNC_VERIFIER", "RT_HASH_AGREE"}
CHECK_DEADLOCK FALSE
INVARIANTS PaidAsRecorded 
 
