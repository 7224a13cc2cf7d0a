SPECIFICATION Spec
CONSTANTS
  p1 = p1
  p2 = p2
  studio = studio
  treasury = treasury
  erc20 = erc20
  Zero = zero
  Native = native
  Accounts = {p1, p2, studio, treasury}
  Admins = {studio}
  Players = {p1, p2}
  Deployer = treasury
  Recipients = {studio,treasury}
  OwnerMoves = {}
  Tokens = {native, erc20}
  FeeOnTransfer = {erc20}
  MatchIds = {m1}
  MaxGames = 1
  Catalog <- OneAsync
  Stakes = {3}
  FeeChoices = {0, 5}
  TimeoutChoices = {1}
  Transcripts = {h0}
  NoTranscript = h0
  BPS = 10
  MaxStudioFeeBps = 5
  DefaultProtocolFeeBps = 1
  MaxProtocolFeeBps = 5
  MaxTotalFeeBps = 8
  MaxVerifiers = 10
  DefaultTimeout = 1
  MinTimeout = 1
  MaxTimeout = 1
  MaxTime = 3
  EarlyCreate = FALSE
INVARIANTS TypeOK FeePotStaysEmpty
PROPERTIES RegistrySpec WinnersKeepTheRest RefundsAreExact
