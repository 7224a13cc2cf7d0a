SPECIFICATION FairSpec
CONSTANTS
  p1 = p1
  p2 = p2
  studio = studio
  treasury = treasury
  erc20 = erc20
  Zero = zero
  Native = native
  Accounts = {p1, p2, studio, treasury}
  Admins = {studio}
  Players = {p1, p2}
  Deployer = treasury
  Recipients = {treasury}
  OwnerMoves = {"pause registry","pause settlement","replace settlement"}
  Tokens = {native}
  FeeOnTransfer = {}
  MatchIds = {m1}
  MaxGames = 1
  Catalog <- OneRt
  Stakes = {1}
  FeeChoices = {}
  TimeoutChoices = {1, 2}
  Transcripts = {h0, h1}
  NoTranscript = h0
  BPS = 10
  MaxStudioFeeBps = 5
  DefaultProtocolFeeBps = 1
  MaxProtocolFeeBps = 5
  MaxTotalFeeBps = 8
  MaxVerifiers = 10
  DefaultTimeout = 1
  MinTimeout = 1
  MaxTimeout = 2
  MaxTime = 6
  EarlyCreate = FALSE
INVARIANTS  AgreementBinds
PROPERTIES StakesReleased
