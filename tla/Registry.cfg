SPECIFICATION RegistrySpec
CONSTANTS
  p1 = p1
  p2 = p2
  erc20 = erc20
  Zero = zero
  Native = native
  Accounts = {p1, p2}
  Tokens = {native, erc20}
  FeeOnTransfer = {erc20}
  Admins = {p1}
  Players = {p1, p2}
  Recipients = {p1}
  OwnerMoves = {"pause registry", "replace settlement"}
  MatchIds = {m1}
  MaxGames = 1
  Catalog <- NativeAndErc20
  Stakes = {0, 2}
  FeeChoices = {0}
  TimeoutChoices = {1}
  BPS = 10
  MaxStudioFeeBps = 5
  MaxVerifiers = 10
  DefaultTimeout = 1
  MinTimeout = 1
  MaxTimeout = 1
  MaxTime = 3
  EarlyCreate = FALSE
INVARIANTS RegistryTypeOK Solvent
PROPERTIES CreatedMatchFinal JoinedMatchTerms
