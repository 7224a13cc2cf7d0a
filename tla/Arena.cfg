SPECIFICATION FairSpec
CONSTANTS
  Pages <- MCPages
  Wallets <- MCWallets
  WalletOf <- MCWalletOf
  Scenarios <- MCScenarios
  MaxFetches = 2
CHECK_DEADLOCK FALSE
 
INVARIANT OneLiveMatch
 
