CONSTANTS
  c1 = c1
  c2 = c2
  Caller <- MCCaller
  Participant <- MCParticipant
  Whitelist <- MCWhitelist
  Status <- MCStatus
  NWallets = 2
  MaxAttempts = 3
  MaxCalls = 3

SPECIFICATION FairSpec

INVARIANTS
  TypeOK
  RetryPolicy
  RetriesSpread

PROPERTIES
  DoReturns
  ImplementsRetryLoop
