SPECIFICATION FairSpec
CONSTANTS
  isContract = isContract
  getBalance = getBalance
  transfer = transfer
  Tokens <- MCTokens
  Files <- MCFiles
  IndexMax = 1
INVARIANTS
  TypeOK
  CallsKeepTokens
  TokensDiffer
  NoTokenUnused
  OneGeneratorPerRoutine
PROPERTY Terminates
CHECK_DEADLOCK FALSE
