CONSTANTS
  tea = tea
  kit = kit
  milk = milk
  w1 = w1
  w2 = w2
  k1 = k1
  k2 = k2
  NoKey = NoKey
  NoWorker = NoWorker
  Levels <- MCLevels
  Workers <- MCWorkers
  Keys <- MCKeys
  Opening <- MCOpening
  Lines <- MCLines
  RecipeOf = {tea}
  Requests <- AllRequests
  MaxBegun = 5
SPECIFICATION FairSpec
INVARIANTS
  TypeOK
  NoOversell
  LedgerChain
  ExactlyOnce
  RecordedResult
  NoPendingCommitted
PROPERTIES
  TransactionsEnd
  HistoryKept
  Serialisable
CHECK_DEADLOCK FALSE
