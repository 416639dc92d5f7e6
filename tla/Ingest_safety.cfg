\* Two stream tasks, a queue of two, every fetch outcome, the resolver cancelled or
\* dropped at any await; only the stream tasks are
\* fair, and two of the liveness properties assume the resolver is too.
SPECIFICATION WedgedSpec
CONSTANTS
  pool = pool
  config = config
  admin = admin
  Accounts <- MCAccounts
  Tasks = {t1, t2}
  Resolver = resolver
  HandleResult <- MCHandleResult
  DEP_QUEUE_CAPACITY = 2
  MaxDropped = 2
INVARIANTS
  TypeOK
  ResolvedOnce
  SeenIsFetched
  NoSilentGap
PROPERTIES
  HotPathNeverBlocks
  FailureIsNotPermanent
  DrainReturns
CHECK_DEADLOCK FALSE
