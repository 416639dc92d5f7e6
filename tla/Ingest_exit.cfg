\* The resolver's documented exit, under a fair resolver.
SPECIFICATION FairSpec
CONSTANTS
  pool = pool
  config = config
  admin = admin
  Accounts <- MCAccounts
  Tasks = {t1}
  Resolver = resolver
  HandleResult <- MCHandleResult
  DEP_QUEUE_CAPACITY = 1
  MaxDropped = 1
PROPERTIES
  ResolverExits
CHECK_DEADLOCK FALSE
