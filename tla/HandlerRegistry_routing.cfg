\* Every sequence of up to four registrations of eight kinds of handler, and
\* every account looked up after each.  Registration ends: no deadlock check.
SPECIFICATION Spec
CONSTANTS
  p1 = p1
  p2 = p2
  Programs <- MCPrograms
  Accounts <- MCAccounts
  Handlers <- MCHandlers
  DiscWidth = 2
  MaxRegistered = 4
  NoHandler = NoHandler
INVARIANTS
  LookupIsFirstClaimant
PROPERTIES
  RegistrationNeverSteals
CHECK_DEADLOCK FALSE
