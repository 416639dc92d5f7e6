\* Three instructions of three casts; a router may forge the line of the cut. A
\* transaction ends: no deadlock check.
SPECIFICATION ESpec
CONSTANTS
  Programs = {"router", "pumpfun", "pumpswap", "damm", "dlmm", "verifier"}
  Silent = {"verifier"}
  Casts <- MCCasts
  Works <- MCWorks
  Notes <- MCNotes
  MaxInstructions = 3
  MaxHeight = 3
  MaxNotes = 2
INVARIANTS
  LogsAreOwn ParentIsCaller TruncationIsMarked AuditOkMeansWhole SoundStreamIsAttributed
  EventsAreOwn CallsSurviveTheStream NothingIsSwallowed CompletionIsOwn
CHECK_DEADLOCK FALSE
