\* Saves that do not overlap, drops that may; crashes and i/o errors anywhere.
SPECIFICATION Spec
CONSTANTS
  Tasks = {t1, t2}
  Keys = {k1, k2}
  Inodes = {i1, i2}
  PersistOnDrop = TRUE
  SerialSaves = TRUE
  MaxVersion = 2
SYMMETRY Symmetry
INVARIANTS
  SnapshotIsComplete
  AcknowledgedSurvives
  FinalDropSaves
PROPERTIES
  SnapshotsAdvance
