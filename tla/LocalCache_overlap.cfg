\* Two tasks calling save() at once.
SPECIFICATION Spec
CONSTANTS
  Tasks = {t1, t2}
  Keys = {k1, k2}
  Inodes = {i1, i2, i3}
  PersistOnDrop = TRUE
  SerialSaves = FALSE
  MaxVersion = 1
INVARIANTS
  SnapshotIsComplete
