\* Two keys; on the first, four slots and two superseded observations retained:
\* eviction, holes between retained slots, every arrival order of eight
\* observations, and the refinement of the keyspace the traits promise.
SPECIFICATION Spec
CONSTANTS
  k1 = k1
  k2 = k2
  Keys <- MCKeys
  Clearers = {c1, c2}
  States = {s1, s2}
  MaxSlot = 4
  LateSlot = 1
  Slots <- MCSlots
  Depth = 2
SYMMETRY Symmetry
VIEW View
CONSTRAINT SecondKeyIsEarly
INVARIANTS
  LatestDeliveredWins
  ReadsAreNearest
PROPERTIES
  PastIsFrozen
  ImplementsSlotLog
