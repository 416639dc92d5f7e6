--------------------------- MODULE MCVersionedMap ---------------------------
(* Model checking of VersionedMap: one key given everything, and a second  *)
(* one, next to it, that is only ever observed at the first slots.         *)
EXTENDS VersionedMap, TLC

CONSTANTS MaxSlot, k1, k2, LateSlot

MCKeys == {k1, k2}

MCSlots == 1 .. MaxSlot

Symmetry == Permutations(States) \cup Permutations(Clearers)

\* No step and no state property reads the last reply.
View == <<inner, doomed, delivered>>

\* Bound: the second key is not observed after LateSlot.
SecondKeyIsEarly == \A obs \in delivered[k2] : obs.slot <= LateSlot
=============================================================================
