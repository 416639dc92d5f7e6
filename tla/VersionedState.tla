--------------------------- MODULE VersionedState ---------------------------
(***************************************************************************)
(* VersionedState<T> (src/crates/storage/cache/src/versioned_map.rs): the  *)
(* current observation of one key and a bounded deque of the ones it       *)
(* superseded, newest first; and what an occupied insert and a read at a   *)
(* reference slot do with it.                                              *)
(***************************************************************************)
EXTENDS Naturals, Sequences

CONSTANTS States,  \* the decoded states an observation can carry
          Slots,   \* the slots at which observations are made
          Depth    \* VersionedStateMap.depth

ASSUME VersionedStateAssumption ==
  /\ Slots \subseteq Nat
  /\ Depth \in Nat

(* StateWithSlot<T> *)
Observation == [state : States, slot : Slots]

VersionedState == [current : Observation, history : Seq(Observation)]

NewVersionedState(obs) == [current |-> obs, history |-> << >>]

(* Mutants of PopToDepth: a bound one too low, and the deque trimmed at    *)
(* the wrong end.                                                          *)
PopEarly(hist) == IF Len(hist) >= Depth THEN SubSeq(hist, 1, Depth - 1) ELSE hist

PopFront(hist) ==
  IF Len(hist) > Depth THEN SubSeq(hist, Len(hist) - Depth + 1, Len(hist)) ELSE hist

(* Popping from the back until the deque holds at most `depth' entries. *)
PopToDepth(hist) ==
  IF Len(hist) > Depth THEN SubSeq(hist, 1, Depth) ELSE hist

(* depth = 0 skips the push altogether. *)
Push(prev, hist) ==
  IF Depth > 0 THEN PopToDepth(<<prev>> \o hist) ELSE hist

Advanced(entry, obs) ==
  [current |-> obs, history |-> Push(entry.current, entry.history)]

(* Mutants of AfterInsert: nothing is stale; the stale one goes into the   *)
(* history.                                                                *)
AfterUncheckedInsert(entry, obs) ==
  IF obs.slot = entry.current.slot
  THEN [entry EXCEPT !.current.state = obs.state]
  ELSE Advanced(entry, obs)

AfterBackfillingInsert(entry, obs) ==
  CASE obs.slot < entry.current.slot -> [entry EXCEPT !.history = Push(obs, @)]
    [] obs.slot = entry.current.slot -> [entry EXCEPT !.current.state = obs.state]
    [] obs.slot > entry.current.slot -> Advanced(entry, obs)

(* insert on an occupied entry: older rejected, same slot overwritten in   *)
(* place, newer advances.                                                  *)
AfterInsert(entry, obs) ==
  CASE obs.slot < entry.current.slot -> entry
    [] obs.slot = entry.current.slot -> [entry EXCEPT !.current.state = obs.state]
    [] obs.slot > entry.current.slot -> Advanced(entry, obs)

InsertOutcome(entry, obs) ==
  CASE obs.slot < entry.current.slot -> "Stale"
    [] obs.slot = entry.current.slot -> "UpdatedSameSlot"
    [] obs.slot > entry.current.slot -> "Advanced"

(* Mutant of Lookup: the reference slot itself excluded. *)
LookupBefore(entry, ref) ==
  IF entry.current.slot < ref
  THEN {entry.current}
  ELSE LET h == entry.history
       IN  {h[i] : i \in {j \in DOMAIN h : /\ h[j].slot < ref
                                           /\ \A n \in 1 .. (j - 1) : h[n].slot >= ref}}

(* get_at_slot: the first hit of a walk through current, then the history  *)
(* front to back.  An Option is a set of at most one element.              *)
Lookup(entry, ref) ==
  IF entry.current.slot <= ref
  THEN {entry.current}
  ELSE LET h == entry.history
       IN  {h[i] : i \in {j \in DOMAIN h : /\ h[j].slot <= ref
                                           /\ \A n \in 1 .. (j - 1) : h[n].slot > ref}}
-----------------------------------------------------------------------------
(* Everything the entry retains. *)
RetainedBy(entry) ==
  {entry.current} \cup {entry.history[i] : i \in DOMAIN entry.history}

(* Newest first: slots strictly descend from the current observation on.   *)
EntryDescends(entry) ==
  /\ \A i \in DOMAIN entry.history : entry.history[i].slot < entry.current.slot
  /\ \A i, j \in DOMAIN entry.history :
       i < j => entry.history[j].slot < entry.history[i].slot
=============================================================================
