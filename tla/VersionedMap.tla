---------------------------- MODULE VersionedMap ----------------------------
(***************************************************************************)
(* VersionedStateMap<K, T> (src/crates/storage/cache/src/versioned_map.rs):*)
(* the primitive every keyed field of the cache is built on.  An entry is  *)
(* the current observation of a key and a bounded deque of the ones it     *)
(* superseded, newest first.                                               *)
(*                                                                         *)
(* Each operation but clear takes one DashMap shard lock for its whole     *)
(* body, so each is one action here; any number of threads may call any of *)
(* them, with observations arriving in any slot order.  DashMap::clear     *)
(* takes the lock of one shard after the other, so that the calls of other *)
(* threads, other clears included, come between the shards it empties.     *)
(*                                                                         *)
(* `delivered' is a history variable: every observation handed to insert   *)
(* for a key since that key was last removed, accepted or not.             *)
(***************************************************************************)
EXTENDS VersionedState

CONSTANTS Keys,     \* the keys of the map (account addresses)
          Clearers  \* threads that may be inside clear()

VARIABLES inner,      \* partial function from Keys: the entries of the DashMap
          reply,      \* what the last call returned
          doomed,     \* per running clear(): the keys it has still to empty
          delivered   \* history: what insert was given, per key

vars == <<inner, reply, doomed, delivered>>

None == {}

Outcomes == {"Inserted", "UpdatedSameSlot", "Advanced", "Stale"}

Reply == [outcome : Outcomes \cup {"-"}, found : SUBSET Observation]

Returned(found) == [outcome |-> "-", found |-> found]

Reported(outcome) == [outcome |-> outcome, found |-> None]

(* The map with k bound to entry, and the map without the keys of S. *)
Bind(k, entry) ==
  [x \in DOMAIN inner \cup {k} |-> IF x = k THEN entry ELSE inner[x]]

Unbind(S) == [x \in DOMAIN inner \ S |-> inner[x]]
-----------------------------------------------------------------------------
Deliver(k, obs) == delivered' = [delivered EXCEPT ![k] = @ \cup {obs}]

Forget(S) == delivered' = [k \in Keys |-> IF k \in S THEN {} ELSE delivered[k]]

InsertVacant(k, obs) ==
  /\ k \notin DOMAIN inner
  /\ inner' = Bind(k, NewVersionedState(obs))
  /\ reply' = Reported("Inserted")

InsertOccupied(k, obs) ==
  /\ k \in DOMAIN inner
  /\ inner' = Bind(k, AfterInsert(inner[k], obs))
  /\ reply' = Reported(InsertOutcome(inner[k], obs))

Insert(k, obs) ==
  /\ InsertVacant(k, obs) \/ InsertOccupied(k, obs)
  /\ Deliver(k, obs)
  /\ UNCHANGED doomed

(* get and get_with_slot: the current observation. *)
CurrentOf(k) == IF k \in DOMAIN inner THEN {inner[k].current} ELSE None

GetWithSlot(k) ==
  /\ reply' = Returned(CurrentOf(k))
  /\ UNCHANGED <<inner, doomed, delivered>>

(* get_at_slot and get_at_slot_with_slot. *)
ObservedAt(k, ref) == IF k \in DOMAIN inner THEN Lookup(inner[k], ref) ELSE None

GetAtSlot(k, ref) ==
  /\ reply' = Returned(ObservedAt(k, ref))
  /\ UNCHANGED <<inner, doomed, delivered>>

Remove(k) ==
  /\ reply' = Returned(CurrentOf(k))
  /\ inner' = Unbind({k})
  /\ Forget({k})
  /\ UNCHANGED doomed

(* clear: every shard is still to be visited.                              *)
BeginClear(c) ==
  /\ c \notin DOMAIN doomed
  /\ doomed' = [x \in DOMAIN doomed \cup {c} |-> IF x = c THEN Keys ELSE doomed[x]]
  /\ UNCHANGED <<inner, reply, delivered>>

(* One shard is emptied under its lock: whatever keys hash to it.          *)
ClearShard(c, shard) ==
  /\ inner' = Unbind(shard)
  /\ doomed' = [doomed EXCEPT ![c] = @ \ shard]
  /\ Forget(shard)
  /\ UNCHANGED reply

EndClear(c) ==
  /\ doomed[c] = {}
  /\ doomed' = [x \in DOMAIN doomed \ {c} |-> doomed[x]]
  /\ reply' = Returned(None)
  /\ UNCHANGED <<inner, delivered>>

Clear ==
  \/ \E c \in Clearers : BeginClear(c)
  \/ \E c \in DOMAIN doomed :
       \/ \E shard \in (SUBSET doomed[c]) \ {{}} : ClearShard(c, shard)
       \/ EndClear(c)

Init ==
  /\ inner = [k \in {} |-> NewVersionedState(k)]
  /\ reply = Returned(None)
  /\ doomed = [c \in {} |-> {}]
  /\ delivered = [k \in Keys |-> {}]

Next ==
  \/ \E k \in Keys, obs \in Observation : Insert(k, obs)
  \/ \E k \in Keys : GetWithSlot(k) \/ Remove(k)
  \/ \E k \in Keys, ref \in Slots : GetAtSlot(k, ref)
  \/ Clear

Spec == Init /\ [][Next]_vars
-----------------------------------------------------------------------------
(* versioned_map.rs: an entry holds well-formed observations, its history  *)
(* never exceeds the configured depth, and insert / get answer in the      *)
(* shapes their signatures name.                                           *)
TypeOK ==
  /\ DOMAIN inner \subseteq Keys
  /\ \A k \in DOMAIN inner : /\ inner[k] \in VersionedState
                             /\ Len(inner[k].history) <= Depth
  /\ reply \in Reply
  /\ DOMAIN doomed \subseteq Clearers
  /\ \A c \in DOMAIN doomed : doomed[c] \subseteq Keys
  /\ delivered \in [Keys -> SUBSET Observation]

(* Newest-first (versioned_map.rs:30): reading an entry from the current   *)
(* observation through its history, slots strictly descend, whatever the   *)
(* order in which insert was called.  get_at_slot's "first hit" is right   *)
(* only because of this.                                                   *)
HistoryDescends == \A k \in DOMAIN inner : EntryDescends(inner[k])

(* "Arrival order can't corrupt the cache - a later slot wins"             *)
(* (src/crates/storage/cache/README.md): a key is bound exactly when       *)
(* something was delivered for it, its current slot is the highest slot    *)
(* ever delivered, and no retained pairing of a state with a slot was made *)
(* up by the map (insert replaces state and slot in separate statements).  *)
LatestDeliveredWins ==
  \A k \in Keys :
    /\ k \in DOMAIN inner <=> delivered[k] # {}
    /\ k \in DOMAIN inner =>
         /\ \A o \in delivered[k] : o.slot <= inner[k].current.slot
         /\ inner[k].current \in delivered[k]
         /\ \A i \in DOMAIN inner[k].history : inner[k].history[i] \in delivered[k]

(* get_at_slot (versioned_map.rs:132-136): the answer is the most recent   *)
(* retained observation at or before the reference slot, and None only if  *)
(* every retained observation is newer.                                    *)
ReadsAreNearest ==
  \A k \in DOMAIN inner, ref \in Slots :
    LET eligible == {o \in RetainedBy(inner[k]) : o.slot <= ref}
    IN  ObservedAt(k, ref) = {o \in eligible : \A p \in eligible : p.slot <= o.slot}

(* No write changes the past (versioned_map.rs:98-116): as long as a key   *)
(* stays bound, its current slot does not go back, and what a reader was   *)
(* told about a slot below the current one it is told again, until the     *)
(* observation has aged out of the history.                                *)
PastIsFrozen ==
  [][\A k \in DOMAIN inner \cap DOMAIN inner' :
       /\ inner'[k].current.slot >= inner[k].current.slot
       /\ \A ref \in Slots :
            ref < inner[k].current.slot =>
              ObservedAt(k, ref)' \subseteq ObservedAt(k, ref)]_vars

(* The map implements the keyspace the storage traits promise: the entry   *)
(* of a key stands for the set of observations it retains.  clear is the   *)
(* weak one: it empties every key at some moment of the call, and what is  *)
(* inserted behind its back stays.                                         *)
Keyspace ==
  INSTANCE SlotLog WITH
    log <- [k \in Keys |-> IF k \in DOMAIN inner THEN RetainedBy(inner[k]) ELSE {}]

ImplementsSlotLog == Keyspace!Spec
=============================================================================
