------------------------- MODULE VersionedMapProofs -------------------------
(***************************************************************************)
(* Proofs about VersionedMap for every keyspace, every set of slots and    *)
(* every history depth: first of one occupied entry, about insert and      *)
(* get_at_slot, then of the map, and last that the map implements SlotLog. *)
(***************************************************************************)
EXTENDS VersionedMap, FiniteSetTheorems, FunctionTheorems, TLAPS

-----------------------------------------------------------------------------
(* One entry. *)

(* Slots are naturals. *)
LEMMA SlotOfObservation == \A o \in Observation : o.slot \in Nat
  BY VersionedStateAssumption DEF Observation

(* The deque after an advance (versioned_map.rs:106-113): it is well       *)
(* formed, within the depth, and each element is the superseded current    *)
(* observation or an element of the old deque, one place further back.     *)
LEMMA PushFacts ==
  ASSUME NEW prev \in Observation, NEW hist \in Seq(Observation),
         Len(hist) <= Depth
  PROVE  /\ Push(prev, hist) \in Seq(Observation)
         /\ Len(Push(prev, hist)) <= Depth
         /\ Len(Push(prev, hist)) <= Len(hist) + 1
         /\ \A i \in 1 .. Len(Push(prev, hist)) :
              Push(prev, hist)[i] = IF i = 1 THEN prev ELSE hist[i - 1]
<1>. DEFINE longer == <<prev>> \o hist
<1>0. Depth \in Nat
  BY VersionedStateAssumption
<1>1. /\ longer \in Seq(Observation)
      /\ Len(longer) = Len(hist) + 1
      /\ \A i \in 1 .. Len(longer) : longer[i] = IF i = 1 THEN prev ELSE hist[i - 1]
  OBVIOUS
<1>2. CASE Depth = 0
  BY <1>0, <1>2 DEF Push
<1>3. CASE Depth > 0 /\ Len(longer) <= Depth
  BY <1>0, <1>1, <1>3 DEF Push, PopToDepth
<1>4. CASE Depth > 0 /\ Len(longer) > Depth
  <2>1. Push(prev, hist) = SubSeq(longer, 1, Depth)
    BY <1>4 DEF Push, PopToDepth
  <2>2. /\ SubSeq(longer, 1, Depth) \in Seq(Observation)
        /\ Len(SubSeq(longer, 1, Depth)) = Depth
        /\ \A i \in 1 .. Depth : SubSeq(longer, 1, Depth)[i] = longer[i]
    BY <1>0, <1>1, <1>4
  <2>. QED BY <1>0, <1>1, <1>4, <2>1, <2>2
<1>. QED BY <1>0, <1>1, <1>2, <1>3, <1>4

(* The three arms of insert on an occupied entry                           *)
(* (versioned_map.rs:98-116): rejected, overwritten in place, superseded.  *)
LEMMA InsertCases ==
  ASSUME NEW entry \in VersionedState, NEW obs \in Observation
  PROVE  \/ /\ obs.slot < entry.current.slot
            /\ AfterInsert(entry, obs) = entry
         \/ /\ obs.slot = entry.current.slot
            /\ AfterInsert(entry, obs) = [current |-> obs, history |-> entry.history]
         \/ /\ obs.slot > entry.current.slot
            /\ AfterInsert(entry, obs) = Advanced(entry, obs)
<1>1. /\ entry = [current |-> entry.current, history |-> entry.history]
      /\ entry.current \in Observation
      /\ entry.current = [state |-> entry.current.state, slot |-> entry.current.slot]
      /\ obs = [state |-> obs.state, slot |-> obs.slot]
      /\ entry.current.slot \in Nat
      /\ obs.slot \in Nat
  <2>1. entry.current \in Observation
    BY DEF VersionedState
  <2>. QED BY <2>1, SlotOfObservation DEF VersionedState, Observation
<1>2. CASE obs.slot < entry.current.slot
  BY <1>1, <1>2 DEF AfterInsert
<1>3. CASE obs.slot = entry.current.slot
  <2>1. AfterInsert(entry, obs) = [entry EXCEPT !.current.state = obs.state]
    BY <1>1, <1>3 DEF AfterInsert
  <2>2. [entry EXCEPT !.current.state = obs.state]
          = [current |-> [entry.current EXCEPT !.state = obs.state],
             history |-> entry.history]
    BY <1>1
  <2>3. [entry.current EXCEPT !.state = obs.state] = obs
    BY <1>1, <1>3
  <2>. QED BY <1>3, <2>1, <2>2, <2>3
<1>4. CASE obs.slot > entry.current.slot
  BY <1>1, <1>4 DEF AfterInsert
<1>. QED BY <1>1, <1>2, <1>3, <1>4

(* An insert leaves a well-formed entry within the depth, whose elements   *)
(* are its old ones and the new observation, and reports one outcome.      *)
LEMMA InsertFacts ==
  ASSUME NEW entry \in VersionedState, Len(entry.history) <= Depth,
         NEW obs \in Observation
  PROVE  /\ AfterInsert(entry, obs) \in VersionedState
         /\ Len(AfterInsert(entry, obs).history) <= Depth
         /\ RetainedBy(AfterInsert(entry, obs)) \subseteq RetainedBy(entry) \cup {obs}
         /\ AfterInsert(entry, obs).current.slot >= entry.current.slot
         /\ AfterInsert(entry, obs).current.slot >= obs.slot
         /\ InsertOutcome(entry, obs) \in {"UpdatedSameSlot", "Advanced", "Stale"}
<1>0. /\ entry.current \in Observation
      /\ entry.history \in Seq(Observation)
      /\ entry.current.slot \in Nat
      /\ obs.slot \in Nat
  <2>1. entry.current \in Observation /\ entry.history \in Seq(Observation)
    BY DEF VersionedState
  <2>. QED BY <2>1, SlotOfObservation
<1>1. InsertOutcome(entry, obs) \in {"UpdatedSameSlot", "Advanced", "Stale"}
  BY <1>0 DEF InsertOutcome
<1>2. CASE AfterInsert(entry, obs) = entry /\ obs.slot < entry.current.slot
  BY <1>0, <1>1, <1>2
<1>3. CASE /\ AfterInsert(entry, obs) = [current |-> obs, history |-> entry.history]
           /\ obs.slot = entry.current.slot
  BY <1>0, <1>1, <1>3 DEF VersionedState, RetainedBy
<1>4. CASE AfterInsert(entry, obs) = Advanced(entry, obs) /\ obs.slot > entry.current.slot
  <2>. DEFINE new == Push(entry.current, entry.history)
  <2>1. /\ new \in Seq(Observation)
        /\ Len(new) <= Depth
        /\ Len(new) <= Len(entry.history) + 1
        /\ \A i \in 1 .. Len(new) :
             new[i] = IF i = 1 THEN entry.current ELSE entry.history[i - 1]
    BY <1>0, PushFacts
  <2>2. ASSUME NEW i \in 1 .. Len(new) PROVE new[i] \in RetainedBy(entry)
    <3>1. CASE i = 1
      BY <2>1, <3>1 DEF RetainedBy
    <3>2. CASE i # 1
      <4>1. i - 1 \in 1 .. Len(entry.history)
        BY <1>0, <2>1, <3>2
      <4>2. i - 1 \in DOMAIN entry.history
        BY <1>0, <4>1
      <4>. QED BY <2>1, <3>2, <4>2 DEF RetainedBy
    <3>. QED BY <3>1, <3>2
  <2>3. DOMAIN new = 1 .. Len(new)
    BY <2>1
  <2>4. Advanced(entry, obs) = [current |-> obs, history |-> new]
    BY DEF Advanced
  <2>. HIDE DEF new
  <2>5. RetainedBy(Advanced(entry, obs)) \subseteq RetainedBy(entry) \cup {obs}
    <3>1. RetainedBy(Advanced(entry, obs)) = {obs} \cup {new[i] : i \in 1 .. Len(new)}
      BY <2>3, <2>4 DEF RetainedBy
    <3>. QED BY <2>2, <3>1
  <2>. QED BY <1>0, <1>1, <1>4, <2>1, <2>4, <2>5 DEF VersionedState
<1>. QED BY <1>2, <1>3, <1>4, InsertCases
-----------------------------------------------------------------------------
(* The order of a deque survives the push of a newer observation.          *)
LEMMA PushDescends ==
  ASSUME NEW entry \in VersionedState, Len(entry.history) <= Depth,
         EntryDescends(entry),
         NEW obs \in Observation, obs.slot > entry.current.slot
  PROVE  EntryDescends(Advanced(entry, obs))
<1>. DEFINE old == entry.history
            new == Push(entry.current, old)
<1>1. /\ entry.current \in Observation
      /\ old \in Seq(Observation)
      /\ entry.current.slot \in Nat
      /\ obs.slot \in Nat
      /\ \A i \in 1 .. Len(old) : old[i].slot \in Nat
  <2>1. entry.current \in Observation /\ old \in Seq(Observation)
    BY DEF VersionedState
  <2>2. \A i \in 1 .. Len(old) : old[i] \in Observation
    BY <2>1
  <2>. QED BY <2>1, <2>2, SlotOfObservation
<1>2. /\ new \in Seq(Observation)
      /\ Len(new) <= Len(old) + 1
      /\ \A i \in 1 .. Len(new) : new[i] = IF i = 1 THEN entry.current ELSE old[i - 1]
  BY <1>1, PushFacts
<1>3. /\ \A i \in 1 .. Len(old) : old[i].slot < entry.current.slot
      /\ \A i, j \in 1 .. Len(old) : i < j => old[j].slot < old[i].slot
  BY <1>1 DEF EntryDescends
<1>. HIDE DEF old, new
<1>4. \A i \in 1 .. Len(new) : new[i].slot < obs.slot
  <2>. SUFFICES ASSUME NEW i \in 1 .. Len(new) PROVE new[i].slot < obs.slot
    OBVIOUS
  <2>1. CASE i = 1
    BY <1>1, <1>2, <2>1
  <2>2. CASE i # 1
    <3>1. i - 1 \in 1 .. Len(old)
      BY <1>1, <1>2, <2>2
    <3>2. new[i] = old[i - 1]
      BY <1>2, <2>2
    <3>3. old[i - 1].slot \in Nat /\ old[i - 1].slot < entry.current.slot
      BY <1>1, <1>3, <3>1
    <3>. QED BY <1>1, <3>2, <3>3
  <2>. QED BY <2>1, <2>2
<1>5. \A i, j \in 1 .. Len(new) : i < j => new[j].slot < new[i].slot
  <2>. SUFFICES ASSUME NEW i \in 1 .. Len(new), NEW j \in 1 .. Len(new), i < j
                PROVE  new[j].slot < new[i].slot
    OBVIOUS
  <2>1. j - 1 \in 1 .. Len(old) /\ new[j] = old[j - 1]
    BY <1>1, <1>2
  <2>2. CASE i = 1
    BY <1>2, <1>3, <2>1, <2>2
  <2>3. CASE i # 1
    <3>1. i - 1 \in 1 .. Len(old) /\ new[i] = old[i - 1] /\ i - 1 < j - 1
      BY <1>1, <1>2, <2>3
    <3>. QED BY <1>3, <2>1, <3>1
  <2>. QED BY <2>2, <2>3
<1>6. DOMAIN new = 1 .. Len(new)
  BY <1>2
<1>. QED BY <1>4, <1>5, <1>6 DEF EntryDescends, Advanced, old, new

(* The order of an entry survives an insert of any observation.            *)
LEMMA InsertDescends ==
  ASSUME NEW entry \in VersionedState, Len(entry.history) <= Depth,
         EntryDescends(entry), NEW obs \in Observation
  PROVE  EntryDescends(AfterInsert(entry, obs))
<1>1. CASE AfterInsert(entry, obs) = entry
  BY <1>1
<1>2. CASE /\ AfterInsert(entry, obs) = [current |-> obs, history |-> entry.history]
           /\ obs.slot = entry.current.slot
  BY <1>2 DEF EntryDescends
<1>3. CASE AfterInsert(entry, obs) = Advanced(entry, obs) /\ obs.slot > entry.current.slot
  BY <1>3, PushDescends
<1>. QED BY <1>1, <1>2, <1>3, InsertCases

(* On an entry that is newest first, the first hit of the walk is the      *)
(* nearest retained observation.                                           *)
LEMMA FirstHitIsNearest ==
  ASSUME NEW entry \in VersionedState, EntryDescends(entry), NEW ref \in Nat
  PROVE  LET eligible == {o \in RetainedBy(entry) : o.slot <= ref}
         IN  Lookup(entry, ref) =
               {o \in eligible : \A p \in eligible : p.slot <= o.slot}
<1>. DEFINE h == entry.history
            eligible == {o \in RetainedBy(entry) : o.slot <= ref}
            nearest == {o \in eligible : \A p \in eligible : p.slot <= o.slot}
            First(i) == /\ h[i].slot <= ref
                        /\ \A n \in 1 .. (i - 1) : h[n].slot > ref
<1>1. /\ entry.current \in Observation
      /\ entry.current.slot \in Nat
      /\ DOMAIN h = 1 .. Len(h)
      /\ Len(h) \in Nat
      /\ \A i \in 1 .. Len(h) : h[i] \in Observation /\ h[i].slot \in Nat
  <2>1. entry.current \in Observation /\ h \in Seq(Observation)
    BY DEF VersionedState
  <2>2. /\ DOMAIN h = 1 .. Len(h)
        /\ Len(h) \in Nat
        /\ \A i \in 1 .. Len(h) : h[i] \in Observation
    BY <2>1
  <2>. QED BY <2>1, <2>2, SlotOfObservation
<1>2. /\ \A i \in 1 .. Len(h) : h[i].slot < entry.current.slot
      /\ \A i, j \in 1 .. Len(h) : i < j => h[j].slot < h[i].slot
  BY <1>1 DEF EntryDescends
<1>3. RetainedBy(entry) = {entry.current} \cup {h[i] : i \in 1 .. Len(h)}
  BY <1>1 DEF RetainedBy
<1>. HIDE DEF h
<1>4. CASE entry.current.slot <= ref
  <2>1. nearest = {entry.current}
    BY <1>1, <1>2, <1>3, <1>4
  <2>. QED BY <1>4, <2>1 DEF Lookup
<1>5. CASE ~(entry.current.slot <= ref)
  <2>1. Lookup(entry, ref) = {h[i] : i \in {j \in 1 .. Len(h) : First(j)}}
    BY <1>1, <1>5 DEF Lookup, h
  <2>2. ASSUME NEW i \in 1 .. Len(h), First(i) PROVE h[i] \in nearest
    <3>1. h[i] \in eligible
      BY <1>3, <2>2
    <3>2. ASSUME NEW p \in eligible PROVE p.slot <= h[i].slot
      <4>1. PICK j \in 1 .. Len(h) : p = h[j]
        BY <1>3, <1>5
      <4>2. ~(j < i)
        BY <1>1, <2>2, <4>1
      <4>. QED BY <1>1, <1>2, <4>1, <4>2
    <3>. QED BY <3>1, <3>2
  <2>3. ASSUME NEW o \in nearest
        PROVE  \E i \in 1 .. Len(h) : First(i) /\ o = h[i]
    <3>1. PICK i \in 1 .. Len(h) : o = h[i] /\ h[i].slot <= ref
      BY <1>3, <1>5
    <3>2. ASSUME NEW n \in 1 .. (i - 1) PROVE h[n].slot > ref
      <4>1. n \in 1 .. Len(h) /\ n < i
        BY <1>1
      <4>2. h[i].slot < h[n].slot
        BY <1>2, <4>1
      <4>3. CASE h[n].slot <= ref
        <5>1. h[n] \in eligible
          BY <1>3, <4>1, <4>3
        <5>. QED BY <1>1, <3>1, <4>1, <4>2, <5>1
      <4>. QED BY <1>1, <4>1, <4>3
    <3>. QED BY <3>1, <3>2
  <2>. QED BY <2>1, <2>2, <2>3
<1>. QED BY <1>4, <1>5
-----------------------------------------------------------------------------
(* Advancing an entry adds nothing to what it answers below its old        *)
(* current slot.                                                           *)
LEMMA PushKeepsPast ==
  ASSUME NEW entry \in VersionedState, Len(entry.history) <= Depth,
         NEW obs \in Observation, obs.slot > entry.current.slot,
         NEW ref \in Nat, ref < entry.current.slot
  PROVE  Lookup(Advanced(entry, obs), ref)
           \subseteq Lookup(entry, ref)
<1>. DEFINE old == entry.history
            new == Push(entry.current, old)
            First(h, i) == /\ h[i].slot <= ref
                           /\ \A n \in 1 .. (i - 1) : h[n].slot > ref
<1>1. /\ entry.current \in Observation
      /\ old \in Seq(Observation)
      /\ entry.current.slot \in Nat
      /\ obs.slot \in Nat
  BY SlotOfObservation DEF VersionedState
<1>2. /\ new \in Seq(Observation)
      /\ Len(new) <= Len(old) + 1
      /\ \A i \in 1 .. Len(new) : new[i] = IF i = 1 THEN entry.current ELSE old[i - 1]
  BY <1>1, PushFacts
<1>3. Lookup(entry, ref) = {old[i] : i \in {j \in 1 .. Len(old) : First(old, j)}}
  BY <1>1 DEF Lookup
<1>4. Lookup([current |-> obs, history |-> new], ref)
        = {new[i] : i \in {j \in 1 .. Len(new) : First(new, j)}}
  BY <1>1, <1>2 DEF Lookup
<1>. HIDE DEF old, new
<1>5. ASSUME NEW i \in 1 .. Len(new), First(new, i)
      PROVE  \E j \in 1 .. Len(old) : First(old, j) /\ new[i] = old[j]
  <2>1. i # 1
    BY <1>1, <1>2, <1>5
  <2>2. i - 1 \in 1 .. Len(old) /\ new[i] = old[i - 1]
    BY <1>1, <1>2, <2>1
  <2>3. ASSUME NEW n \in 1 .. (i - 2) PROVE old[n].slot > ref
    <3>1. n + 1 \in 1 .. (i - 1) /\ n + 1 \in 1 .. Len(new) /\ n + 1 # 1
      BY <1>1, <1>2, <2>2
    <3>2. new[n + 1] = old[(n + 1) - 1]
      BY <1>2, <3>1
    <3>3. (n + 1) - 1 = n
      OBVIOUS
    <3>. QED BY <1>5, <3>1, <3>2, <3>3
  <2>4. (i - 1) - 1 = i - 2
    BY <1>1, <1>2
  <2>. QED BY <1>5, <2>2, <2>3, <2>4
<1>. QED BY <1>3, <1>4, <1>5 DEF Advanced, new, old

(* An insert adds nothing to what an entry answers below its current slot. *)
LEMMA InsertKeepsPast ==
  ASSUME NEW entry \in VersionedState, Len(entry.history) <= Depth,
         NEW obs \in Observation,
         NEW ref \in Nat, ref < entry.current.slot
  PROVE  Lookup(AfterInsert(entry, obs), ref) \subseteq Lookup(entry, ref)
<1>1. CASE AfterInsert(entry, obs) = entry
  BY <1>1
<1>2. CASE /\ AfterInsert(entry, obs) = [current |-> obs, history |-> entry.history]
           /\ obs.slot = entry.current.slot
  <2>1. entry.current.slot \in Nat
    BY SlotOfObservation DEF VersionedState
  <2>2. ~(entry.current.slot <= ref) /\ ~(obs.slot <= ref)
    BY <1>2, <2>1
  <2>. QED BY <1>2, <2>2 DEF Lookup
<1>3. CASE AfterInsert(entry, obs) = Advanced(entry, obs) /\ obs.slot > entry.current.slot
  BY <1>3, PushKeepsPast
<1>. QED BY <1>1, <1>2, <1>3, InsertCases

(* An insert adds nothing to what an entry answers below the new           *)
(* observation's slot: it lands in front of the walk, or nowhere.          *)
LEMMA InsertKeepsAnswers ==
  ASSUME NEW entry \in VersionedState, Len(entry.history) <= Depth,
         NEW obs \in Observation,
         NEW ref \in Nat, ref < obs.slot
  PROVE  Lookup(AfterInsert(entry, obs), ref) \subseteq Lookup(entry, ref)
<1>1. /\ entry.current \in Observation
      /\ entry.history \in Seq(Observation)
      /\ entry.current.slot \in Nat
      /\ obs.slot \in Nat
  BY SlotOfObservation DEF VersionedState
<1>2. CASE ref < entry.current.slot
  BY <1>2, InsertKeepsPast
<1>3. CASE entry.current.slot <= ref
  <2>. DEFINE new == Push(entry.current, entry.history)
  <2>1. AfterInsert(entry, obs) = [current |-> obs, history |-> new]
    BY <1>1, <1>3, InsertCases DEF Advanced
  <2>2. /\ new \in Seq(Observation)
        /\ \A i \in 1 .. Len(new) :
             new[i] = IF i = 1 THEN entry.current ELSE entry.history[i - 1]
    BY <1>1, PushFacts
  <2>. HIDE DEF new
  <2>3. Lookup([current |-> obs, history |-> new], ref)
          = {new[i] : i \in {j \in 1 .. Len(new) :
                                /\ new[j].slot <= ref
                                /\ \A n \in 1 .. (j - 1) : new[n].slot > ref}}
    BY <1>1, <2>2 DEF Lookup
  <2>4. ASSUME NEW i \in 1 .. Len(new), \A n \in 1 .. (i - 1) : new[n].slot > ref
        PROVE  new[i] = entry.current
    <3>1. CASE i = 1
      BY <2>2, <3>1
    <3>2. CASE i # 1
      <4>1. 1 \in 1 .. (i - 1) /\ 1 \in 1 .. Len(new)
        BY <2>2, <3>2
      <4>2. new[1] = entry.current
        BY <2>2, <4>1
      <4>. QED BY <1>1, <1>3, <2>4, <4>1, <4>2
    <3>. QED BY <3>1, <3>2
  <2>5. Lookup(entry, ref) = {entry.current}
    BY <1>3 DEF Lookup
  <2>. QED BY <2>1, <2>3, <2>4, <2>5
<1>. QED BY <1>1, <1>2, <1>3

(* An observation that is not older than the current one becomes the       *)
(* current one, and the entry retains nothing but its old slots and its;   *)
(* it retains all of them while there is room.                             *)
LEMMA InsertRetains ==
  ASSUME NEW entry \in VersionedState, Len(entry.history) <= Depth,
         NEW obs \in Observation, entry.current.slot <= obs.slot
  PROVE  LET after    == AfterInsert(entry, obs)
             before   == {o.slot : o \in RetainedBy(entry)}
             retained == {o.slot : o \in RetainedBy(after)}
         IN  /\ after.current = obs
             /\ retained \subseteq before \cup {obs.slot}
             /\ Len(after.history) < Depth =>
                  /\ Len(entry.history) < Depth
                  /\ before \cup {obs.slot} \subseteq retained
<1>. DEFINE after    == AfterInsert(entry, obs)
            before   == {o.slot : o \in RetainedBy(entry)}
            retained == {o.slot : o \in RetainedBy(after)}
            old      == entry.history
<1>. SUFFICES /\ after.current = obs
              /\ retained \subseteq before \cup {obs.slot}
              /\ Len(after.history) < Depth =>
                   /\ Len(old) < Depth
                   /\ before \cup {obs.slot} \subseteq retained
  OBVIOUS
<1>1. /\ entry.current \in Observation
      /\ old \in Seq(Observation)
      /\ entry.current.slot \in Nat
      /\ obs.slot \in Nat
      /\ Depth \in Nat
      /\ DOMAIN old = 1 .. Len(old)
  <2>1. entry.current \in Observation /\ old \in Seq(Observation)
    BY DEF VersionedState
  <2>. QED BY <2>1, SlotOfObservation, VersionedStateAssumption
<1>2. retained \subseteq before \cup {obs.slot}
  BY InsertFacts
<1>3. CASE obs.slot = entry.current.slot
  <2>1. after = [current |-> obs, history |-> old]
    BY <1>1, <1>3, InsertCases
  <2>2. after.current = obs /\ after.history = old
    BY <2>1
  <2>3. before = {obs.slot} \cup {old[i].slot : i \in DOMAIN old}
    BY <1>3 DEF RetainedBy
  <2>4. retained = {obs.slot} \cup {old[i].slot : i \in DOMAIN old}
    BY <2>2 DEF RetainedBy
  <2>. QED BY <1>2, <2>2, <2>3, <2>4
<1>4. CASE obs.slot > entry.current.slot
  <2>. DEFINE new == Push(entry.current, old)
  <2>1. after = [current |-> obs, history |-> new]
    BY <1>1, <1>4, InsertCases DEF Advanced
  <2>2. after.current = obs /\ after.history = new
    BY <2>1
  <2>3. /\ new \in Seq(Observation)
        /\ \A i \in 1 .. Len(new) :
             new[i] = IF i = 1 THEN entry.current ELSE old[i - 1]
    BY <1>1, PushFacts
  <2>4. Len(new) < Depth => Len(new) = Len(old) + 1
    <3>1. Len(<<entry.current>> \o old) = Len(old) + 1
      BY <1>1
    <3>2. CASE Len(old) + 1 > Depth
      <4>1. Depth > 0 => new = SubSeq(<<entry.current>> \o old, 1, Depth)
        BY <3>1, <3>2 DEF Push, PopToDepth
      <4>2. Depth > 0 => Len(SubSeq(<<entry.current>> \o old, 1, Depth)) = Depth
        BY <1>1, <3>1, <3>2
      <4>. QED BY <1>1, <2>3, <4>1, <4>2
    <3>3. CASE ~(Len(old) + 1 > Depth)
      <4>1. Depth > 0
        BY <1>1, <3>3
      <4>. QED BY <1>1, <3>1, <3>3, <4>1 DEF Push, PopToDepth
    <3>. QED BY <3>2, <3>3
  <2>. HIDE DEF new, after
  <2>5. retained = {obs.slot} \cup {new[i].slot : i \in 1 .. Len(new)}
    BY <2>2, <2>3 DEF RetainedBy
  <2>6. before = {entry.current.slot} \cup {old[i].slot : i \in 1 .. Len(old)}
    BY <1>1 DEF RetainedBy
  <2>7. ASSUME Len(new) < Depth
        PROVE  Len(old) < Depth /\ before \cup {obs.slot} \subseteq retained
    <3>1. Len(new) = Len(old) + 1
      BY <2>4, <2>7
    <3>2. 1 \in 1 .. Len(new) /\ new[1] = entry.current
      BY <1>1, <2>3, <3>1
    <3>3. ASSUME NEW i \in 1 .. Len(old)
          PROVE  i + 1 \in 1 .. Len(new) /\ new[i + 1] = old[i]
      BY <1>1, <2>3, <3>1
    <3>4. entry.current.slot \in {new[i].slot : i \in 1 .. Len(new)}
      BY <3>2
    <3>5. ASSUME NEW i \in 1 .. Len(old)
          PROVE  old[i].slot \in {new[j].slot : j \in 1 .. Len(new)}
      BY <3>3
    <3>6. Len(old) < Depth
      BY <1>1, <2>7, <3>1
    <3>7. before \cup {obs.slot} \subseteq retained
      <4>. HIDE DEF before, retained, old
      <4>. QED BY <2>5, <2>6, <3>4, <3>5
    <3>. QED BY <3>6, <3>7
  <2>. HIDE DEF before, retained
  <2>. QED BY <1>2, <2>2, <2>7
<1>5. obs.slot = entry.current.slot \/ obs.slot > entry.current.slot
  BY <1>1
<1>. HIDE DEF after, before, retained, old
<1>. QED BY <1>3, <1>4, <1>5
-----------------------------------------------------------------------------
(* The map. *)

(* Every operation leaves well-formed entries whose history is within the  *)
(* depth, and answers in the shape its signature names.                    *)
LEMMA TypeInductive == TypeOK /\ [Next]_vars => TypeOK'
<1>. SUFFICES ASSUME TypeOK, [Next]_vars PROVE TypeOK'
  OBVIOUS
<1>. USE DEF TypeOK, Reply, Returned, Reported, None, Outcomes
<1>1. ASSUME NEW k \in Keys, NEW obs \in Observation, Insert(k, obs)
      PROVE  TypeOK'
  <2>0. delivered' \in [Keys -> SUBSET Observation]
    BY <1>1 DEF Insert, Deliver
  <2>1. CASE InsertVacant(k, obs)
    <3>1. /\ NewVersionedState(obs) \in VersionedState
          /\ Len(NewVersionedState(obs).history) <= Depth
      BY VersionedStateAssumption DEF NewVersionedState, VersionedState
    <3>. QED BY <1>1, <2>0, <2>1, <3>1 DEF Insert, InsertVacant, Bind
  <2>2. CASE InsertOccupied(k, obs)
    <3>1. /\ AfterInsert(inner[k], obs) \in VersionedState
          /\ Len(AfterInsert(inner[k], obs).history) <= Depth
          /\ InsertOutcome(inner[k], obs) \in {"UpdatedSameSlot", "Advanced", "Stale"}
      BY <2>2, InsertFacts DEF InsertOccupied
    <3>. QED BY <1>1, <2>0, <2>2, <3>1 DEF Insert, InsertOccupied, Bind
  <2>. QED BY <1>1, <2>1, <2>2 DEF Insert
<1>2. ASSUME NEW k \in Keys, GetWithSlot(k)
      PROVE  TypeOK'
  BY <1>2 DEF GetWithSlot, CurrentOf, VersionedState
<1>3. ASSUME NEW k \in Keys, Remove(k)
      PROVE  TypeOK'
  BY <1>3 DEF Remove, CurrentOf, Unbind, Forget, VersionedState
<1>4. ASSUME NEW k \in Keys, NEW ref \in Slots, GetAtSlot(k, ref)
      PROVE  TypeOK'
  <2>1. ObservedAt(k, ref) \subseteq Observation
    BY DEF ObservedAt, Lookup, VersionedState
  <2>. QED BY <1>4, <2>1 DEF GetAtSlot
<1>5. CASE Clear
  <2>1. ASSUME NEW c \in Clearers, BeginClear(c) PROVE TypeOK'
    BY <2>1 DEF BeginClear
  <2>2. ASSUME NEW c \in DOMAIN doomed, NEW shard \in SUBSET doomed[c], ClearShard(c, shard)
        PROVE  TypeOK'
    BY <2>2 DEF ClearShard, Unbind, Forget
  <2>3. ASSUME NEW c \in DOMAIN doomed, EndClear(c) PROVE TypeOK'
    BY <2>3 DEF EndClear
  <2>. QED BY <1>5, <2>1, <2>2, <2>3 DEF Clear
<1>6. CASE UNCHANGED vars
  BY <1>6 DEF vars
<1>. QED BY <1>1, <1>2, <1>3, <1>4, <1>5, <1>6 DEF Next

(* Type correctness of the map (versioned_map.rs:91-163): entries are well *)
(* formed and the history bound given to with_depth is never exceeded,     *)
(* whatever is inserted in whatever order.                                 *)
THEOREM TypeCorrect == Spec => []TypeOK
<1>1. Init => TypeOK
  BY DEF Init, TypeOK, Reply, Returned, None, Outcomes
<1>. QED BY <1>1, TypeInductive, PTL DEF Spec
-----------------------------------------------------------------------------


(* A step keeps every entry newest first.                                  *)
LEMMA HistoryInductive ==
  TypeOK /\ HistoryDescends /\ [Next]_vars => HistoryDescends'
<1>. SUFFICES ASSUME TypeOK, HistoryDescends, [Next]_vars
              PROVE  HistoryDescends'
  OBVIOUS
<1>. USE DEF HistoryDescends
<1>1. ASSUME NEW k \in Keys, NEW obs \in Observation, Insert(k, obs)
      PROVE  HistoryDescends'
  <2>1. CASE InsertVacant(k, obs)
    BY <2>1 DEF InsertVacant, Bind, NewVersionedState, EntryDescends
  <2>2. CASE InsertOccupied(k, obs)
    <3>1. EntryDescends(AfterInsert(inner[k], obs))
      BY <2>2, InsertDescends DEF InsertOccupied, TypeOK
    <3>. QED BY <2>2, <3>1 DEF InsertOccupied, Bind
  <2>. QED BY <1>1, <2>1, <2>2 DEF Insert
<1>2. ASSUME NEW k \in Keys, GetWithSlot(k)
      PROVE  HistoryDescends'
  BY <1>2 DEF GetWithSlot
<1>3. ASSUME NEW k \in Keys, Remove(k)
      PROVE  HistoryDescends'
  BY <1>3 DEF Remove, Unbind
<1>4. ASSUME NEW k \in Keys, NEW ref \in Slots, GetAtSlot(k, ref)
      PROVE  HistoryDescends'
  BY <1>4 DEF GetAtSlot
<1>5. CASE Clear
  BY <1>5 DEF Clear, BeginClear, ClearShard, EndClear, Unbind
<1>6. CASE UNCHANGED vars
  BY <1>6 DEF vars
<1>. QED BY <1>1, <1>2, <1>3, <1>4, <1>5, <1>6 DEF Next

(* Newest first, at every moment: the fact get_at_slot's first-hit walk    *)
(* (versioned_map.rs:144-153) relies on, for any depth and any arrival     *)
(* order of observations.                                                  *)
THEOREM HistoryAlwaysDescends == Spec => []HistoryDescends
<1>1. Init => HistoryDescends
  BY DEF Init, HistoryDescends
<1>. QED BY <1>1, TypeCorrect, HistoryInductive, PTL DEF Spec
-----------------------------------------------------------------------------

(* "The most recent observation at or before reference_slot"               *)
(* (versioned_map.rs:132): every read at a slot gives exactly that, out of *)
(* what the key retains.                                                   *)
THEOREM ReadsAlwaysNearest == Spec => []ReadsAreNearest
<1>1. TypeOK /\ HistoryDescends => ReadsAreNearest
  <2>. SUFFICES ASSUME TypeOK, HistoryDescends,
                       NEW k \in DOMAIN inner, NEW ref \in Slots
                PROVE  LET eligible == {o \in RetainedBy(inner[k]) : o.slot <= ref}
                       IN  ObservedAt(k, ref) =
                             {o \in eligible : \A p \in eligible : p.slot <= o.slot}
    BY DEF ReadsAreNearest
  <2>1. inner[k] \in VersionedState /\ EntryDescends(inner[k]) /\ ref \in Nat
    BY VersionedStateAssumption DEF TypeOK, HistoryDescends
  <2>. QED BY <2>1, FirstHitIsNearest DEF ObservedAt
<1>. QED BY <1>1, TypeCorrect, HistoryAlwaysDescends, PTL
-----------------------------------------------------------------------------
(* The history variable and the map move together.                         *)
LEMMA DeliveredInductive ==
  TypeOK /\ LatestDeliveredWins /\ [Next]_vars => LatestDeliveredWins'
<1>. SUFFICES ASSUME TypeOK, LatestDeliveredWins, [Next]_vars
              PROVE  LatestDeliveredWins'
  OBVIOUS
<1>. USE DEF LatestDeliveredWins
<1>1. ASSUME NEW k \in Keys, NEW obs \in Observation, Insert(k, obs)
      PROVE  LatestDeliveredWins'
  <2>0. /\ delivered'[k] = delivered[k] \cup {obs}
        /\ \A x \in Keys \ {k} : delivered'[x] = delivered[x]
    BY <1>1 DEF Insert, Deliver, TypeOK
  <2>t. \A o \in delivered'[k] : o.slot \in Nat
    BY <2>0, SlotOfObservation DEF TypeOK
  <2>1. CASE InsertVacant(k, obs)
    BY <2>0, <2>1, <2>t DEF InsertVacant, Bind, NewVersionedState
  <2>2. CASE InsertOccupied(k, obs)
    <3>. DEFINE new == AfterInsert(inner[k], obs)
    <3>1. /\ k \in DOMAIN inner
          /\ inner[k] \in VersionedState
          /\ Len(inner[k].history) <= Depth
          /\ inner[k].current.slot \in Nat
      BY <2>2, SlotOfObservation DEF InsertOccupied, TypeOK, VersionedState
    <3>2. /\ new \in VersionedState
          /\ RetainedBy(new) \subseteq RetainedBy(inner[k]) \cup {obs}
          /\ new.current.slot >= inner[k].current.slot
          /\ new.current.slot >= obs.slot
      BY <3>1, InsertFacts
    <3>3. new.current.slot \in Nat
      BY <3>2, SlotOfObservation DEF VersionedState
    <3>4. /\ DOMAIN inner' = DOMAIN inner
          /\ inner'[k] = new
          /\ \A x \in DOMAIN inner \ {k} : inner'[x] = inner[x]
      BY <2>2, <3>1 DEF InsertOccupied, Bind
    <3>. HIDE DEF new
    <3>5. \A o \in delivered'[k] : o.slot <= new.current.slot
      <4>1. \A o \in delivered[k] : o.slot <= inner[k].current.slot /\ o.slot \in Nat
        BY <2>0, <2>t, <3>1
      <4>. QED BY <2>0, <3>1, <3>2, <3>3, <4>1
    <3>6. RetainedBy(new) \subseteq delivered'[k]
      <4>1. RetainedBy(inner[k]) \subseteq delivered[k]
        BY <3>1 DEF RetainedBy
      <4>. QED BY <2>0, <3>2, <4>1
    <3>7. /\ new.current \in delivered'[k]
          /\ \A i \in DOMAIN new.history : new.history[i] \in delivered'[k]
      BY <3>6 DEF RetainedBy
    <3>. QED BY <2>0, <3>1, <3>4, <3>5, <3>7
  <2>. QED BY <1>1, <2>1, <2>2 DEF Insert
<1>2. ASSUME NEW k \in Keys, GetWithSlot(k)
      PROVE  LatestDeliveredWins'
  BY <1>2 DEF GetWithSlot
<1>3. ASSUME NEW k \in Keys, Remove(k)
      PROVE  LatestDeliveredWins'
  BY <1>3 DEF Remove, Unbind, Forget, TypeOK
<1>4. ASSUME NEW k \in Keys, NEW ref \in Slots, GetAtSlot(k, ref)
      PROVE  LatestDeliveredWins'
  BY <1>4 DEF GetAtSlot
<1>5. CASE Clear
  <2>1. CASE UNCHANGED <<inner, delivered>>
    BY <2>1
  <2>2. ASSUME NEW shard, inner' = Unbind(shard), Forget(shard)
        PROVE  LatestDeliveredWins'
    BY <2>2 DEF Unbind, Forget, TypeOK
  <2>. QED BY <1>5, <2>1, <2>2 DEF Clear, BeginClear, ClearShard, EndClear
<1>6. CASE UNCHANGED vars
  BY <1>6 DEF vars
<1>. QED BY <1>1, <1>2, <1>3, <1>4, <1>5, <1>6 DEF Next

(* "Arrival order can't corrupt the cache - a later slot wins"             *)
(* (src/crates/storage/cache/README.md), for the keyed map: the current    *)
(* observation is one that was delivered, at the highest slot delivered.   *)
THEOREM LatestAlwaysWins == Spec => []LatestDeliveredWins
<1>1. Init => LatestDeliveredWins
  BY DEF Init, LatestDeliveredWins
<1>. QED BY <1>1, TypeCorrect, DeliveredInductive, PTL DEF Spec
-----------------------------------------------------------------------------

(* One step never rewrites what readers of a bound key were told.          *)
LEMMA StepKeepsPast ==
  ASSUME TypeOK, [Next]_vars,
         NEW k \in DOMAIN inner \cap DOMAIN inner'
  PROVE  /\ inner'[k].current.slot >= inner[k].current.slot
         /\ \A ref \in Slots :
              ref < inner[k].current.slot =>
                ObservedAt(k, ref)' \subseteq ObservedAt(k, ref)
<1>. DEFINE Kept == /\ inner'[k].current.slot >= inner[k].current.slot
                    /\ \A ref \in Slots :
                         ref < inner[k].current.slot =>
                           Lookup(inner'[k], ref) \subseteq Lookup(inner[k], ref)
<1>1. /\ inner[k] \in VersionedState
      /\ Len(inner[k].history) <= Depth
      /\ inner[k].current \in Observation
      /\ inner[k].current.slot \in Nat
  BY SlotOfObservation DEF TypeOK, VersionedState
<1>2. CASE inner'[k] = inner[k]
  BY <1>1, <1>2 DEF ObservedAt
<1>3. ASSUME NEW obs \in Observation, inner'[k] = AfterInsert(inner[k], obs)
      PROVE  Kept
  <2>1. ASSUME NEW ref \in Slots, ref < inner[k].current.slot
        PROVE  Lookup(inner'[k], ref) \subseteq Lookup(inner[k], ref)
    <3>1. ref \in Nat
      BY VersionedStateAssumption
    <3>. QED BY <1>1, <1>3, <2>1, <3>1, InsertKeepsPast
  <2>. QED BY <1>1, <1>3, <2>1, InsertFacts
<1>4. \/ inner'[k] = inner[k]
      \/ \E obs \in Observation : inner'[k] = AfterInsert(inner[k], obs)
  <2>1. ASSUME NEW x \in Keys, NEW obs \in Observation, Insert(x, obs)
        PROVE  <1>4
    BY <2>1 DEF Insert, InsertVacant, InsertOccupied, Bind
  <2>2. ASSUME NEW x \in Keys, GetWithSlot(x) \/ Remove(x)
        PROVE  <1>4
    BY <2>2 DEF GetWithSlot, Remove, Unbind
  <2>3. ASSUME NEW x \in Keys, NEW ref \in Slots, GetAtSlot(x, ref)
        PROVE  <1>4
    BY <2>3 DEF GetAtSlot
  <2>4. CASE Clear
    BY <2>4 DEF Clear, BeginClear, ClearShard, EndClear, Unbind
  <2>5. CASE UNCHANGED vars
    BY <2>5 DEF vars
  <2>. QED BY <2>1, <2>2, <2>3, <2>4, <2>5 DEF Next
<1>. QED BY <1>2, <1>3, <1>4 DEF ObservedAt

(* Readers' past is stable (versioned_map.rs:98-116): between removals a   *)
(* key's current slot only grows, and an answer below it can age out but   *)
(* never turn into another answer.                                         *)
THEOREM PastAlwaysFrozen == Spec => PastIsFrozen
<1>. DEFINE Frozen ==
       \A k \in DOMAIN inner \cap DOMAIN inner' :
         /\ inner'[k].current.slot >= inner[k].current.slot
         /\ \A ref \in Slots :
              ref < inner[k].current.slot =>
                ObservedAt(k, ref)' \subseteq ObservedAt(k, ref)
<1>1. TypeOK /\ [Next]_vars => [Frozen]_vars
  BY StepKeepsPast
<1>. QED BY <1>1, TypeCorrect, PTL DEF Spec, PastIsFrozen
-----------------------------------------------------------------------------
(* The map implements SlotLog. *)

Elements(s) == {s[i] : i \in 1 .. Len(s)}

(* Newest first, without two observations of one slot.                     *)
Descends(s) == \A i, j \in 1 .. Len(s) : i < j => s[j].slot < s[i].slot

-----------------------------------------------------------------------------
(* Newer than an observation are those that come before it.                *)
LEMMA NewerComeBefore ==
  ASSUME NEW s \in Seq(Observation), Descends(s), NEW i \in 1 .. Len(s)
  PROVE  Cardinality(Keyspace!NewerThan(Elements(s), s[i].slot)) = i - 1
<1> DEFINE T == {s[j] : j \in 1 .. i - 1}
<1>0. /\ i \in Nat /\ i - 1 \in Nat /\ \A j \in 1 .. i - 1 : j \in 1 .. Len(s) /\ j < i
      /\ \A j \in 1 .. Len(s) : s[j].slot \in Nat
  <2>1. \A j \in 1 .. Len(s) : s[j] \in Observation
    OBVIOUS
  <2>. QED BY <2>1, SlotOfObservation
<1>1. Keyspace!NewerThan(Elements(s), s[i].slot) = T
  <2>1. ASSUME NEW j \in 1 .. Len(s) PROVE s[j].slot > s[i].slot <=> j \in 1 .. i - 1
    <3>1. CASE j < i
      BY <1>0, <3>1 DEF Descends
    <3>2. CASE ~(j < i)
      <4>1. s[j].slot <= s[i].slot
        <5>1. CASE j = i
          BY <1>0, <5>1
        <5>2. CASE j # i
          <6>1. i < j
            BY <1>0, <3>2, <5>2
          <6>. QED BY <1>0, <6>1 DEF Descends
        <5>. QED BY <5>1, <5>2
      <4>. QED BY <1>0, <3>2, <4>1
    <3>. QED BY <3>1, <3>2
  <2>. QED BY <1>0, <2>1 DEF Keyspace!NewerThan, Elements
<1>2. ExistsBijection(1 .. i - 1, T)
  <2> DEFINE f == [j \in 1 .. i - 1 |-> s[j]]
  <2>1. f \in [1 .. i - 1 -> T]
    OBVIOUS
  <2>2. \A a, b \in 1 .. i - 1 : f[a] = f[b] => a = b
    <3>1. ASSUME NEW a \in 1 .. i - 1, NEW b \in 1 .. i - 1, s[a] = s[b], a < b
          PROVE  FALSE
      <4>1. s[b].slot < s[a].slot /\ s[a].slot \in Nat
        BY <1>0, <3>1 DEF Descends
      <4>. QED BY <3>1, <4>1
    <3>. QED BY <1>0, <3>1
  <2>3. \A t \in T : \E j \in 1 .. i - 1 : f[j] = t
    OBVIOUS
  <2> HIDE DEF f, T
  <2>4. f \in Bijection(1 .. i - 1, T)
    BY <2>1, <2>2, <2>3, Fun_IsBij
  <2>. QED BY <2>4, Fun_ExistsBij
<1> HIDE DEF T
<1>. QED BY <1>0, <1>1, <1>2, FS_CountingElements

(* Cardinality, seen from the keyspace.                                    *)
LEMMA SameCardinality == \A S : Keyspace!Cardinality(S) = Cardinality(S)
  BY DEF Cardinality, Keyspace!Cardinality

(* So the newest Depth + 1 are the first Depth + 1.                        *)
LEMMA RetainedIsPrefix ==
  ASSUME NEW s \in Seq(Observation), Descends(s)
  PROVE  Keyspace!Retained(Elements(s)) = {s[i] : i \in {n \in 1 .. Len(s) : n <= Depth + 1}}
<1>1. \A i \in 1 .. Len(s) : Cardinality(Keyspace!NewerThan(Elements(s), s[i].slot)) = i - 1
  BY NewerComeBefore
<1>2. \A i \in 1 .. Len(s) : i - 1 <= Depth <=> i <= Depth + 1
  BY VersionedStateAssumption
<1>3. \A i \in 1 .. Len(s) :
         Cardinality(Keyspace!NewerThan(Elements(s), s[i].slot)) <= Depth <=> i <= Depth + 1
  BY <1>1, <1>2
<1> DEFINE S == Elements(s)
<1>4. Keyspace!Retained(S) = {o \in S : Cardinality(Keyspace!NewerThan(S, o.slot)) <= Depth}
  BY SameCardinality DEF Keyspace!Retained
<1>5. S = {s[i] : i \in 1 .. Len(s)}
  BY DEF Elements
<1> HIDE DEF S
<1>6. ASSUME NEW o \in Keyspace!Retained(S)
      PROVE  \E i \in 1 .. Len(s) : i <= Depth + 1 /\ s[i] = o
  <2>1. o \in S /\ Cardinality(Keyspace!NewerThan(S, o.slot)) <= Depth
    BY <1>4, <1>6
  <2>2. PICK i \in 1 .. Len(s) : s[i] = o
    BY <1>5, <2>1
  <2>. QED BY <1>3, <2>1, <2>2 DEF S
<1>7. ASSUME NEW i \in 1 .. Len(s), i <= Depth + 1 PROVE s[i] \in Keyspace!Retained(S)
  <2>1. s[i] \in S /\ Cardinality(Keyspace!NewerThan(S, s[i].slot)) <= Depth
    BY <1>3, <1>5, <1>7 DEF S
  <2>. QED BY <1>4, <2>1
<1>8. Keyspace!Retained(S) = {s[i] : i \in {n \in 1 .. Len(s) : n <= Depth + 1}}
  BY <1>6, <1>7
<1>. QED BY <1>8 DEF S

(* An entry, as one sequence.                                              *)
LEMMA EntryAsSequence ==
  ASSUME NEW entry \in VersionedState, EntryDescends(entry),
         NEW s, s = <<entry.current>> \o entry.history
  PROVE  /\ s \in Seq(Observation)
         /\ Len(s) = Len(entry.history) + 1
         /\ Len(entry.history) \in Nat
         /\ s[1] = entry.current
         /\ \A i \in 1 .. Len(entry.history) : s[i + 1] = entry.history[i]
         /\ \A i \in 2 .. Len(s) : i - 1 \in 1 .. Len(entry.history) /\ s[i] = entry.history[i - 1]
         /\ Elements(s) = RetainedBy(entry)
         /\ Descends(s)
<1> DEFINE h == entry.history
<1>1. /\ h \in Seq(Observation) /\ Len(h) \in Nat /\ DOMAIN h = 1 .. Len(h)
      /\ entry.current \in Observation
  BY DEF VersionedState
<1>2. /\ \A i \in 1 .. Len(h) : h[i].slot < entry.current.slot
      /\ \A i, j \in 1 .. Len(h) : i < j => h[j].slot < h[i].slot
      /\ RetainedBy(entry) = {entry.current} \cup {h[i] : i \in 1 .. Len(h)}
  BY <1>1 DEF EntryDescends, RetainedBy
<1> HIDE DEF h
<1>3. /\ s \in Seq(Observation) /\ Len(s) = Len(h) + 1 /\ s[1] = entry.current
      /\ \A i \in 1 .. Len(h) : s[i + 1] = h[i]
  BY <1>1 DEF h
<1>4. \A i \in 2 .. Len(s) : i - 1 \in 1 .. Len(h) /\ s[i] = h[i - 1]
  <2>1. ASSUME NEW i \in 2 .. Len(s) PROVE i - 1 \in 1 .. Len(h) /\ s[i] = h[i - 1]
    <3>1. i - 1 \in 1 .. Len(h) /\ (i - 1) + 1 = i
      BY <1>1, <1>3
    <3>. QED BY <1>3, <3>1
  <2>. QED BY <2>1
<1>5. Elements(s) = RetainedBy(entry)
  <2>1. \A i \in 1 .. Len(s) : i = 1 \/ i \in 2 .. Len(s)
    BY <1>1, <1>3
  <2>2. 1 \in 1 .. Len(s) /\ \A i \in 1 .. Len(h) : i + 1 \in 1 .. Len(s)
    BY <1>1, <1>3
  <2>3. ASSUME NEW i \in 1 .. Len(s) PROVE s[i] \in RetainedBy(entry)
    BY <1>2, <1>3, <1>4, <2>1
  <2>4. ASSUME NEW o \in RetainedBy(entry) PROVE \E i \in 1 .. Len(s) : s[i] = o
    <3>1. CASE o = entry.current
      BY <1>3, <2>2, <3>1
    <3>2. ASSUME NEW i \in 1 .. Len(h), o = h[i] PROVE \E n \in 1 .. Len(s) : s[n] = o
      BY <1>3, <2>2, <3>2
    <3>. QED BY <1>2, <2>4, <3>1, <3>2
  <2>. QED BY <2>3, <2>4 DEF Elements
<1>6. Descends(s)
  <2>1. ASSUME NEW i \in 1 .. Len(s), NEW j \in 1 .. Len(s), i < j
        PROVE  s[j].slot < s[i].slot
    <3>1. j \in 2 .. Len(s) /\ (i = 1 \/ i \in 2 .. Len(s))
      BY <1>1, <1>3, <2>1
    <3>2. j - 1 \in 1 .. Len(h) /\ s[j] = h[j - 1]
      BY <1>4, <3>1
    <3>3. CASE i = 1
      BY <1>2, <1>3, <3>2, <3>3
    <3>4. CASE i \in 2 .. Len(s)
      <4>1. i - 1 \in 1 .. Len(h) /\ s[i] = h[i - 1]
        BY <1>4, <3>4
      <4>2. i - 1 < j - 1
        BY <1>1, <1>3, <2>1
      <4>. QED BY <1>2, <3>2, <4>1, <4>2
    <3>. QED BY <3>1, <3>3, <3>4
  <2>. QED BY <2>1 DEF Descends
<1>. QED BY <1>1, <1>3, <1>4, <1>5, <1>6 DEF h

(* An entry within the depth retains all it has.                           *)
LEMMA EntryIsRetained ==
  ASSUME NEW entry \in VersionedState, EntryDescends(entry), Len(entry.history) <= Depth
  PROVE  Keyspace!Retained(RetainedBy(entry)) = RetainedBy(entry)
<1> DEFINE s == <<entry.current>> \o entry.history
<1>1. /\ s \in Seq(Observation) /\ Descends(s) /\ Elements(s) = RetainedBy(entry)
      /\ Len(s) = Len(entry.history) + 1 /\ Len(entry.history) \in Nat
  BY EntryAsSequence
<1> HIDE DEF s
<1>2. {n \in 1 .. Len(s) : n <= Depth + 1} = 1 .. Len(s)
  BY <1>1, VersionedStateAssumption
<1>. QED BY <1>1, <1>2, RetainedIsPrefix DEF Elements

(* How long the deque is after an advance.                                 *)
LEMMA PushLength ==
  ASSUME NEW prev \in Observation, NEW hist \in Seq(Observation), Len(hist) <= Depth
  PROVE  /\ Len(Push(prev, hist)) \in Nat
         /\ \A i \in 1 .. Len(hist) + 1 : i <= Depth <=> i \in 1 .. Len(Push(prev, hist))
<1> DEFINE longer == <<prev>> \o hist
<1>0. /\ Depth \in Nat /\ Len(hist) \in Nat
      /\ longer \in Seq(Observation) /\ Len(longer) = Len(hist) + 1
  BY VersionedStateAssumption
<1>1. CASE Depth = 0
  BY <1>0, <1>1 DEF Push
<1>2. CASE Depth > 0 /\ Len(longer) <= Depth
  <2>1. Push(prev, hist) = longer
    BY <1>0, <1>2 DEF Push, PopToDepth
  <2>. QED BY <1>0, <1>2, <2>1
<1>3. CASE Depth > 0 /\ Len(longer) > Depth
  <2>1. Push(prev, hist) = SubSeq(longer, 1, Depth)
    BY <1>3 DEF Push, PopToDepth
  <2>2. Len(SubSeq(longer, 1, Depth)) = Depth
    BY <1>0, <1>3
  <2>. QED BY <1>0, <1>3, <2>1, <2>2
<1>. QED BY <1>0, <1>1, <1>2, <1>3

-----------------------------------------------------------------------------
(* What an insert retains is what the keyspace retains of it, under the    *)
(* same outcome.                                                           *)
LEMMA InsertIsWritten ==
  ASSUME NEW entry \in VersionedState, EntryDescends(entry), Len(entry.history) <= Depth,
         NEW obs \in Observation
  PROVE  /\ Keyspace!Written(RetainedBy(entry), obs) = RetainedBy(AfterInsert(entry, obs))
         /\ Keyspace!OutcomeOf(RetainedBy(entry), obs.slot) = InsertOutcome(entry, obs)
<1> DEFINE R == RetainedBy(entry)
           h == entry.history
           current == entry.current
<1>0. /\ current \in Observation /\ h \in Seq(Observation) /\ Len(h) \in Nat
      /\ current.slot \in Nat /\ obs.slot \in Nat
      /\ \A i \in 1 .. Len(h) : h[i] \in Observation /\ h[i].slot \in Nat
  <2>1. current \in Observation /\ h \in Seq(Observation)
    BY DEF VersionedState
  <2>2. \A i \in 1 .. Len(h) : h[i] \in Observation
    BY <2>1
  <2>. QED BY <2>1, <2>2, SlotOfObservation
<1>1. /\ R = {current} \cup {h[i] : i \in 1 .. Len(h)}
      /\ \A i \in 1 .. Len(h) : h[i].slot < current.slot
  BY <1>0 DEF RetainedBy, EntryDescends
<1> HIDE DEF R, h, current
<1>2. /\ current \in R /\ R # {}
      /\ \A o \in R : o.slot \in Nat /\ (o = current \/ o.slot < current.slot)
  BY <1>0, <1>1
<1>3. CASE obs.slot < current.slot
  <2>1. current \in Keyspace!NewerThan(R, obs.slot)
    BY <1>0, <1>2, <1>3 DEF Keyspace!NewerThan
  <2>2. AfterInsert(entry, obs) = entry /\ InsertOutcome(entry, obs) = "Stale"
    BY <1>0, <1>3 DEF AfterInsert, InsertOutcome, current
  <2>3. Keyspace!Written(R, obs) = R
    BY <2>1 DEF Keyspace!Written
  <2>4. Keyspace!OutcomeOf(R, obs.slot) = "Stale"
    BY <1>2, <2>1 DEF Keyspace!OutcomeOf
  <2>. QED BY <2>2, <2>3, <2>4 DEF R
<1>4. CASE obs.slot = current.slot
  <2> DEFINE new == AfterInsert(entry, obs)
  <2>1. Keyspace!NewerThan(R, obs.slot) = {}
    BY <1>0, <1>2, <1>4 DEF Keyspace!NewerThan
  <2>2. InsertOutcome(entry, obs) = "UpdatedSameSlot"
    BY <1>0, <1>4 DEF InsertOutcome, current
  <2>3. Keyspace!OutcomeOf(R, obs.slot) = "UpdatedSameSlot"
    BY <1>2, <1>4, <2>1 DEF Keyspace!OutcomeOf
  <2>4. new = [current |-> obs, history |-> h]
    BY <1>0, <1>4, InsertCases DEF current, h
  <2>5. new \in VersionedState /\ EntryDescends(new) /\ Len(new.history) <= Depth
    BY InsertFacts, InsertDescends
  <2>6. RetainedBy(new) = {obs} \cup {h[i] : i \in 1 .. Len(h)}
    <3>1. DOMAIN h = 1 .. Len(h)
      BY <1>0
    <3>. QED BY <2>4, <3>1 DEF RetainedBy
  <2>7. {o \in R : o.slot # obs.slot} \cup {obs} = RetainedBy(new)
    BY <1>0, <1>1, <1>4, <2>6
  <2> HIDE DEF new
  <2>8. Keyspace!Written(R, obs) = RetainedBy(new)
    BY <2>1, <2>5, <2>7, EntryIsRetained DEF Keyspace!Written
  <2>. QED BY <2>2, <2>3, <2>8 DEF R, new
<1>5. CASE obs.slot > current.slot
  <2> DEFINE s == <<current>> \o h
             t == <<obs>> \o s
             new == Push(current, h)
  <2>1. Keyspace!NewerThan(R, obs.slot) = {}
    BY <1>0, <1>2, <1>5 DEF Keyspace!NewerThan
  <2>2. InsertOutcome(entry, obs) = "Advanced"
    BY <1>0, <1>5 DEF InsertOutcome, current
  <2>3. \A o \in R : o.slot # obs.slot
    BY <1>0, <1>2, <1>5
  <2>4. Keyspace!OutcomeOf(R, obs.slot) = "Advanced"
    BY <1>2, <2>1, <2>3 DEF Keyspace!OutcomeOf
  <2>5. /\ s \in Seq(Observation) /\ Len(s) = Len(h) + 1 /\ Elements(s) = R /\ Descends(s)
        /\ s[1] = current
        /\ \A i \in 2 .. Len(s) : i - 1 \in 1 .. Len(h) /\ s[i] = h[i - 1]
    <3>1. s = <<entry.current>> \o entry.history
      BY DEF h, current
    <3> HIDE DEF s
    <3>. QED BY <3>1, EntryAsSequence DEF h, current, R
  <2>6. /\ AfterInsert(entry, obs) = [current |-> obs, history |-> new]
        /\ new \in Seq(Observation)
        /\ Len(new) <= Len(h) + 1
        /\ \A i \in 1 .. Len(new) : new[i] = IF i = 1 THEN current ELSE h[i - 1]
        /\ Len(new) \in Nat
        /\ \A i \in 1 .. Len(h) + 1 : i <= Depth <=> i \in 1 .. Len(new)
    <3>1. Len(h) <= Depth
      BY DEF h
    <3>2. AfterInsert(entry, obs) = [current |-> obs, history |-> new]
      BY <1>0, <1>5, InsertCases DEF Advanced, current, h
    <3>. QED BY <1>0, <3>1, <3>2, PushFacts, PushLength
  <2> HIDE DEF s, new
  <2>7. /\ t \in Seq(Observation) /\ Len(t) = Len(s) + 1 /\ t[1] = obs
        /\ \A i \in 1 .. Len(s) : t[i + 1] = s[i]
    BY <2>5
  <2> HIDE DEF t
  <2>8. \A i \in 2 .. Len(t) : i - 1 \in 1 .. Len(s) /\ t[i] = s[i - 1]
    <3>1. ASSUME NEW i \in 2 .. Len(t) PROVE i - 1 \in 1 .. Len(s) /\ t[i] = s[i - 1]
      <4>1. i - 1 \in 1 .. Len(s) /\ (i - 1) + 1 = i
        BY <2>5, <2>7
      <4>. QED BY <2>7, <4>1
    <3>. QED BY <3>1
  <2>9. Elements(t) = R \cup {obs}
    <3>1. ASSUME NEW i \in 1 .. Len(t) PROVE t[i] \in R \cup {obs}
      <4>1. CASE i = 1
        BY <2>7, <4>1
      <4>2. CASE i # 1
        BY <2>5, <2>8, <4>2 DEF Elements
      <4>. QED BY <4>1, <4>2
    <3>2. ASSUME NEW o \in R \cup {obs} PROVE \E i \in 1 .. Len(t) : t[i] = o
      <4>0. 1 \in 1 .. Len(t) /\ \A i \in 1 .. Len(s) : i + 1 \in 1 .. Len(t)
        BY <1>0, <2>5, <2>7
      <4>1. CASE o = obs
        BY <2>7, <4>0, <4>1
      <4>2. CASE o \in R
        <5>1. PICK i \in 1 .. Len(s) : s[i] = o
          BY <2>5, <4>2 DEF Elements
        <5>. QED BY <2>7, <4>0, <5>1
      <4>. QED BY <4>1, <4>2
    <3>. QED BY <3>1, <3>2 DEF Elements
  <2>10. Descends(t)
    <3>1. ASSUME NEW i \in 1 .. Len(t), NEW j \in 1 .. Len(t), i < j
          PROVE  t[j].slot < t[i].slot
      <4>1. j - 1 \in 1 .. Len(s) /\ t[j] = s[j - 1] /\ s[j - 1] \in R
        <5>1. j \in 2 .. Len(t)
          BY <2>7, <3>1
        <5>. QED BY <2>5, <2>8, <5>1 DEF Elements
      <4>2. CASE i = 1
        <5>1. s[j - 1].slot \in Nat /\ s[j - 1].slot <= current.slot
          <6>1. PICK o \in R : o = s[j - 1]
            BY <4>1
          <6>2. o.slot \in Nat /\ (o = current \/ o.slot < current.slot)
            BY <1>2
          <6>. QED BY <1>0, <6>1, <6>2
        <5>2. t[j].slot = s[j - 1].slot /\ t[i] = obs
          BY <2>7, <4>1, <4>2
        <5>. QED BY <1>0, <1>5, <5>1, <5>2
      <4>3. CASE i # 1
        <5>1. i - 1 \in 1 .. Len(s) /\ t[i] = s[i - 1]
          BY <2>8, <4>3
        <5>2. i - 1 < j - 1
          BY <2>7, <3>1
        <5>. QED BY <2>5, <4>1, <5>1, <5>2 DEF Descends
      <4>. QED BY <4>2, <4>3
    <3>. QED BY <3>1 DEF Descends
  <2>11. Keyspace!Written(R, obs) = {t[i] : i \in {n \in 1 .. Len(t) : n <= Depth + 1}}
    <3>1. {o \in R : o.slot # obs.slot} \cup {obs} = Elements(t)
      BY <2>3, <2>9
    <3>. QED BY <2>1, <2>7, <2>10, <3>1, RetainedIsPrefix DEF Keyspace!Written
  <2>12. RetainedBy(AfterInsert(entry, obs)) = {obs} \cup {new[i] : i \in 1 .. Len(new)}
    <3>1. DOMAIN new = 1 .. Len(new)
      BY <2>6
    <3>2. AfterInsert(entry, obs).current = obs /\ AfterInsert(entry, obs).history = new
      BY <2>6
    <3>. QED BY <3>1, <3>2 DEF RetainedBy
  <2>13. ASSUME NEW i \in 1 .. Len(h) + 1
         PROVE  /\ i + 1 \in 2 .. Len(t) /\ t[i + 1] = IF i = 1 THEN current ELSE h[i - 1]
                /\ i \in 1 .. Len(new) <=> i + 1 <= Depth + 1
    <3>1. i \in 1 .. Len(s) /\ t[i + 1] = s[i] /\ i + 1 \in 2 .. Len(t)
      BY <1>0, <2>5, <2>7
    <3>2. s[i] = IF i = 1 THEN current ELSE h[i - 1]
      BY <2>5, <3>1
    <3>3. i \in 1 .. Len(new) <=> i + 1 <= Depth + 1
      BY <1>0, <2>6, VersionedStateAssumption
    <3>. QED BY <3>1, <3>2, <3>3
  <2>14. ASSUME NEW i \in 1 .. Len(t), i <= Depth + 1
         PROVE  t[i] \in {obs} \cup {new[n] : n \in 1 .. Len(new)}
    <3>1. CASE i = 1
      BY <2>7, <3>1
    <3>2. CASE i # 1
      <4>1. i - 1 \in 1 .. Len(h) + 1 /\ (i - 1) + 1 = i
        BY <1>0, <2>5, <2>7, <3>2
      <4>2. PICK n \in 1 .. Len(h) + 1 : n + 1 = i
        BY <4>1
      <4>3. n \in 1 .. Len(new) /\ t[i] = new[n]
        BY <2>6, <2>13, <2>14, <4>2
      <4>. QED BY <4>3
    <3>. QED BY <3>1, <3>2
  <2>15. ASSUME NEW o \in {obs} \cup {new[n] : n \in 1 .. Len(new)}
         PROVE  \E i \in 1 .. Len(t) : i <= Depth + 1 /\ t[i] = o
    <3>1. CASE o = obs
      <4>1. 1 \in 1 .. Len(t) /\ 1 <= Depth + 1
        BY <2>5, <2>7, VersionedStateAssumption
      <4>. QED BY <2>7, <3>1, <4>1
    <3>2. ASSUME NEW n \in 1 .. Len(new), o = new[n]
          PROVE  \E i \in 1 .. Len(t) : i <= Depth + 1 /\ t[i] = o
      <4>1. n \in 1 .. Len(h) + 1
        BY <1>0, <2>6
      <4>2. n + 1 \in 1 .. Len(t) /\ n + 1 <= Depth + 1 /\ t[n + 1] = o
        BY <2>6, <2>13, <3>2, <4>1
      <4>. QED BY <4>2
    <3>. QED BY <2>15, <3>1, <3>2
  <2>16. Keyspace!Written(R, obs) = RetainedBy(AfterInsert(entry, obs))
    <3>1. {t[i] : i \in {n \in 1 .. Len(t) : n <= Depth + 1}}
            = {obs} \cup {new[i] : i \in 1 .. Len(new)}
      BY <2>14, <2>15
    <3>. QED BY <2>11, <2>12, <3>1
  <2>. QED BY <2>2, <2>4, <2>16 DEF R
<1>. QED BY <1>0, <1>3, <1>4, <1>5

(* The first observation of a key.                                         *)
LEMMA FirstIsWritten ==
  ASSUME NEW obs \in Observation
  PROVE  /\ Keyspace!Written({}, obs) = RetainedBy(NewVersionedState(obs))
         /\ Keyspace!OutcomeOf({}, obs.slot) = "Inserted"
<1> DEFINE new == NewVersionedState(obs)
<1>1. new = [current |-> obs, history |-> <<>>]
  BY DEF NewVersionedState
<1>2. new \in VersionedState /\ Len(new.history) <= Depth /\ EntryDescends(new)
  BY <1>1, VersionedStateAssumption DEF VersionedState, EntryDescends
<1>3. RetainedBy(new) = {obs}
  BY <1>1 DEF RetainedBy
<1> HIDE DEF new
<1>4. Keyspace!Retained({obs}) = {obs}
  BY <1>2, <1>3, EntryIsRetained
<1>. QED BY <1>3, <1>4 DEF Keyspace!Written, Keyspace!OutcomeOf, Keyspace!NewerThan, new

(* A read of the current observation.                                      *)
LEMMA NewestIsCurrent ==
  ASSUME NEW entry \in VersionedState, EntryDescends(entry)
  PROVE  Keyspace!Newest(RetainedBy(entry)) = {entry.current}
<1>1. /\ DOMAIN entry.history = 1 .. Len(entry.history)
      /\ entry.current.slot \in Nat
      /\ \A i \in DOMAIN entry.history : entry.history[i].slot \in Nat
  <2>1. entry.current \in Observation /\ entry.history \in Seq(Observation)
    BY DEF VersionedState
  <2>. QED BY <2>1, SlotOfObservation
<1>2. /\ entry.current \in RetainedBy(entry)
      /\ \A o \in RetainedBy(entry) :
            o.slot \in Nat /\ (o = entry.current \/ o.slot < entry.current.slot)
  BY <1>1 DEF RetainedBy, EntryDescends
<1>3. Keyspace!NewerThan(RetainedBy(entry), entry.current.slot) = {}
  BY <1>1, <1>2 DEF Keyspace!NewerThan
<1>4. ASSUME NEW o \in RetainedBy(entry), o # entry.current
      PROVE  Keyspace!NewerThan(RetainedBy(entry), o.slot) # {}
  <2>1. entry.current \in Keyspace!NewerThan(RetainedBy(entry), o.slot)
    BY <1>1, <1>2, <1>4 DEF Keyspace!NewerThan
  <2>. QED BY <2>1
<1>. QED BY <1>2, <1>3, <1>4 DEF Keyspace!Newest

(* A read at a reference slot.                                             *)
LEMMA LookupIsAtOrBefore ==
  ASSUME NEW entry \in VersionedState, EntryDescends(entry), NEW ref \in Nat
  PROVE  Keyspace!AtOrBefore(RetainedBy(entry), ref) = Lookup(entry, ref)
<1> DEFINE eligible == {o \in RetainedBy(entry) : o.slot <= ref}
<1>1. Lookup(entry, ref) = {o \in eligible : \A p \in eligible : p.slot <= o.slot}
  BY FirstHitIsNearest
<1>2. \A o \in eligible : o.slot \in Nat
  <2>1. entry.current \in Observation /\ entry.history \in Seq(Observation)
    BY DEF VersionedState
  <2>2. \A o \in RetainedBy(entry) : o \in Observation
    BY <2>1 DEF RetainedBy
  <2>. QED BY <2>2, SlotOfObservation
<1>3. Keyspace!AtOrBefore(RetainedBy(entry), ref) = Keyspace!Newest(eligible)
  BY DEF Keyspace!AtOrBefore
<1> HIDE DEF eligible
<1>4. Keyspace!Newest(eligible) = {o \in eligible : \A p \in eligible : p.slot <= o.slot}
  <2>1. ASSUME NEW o \in eligible
        PROVE  Keyspace!NewerThan(eligible, o.slot) = {} <=> \A p \in eligible : p.slot <= o.slot
    <3>1. \A p \in eligible : p.slot <= o.slot <=> ~(p.slot > o.slot)
      BY <1>2
    <3>. QED BY <3>1 DEF Keyspace!NewerThan
  <2>. QED BY <2>1 DEF Keyspace!Newest
<1>. QED BY <1>1, <1>3, <1>4

-----------------------------------------------------------------------------
(* The keyspace the map stands for.                                        *)
LogOf(k) == IF k \in DOMAIN inner THEN RetainedBy(inner[k]) ELSE {}

Log == [k \in Keys |-> LogOf(k)]

(* An insert is a write.                                                   *)
LEMMA InsertRefines ==
  ASSUME TypeOK, HistoryDescends, NEW k \in Keys, NEW obs \in Observation, Insert(k, obs)
  PROVE  Keyspace!Insert(k, obs)
<1>1. LogOf(k)' = Keyspace!Written(LogOf(k), obs)
      /\ reply' = Keyspace!Reported(Keyspace!OutcomeOf(LogOf(k), obs.slot))
  <2>1. CASE InsertVacant(k, obs)
    <3>1. LogOf(k) = {} /\ LogOf(k)' = RetainedBy(NewVersionedState(obs))
      BY <2>1 DEF InsertVacant, Bind, LogOf
    <3>2. reply' = Keyspace!Reported("Inserted")
      BY <2>1 DEF InsertVacant, Reported, None, Keyspace!Reported, Keyspace!NoOutcome, Keyspace!None
    <3>. QED BY <3>1, <3>2, FirstIsWritten
  <2>2. CASE InsertOccupied(k, obs)
    <3>1. /\ inner[k] \in VersionedState /\ Len(inner[k].history) <= Depth
          /\ EntryDescends(inner[k])
      BY <2>2 DEF InsertOccupied, TypeOK, HistoryDescends
    <3>2. LogOf(k) = RetainedBy(inner[k]) /\ LogOf(k)' = RetainedBy(AfterInsert(inner[k], obs))
      BY <2>2 DEF InsertOccupied, Bind, LogOf
    <3>3. reply' = Keyspace!Reported(InsertOutcome(inner[k], obs))
      BY <2>2 DEF InsertOccupied, Reported, None, Keyspace!Reported, Keyspace!NoOutcome, Keyspace!None
    <3>. QED BY <3>1, <3>2, <3>3, InsertIsWritten
  <2>. QED BY <2>1, <2>2 DEF Insert
<1>2. \A x \in Keys \ {k} : LogOf(x)' = LogOf(x)
  BY DEF Insert, InsertVacant, InsertOccupied, Bind, LogOf
<1>3. Log' = [Log EXCEPT ![k] = Keyspace!Written(@, obs)]
  BY <1>1, <1>2 DEF Log
<1>4. Log[k] = LogOf(k)
  BY DEF Log
<1>5. UNCHANGED doomed
  BY DEF Insert
<1>. QED BY <1>1, <1>3, <1>4, <1>5 DEF Keyspace!Insert, Log, LogOf

(* So are the other operations those of the keyspace.                      *)
LEMMA ReadsRefine ==
  ASSUME TypeOK, HistoryDescends, NEW k \in Keys
  PROVE  /\ CurrentOf(k) = Keyspace!Newest(LogOf(k))
         /\ \A ref \in Slots : ObservedAt(k, ref) = Keyspace!AtOrBefore(LogOf(k), ref)
<1>1. CASE k \in DOMAIN inner
  <2>1. inner[k] \in VersionedState /\ EntryDescends(inner[k])
    BY <1>1 DEF TypeOK, HistoryDescends
  <2>2. \A ref \in Slots : ref \in Nat
    BY VersionedStateAssumption
  <2>. QED BY <1>1, <2>1, <2>2, NewestIsCurrent, LookupIsAtOrBefore DEF CurrentOf, ObservedAt, LogOf
<1>2. CASE k \notin DOMAIN inner
  BY <1>2 DEF CurrentOf, ObservedAt, LogOf, None, Keyspace!Newest, Keyspace!AtOrBefore
<1>. QED BY <1>1, <1>2

(* A step of the map is a step of the keyspace.                            *)
LEMMA StepRefines ==
  ASSUME TypeOK, HistoryDescends, Next
  PROVE  Keyspace!Next
<1>0. \A x \in Keys : Log[x] = LogOf(x)
  BY DEF Log
<1>1. ASSUME NEW k \in Keys, NEW obs \in Observation, Insert(k, obs)
      PROVE  Keyspace!Next
  <2>1. obs \in Keyspace!Observation
    BY DEF Observation, Keyspace!Observation
  <2>2. Keyspace!Insert(k, obs)
    BY <1>1, InsertRefines
  <2>. QED BY <2>1, <2>2 DEF Keyspace!Next
<1>2. ASSUME UNCHANGED inner PROVE UNCHANGED Log
  BY <1>2 DEF Log, LogOf
<1>3. ASSUME NEW k \in Keys, GetWithSlot(k) PROVE Keyspace!Next
  <2>1. reply' = Keyspace!Returned(Keyspace!Newest(Log[k])) /\ UNCHANGED Log
    BY <1>0, <1>2, <1>3, ReadsRefine
       DEF GetWithSlot, Returned, Keyspace!Returned, Keyspace!NoOutcome
  <2>2. Keyspace!Read(k)
    BY <1>3, <2>1 DEF GetWithSlot, Keyspace!Read, Log, LogOf
  <2>. QED BY <2>2 DEF Keyspace!Next
<1>4. ASSUME NEW k \in Keys, NEW ref \in Slots, GetAtSlot(k, ref) PROVE Keyspace!Next
  <2>1. reply' = Keyspace!Returned(Keyspace!AtOrBefore(Log[k], ref)) /\ UNCHANGED Log
    BY <1>0, <1>2, <1>4, ReadsRefine
       DEF GetAtSlot, Returned, Keyspace!Returned, Keyspace!NoOutcome
  <2>2. Keyspace!ReadAtSlot(k, ref)
    BY <1>4, <2>1 DEF GetAtSlot, Keyspace!ReadAtSlot, Log, LogOf
  <2>. QED BY <2>2 DEF Keyspace!Next
<1>5. ASSUME NEW k \in Keys, Remove(k) PROVE Keyspace!Next
  <2>1. LogOf(k)' = {} /\ \A x \in Keys \ {k} : LogOf(x)' = LogOf(x)
    BY <1>5 DEF Remove, Unbind, LogOf
  <2>2. Log' = [Log EXCEPT ![k] = {}]
    BY <2>1 DEF Log
  <2>3. reply' = Keyspace!Returned(Keyspace!Newest(Log[k]))
    BY <1>0, <1>5, ReadsRefine DEF Remove, Returned, Keyspace!Returned, Keyspace!NoOutcome
  <2>4. Keyspace!Remove(k)
    BY <1>5, <2>2, <2>3 DEF Remove, Keyspace!Remove, Log, LogOf
  <2>. QED BY <2>4 DEF Keyspace!Next
<1>6. CASE Clear
  <2>1. ASSUME NEW c \in Clearers, BeginClear(c) PROVE Keyspace!Clear
    <3>1. Keyspace!BeginClear(c)
      BY <1>2, <2>1 DEF BeginClear, Keyspace!BeginClear, Log, LogOf
    <3>. QED BY <3>1 DEF Keyspace!Clear
  <2>2. ASSUME NEW c \in DOMAIN doomed, NEW shard \in (SUBSET doomed[c]) \ {{}},
               ClearShard(c, shard)
        PROVE  Keyspace!Clear
    <3>1. \A x \in Keys : LogOf(x)' = IF x \in shard THEN {} ELSE LogOf(x)
      BY <2>2 DEF ClearShard, Unbind, LogOf
    <3>2. Log' = [x \in Keys |-> IF x \in shard THEN {} ELSE Log[x]]
      BY <1>0, <3>1 DEF Log
    <3>3. Keyspace!Empty(c, shard)
      BY <2>2, <3>2 DEF ClearShard, Keyspace!Empty, Log, LogOf
    <3>. QED BY <3>3 DEF Keyspace!Clear
  <2>3. ASSUME NEW c \in DOMAIN doomed, EndClear(c) PROVE Keyspace!Clear
    <3>1. reply' = Keyspace!Returned(Keyspace!None)
      BY <2>3 DEF EndClear, Returned, None, Keyspace!Returned, Keyspace!NoOutcome, Keyspace!None
    <3>2. Keyspace!EndClear(c)
      BY <1>2, <2>3, <3>1 DEF EndClear, Keyspace!EndClear, Log, LogOf
    <3>. QED BY <3>2 DEF Keyspace!Clear
  <2>. QED BY <1>6, <2>1, <2>2, <2>3 DEF Clear, Keyspace!Next
<1>. QED BY <1>1, <1>3, <1>4, <1>5, <1>6 DEF Next

(* VersionedStateMap (versioned_map.rs) implements the keyspace that the   *)
(* traits CacheGet and CacheInsert promise: each call of insert, get,      *)
(* get_at_slot and remove does to the observations a key retains, and      *)
(* answers, what SlotLog says, for every depth and arrival order; and a    *)
(* clear, whatever the keys of one shard and whatever comes between two    *)
(* shards, other clears included, empties each key before it returns.      *)
THEOREM MapImplementsSlotLog == Spec => ImplementsSlotLog
<1>1. Init => Keyspace!Init
  BY DEF Init, Returned, None, Keyspace!Init, Keyspace!Returned, Keyspace!NoOutcome, Keyspace!None
<1>2. TypeOK /\ HistoryDescends /\ [Next]_vars => [Keyspace!Next]_Keyspace!vars
  <2> SUFFICES ASSUME TypeOK, HistoryDescends, [Next]_vars
               PROVE  [Keyspace!Next]_Keyspace!vars
    OBVIOUS
  <2>1. CASE Next
    BY <2>1, StepRefines
  <2>2. CASE UNCHANGED vars
    BY <2>2 DEF vars, Keyspace!vars
  <2>. QED BY <2>1, <2>2
<1>. QED BY <1>1, <1>2, TypeCorrect, HistoryAlwaysDescends, PTL
         DEF Spec, ImplementsSlotLog, Keyspace!Spec
=============================================================================
