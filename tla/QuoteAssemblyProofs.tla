------------------------ MODULE QuoteAssemblyProofs ------------------------
(***************************************************************************)
(* Proofs about QuoteAssembly over a stream that keeps the order of one    *)
(* account's updates, for every chain, every bundle and every history      *)
(* depth: what a bundle assembled at a settled slot holds, and when the    *)
(* cache may refuse a read.                                                *)
(*                                                                         *)
(* The entries of the keyed accounts are those of VersionedMap, so the     *)
(* facts about one entry are taken from its proofs.                        *)
(***************************************************************************)
EXTENDS QuoteAssembly, TLAPS, FiniteSetTheorems, FunctionTheorems,
        NaturalsInduction, WellFoundedInduction

-----------------------------------------------------------------------------
(* Numbers.                                                                *)

\* A nonempty set of naturals has a least element.
LEMMA LeastNatural ==
    ASSUME NEW S \in SUBSET Nat, S # {}
    PROVE  \E x \in S : \A y \in S : x <= y
<1>1. \E R : IsWellFoundedOn(R, Nat) /\ \A x, y \in Nat : y < x => <<y, x>> \in R
  <2>1. \A x, y \in Nat : y < x => <<y, x>> \in OpToRel(<, Nat)
    BY DEF OpToRel
  <2> QED
    BY <2>1, NatLessThanWellFounded, Zenon
<1>2. PICK R : IsWellFoundedOn(R, Nat) /\ \A x, y \in Nat : y < x => <<y, x>> \in R
  BY <1>1
<1>3. PICK x \in S : \A y \in S : <<y, x>> \notin R
  BY <1>2, WFMin
<1>4. ASSUME NEW y \in S
      PROVE  x <= y
  <2>1. x \in Nat /\ y \in Nat
    OBVIOUS
  <2>2. ~ (y < x)
    BY <1>2, <1>3, <2>1, Zenon
  <2> QED
    BY <2>1, <2>2
<1> QED
  BY <1>4

\* An element of a sequence is of its type.
LEMMA ElementOfSeq ==
    ASSUME NEW X, NEW s \in Seq(X), NEW i \in DOMAIN s
    PROVE  s[i] \in X
  OBVIOUS

-----------------------------------------------------------------------------
Map == INSTANCE VersionedMapProofs
         WITH Keys <- Keyed, Clearers <- {}, inner <- keyed, reply <- "None",
              doomed <- {}, delivered <- [a \in Keyed |-> {}]

-----------------------------------------------------------------------------
(* The inductive invariant. *)

(* The last slot is the chain's, the last update of a stream is the        *)
(* youngest, entries are well formed.                                      *)
TypeOK ==
  /\ now \in Slots
  /\ ledger \in [Slots -> [Accounts -> Nat]]
  /\ \A s \in Slots, a \in Accounts : ledger[s][a] <= MaxWrites[a]
  /\ stream \in [Accounts -> Seq(Observation)]
  /\ rpc \subseteq Observation
  /\ DOMAIN keyed \subseteq Keyed
  /\ \A a \in DOMAIN keyed : /\ keyed[a] \in VersionedState
                             /\ Len(keyed[a].history) <= Depth
                             /\ EntryDescends(keyed[a])
  /\ arrived \in [Keyed -> SUBSET Slots]
  /\ singleton \subseteq Observation
  /\ phase \in Phases
  /\ ref \in Slots
  /\ bundle \in Seq(Observation)
  /\ settled \in BOOLEAN

(* Updates of an account travel in the order of their slots. *)
Travelling(a) ==
  \A i \in 1 .. Len(stream[a]) :
    /\ stream[a][i].slot <= now
    /\ \A j \in 1 .. i : stream[a][j].slot <= stream[a][i].slot

(* No update of a that was made by slot s is still on its way. *)
Delivered(a, s) == \A i \in 1 .. Len(stream[a]) : stream[a][i].slot > s

(* Update i is the last of those on their way that were made by slot s. *)
LastBy(a, s, i) ==
  /\ stream[a][i].slot <= s
  /\ \A j \in 1 .. Len(stream[a]) : j > i => stream[a][j].slot > s

(* The last update made by a slot carries the state the account had then.  *)
StreamIsTrue(a) ==
  \A s \in Slots : s <= now =>
    \A i \in 1 .. Len(stream[a]) :
      LastBy(a, s, i) => stream[a][i].state = ledger[s][a]

(* Nothing on its way is older than what is held. *)
HeldIsOlder(a) ==
  /\ keyed[a].current.slot <= now
  /\ \A i \in 1 .. Len(stream[a]) : keyed[a].current.slot <= stream[a][i].slot

(* What the cache answers at a slot whose updates are all delivered is the *)
(* state the account had then.                                             *)
CacheIsTrue(a) ==
  \A s \in Slots : s <= now /\ Delivered(a, s) =>
    \A o \in Lookup(keyed[a], s) : o.state = ledger[s][a]

ChainInv ==
  /\ \A a \in Accounts : Travelling(a) /\ StreamIsTrue(a)
  /\ \A a \in DOMAIN keyed : HeldIsOlder(a) /\ CacheIsTrue(a)

(* What the quoter has read at a settled slot is of that slot. *)
QuoterInv ==
  /\ settled => /\ ref < now
                /\ \A a \in Keyed : Delivered(a, ref)
                /\ \A i \in 1 .. Len(bundle) :
                     i <= Len(Fields) => bundle[i].state = ledger[ref][Fields[i]]
  /\ phase = "assembling" => Len(bundle) <= Len(Fields)
  /\ phase = "assembled" => Len(bundle) = Len(Fields) + 1

RetainedSlots(entry) == {o.slot : o \in RetainedBy(entry)}

(* The slots an entry retains arrived, and while the history has room they *)
(* are all that arrived.                                                   *)
ArrivalsInv ==
  \A a \in Keyed :
    /\ IsFiniteSet(arrived[a])
    /\ a \notin DOMAIN keyed => arrived[a] = {}
    /\ a \in DOMAIN keyed =>
         /\ RetainedSlots(keyed[a]) \subseteq arrived[a]
         /\ Len(keyed[a].history) < Depth => arrived[a] \subseteq RetainedSlots(keyed[a])

IInv == TypeOK /\ ChainInv /\ QuoterInv /\ ArrivalsInv

-----------------------------------------------------------------------------
(* One entry. *)

(* The definitions of VersionedMap mean here what they mean there.         *)
LEMMA SameEntries ==
  /\ Map!Observation = Observation
  /\ Map!VersionedState = VersionedState
  /\ \A e : Map!RetainedBy(e) = RetainedBy(e)
  /\ \A e : Map!EntryDescends(e) <=> EntryDescends(e)
  /\ \A e, o : Map!AfterInsert(e, o) = AfterInsert(e, o)
  /\ \A e, s : Map!Lookup(e, s) = Lookup(e, s)
<1>1. /\ Map!Observation = Observation
      /\ Map!VersionedState = VersionedState
  BY DEF Map!Observation, Observation, Map!VersionedState, VersionedState
<1>2. \A e : Map!RetainedBy(e) = RetainedBy(e)
  BY DEF Map!RetainedBy, RetainedBy
<1>3. \A e : Map!EntryDescends(e) <=> EntryDescends(e)
  BY DEF Map!EntryDescends, EntryDescends
<1>4. \A e, o : Map!AfterInsert(e, o) = AfterInsert(e, o)
  BY DEF Map!AfterInsert, AfterInsert, Map!Advanced, Advanced,
         Map!Push, Push, Map!PopToDepth, PopToDepth
<1>5. \A e, s : Map!Lookup(e, s) = Lookup(e, s)
  BY DEF Map!Lookup, Lookup
<1>. QED BY <1>1, <1>2, <1>3, <1>4, <1>5

(* Slots are naturals. *)
LEMMA ObservationFacts == \A o \in Observation : o.slot \in Nat /\ o.slot \in Slots
  BY VersionedStateAssumption DEF Observation

(* An insert leaves a well-formed entry.                                   *)
LEMMA InsertTyped ==
  ASSUME NEW entry \in VersionedState, Len(entry.history) <= Depth,
         EntryDescends(entry), NEW obs \in Observation
  PROVE  /\ AfterInsert(entry, obs) \in VersionedState
         /\ Len(AfterInsert(entry, obs).history) <= Depth
         /\ EntryDescends(AfterInsert(entry, obs))
<1>1. /\ Map!AfterInsert(entry, obs) \in Map!VersionedState
      /\ Len(Map!AfterInsert(entry, obs).history) <= Depth
  BY SameEntries, VersionedStateAssumption, Map!InsertFacts
<1>2. Map!EntryDescends(Map!AfterInsert(entry, obs))
  BY SameEntries, VersionedStateAssumption, Map!InsertDescends
<1>. QED BY <1>1, <1>2, SameEntries

(* An insert adds nothing to what is answered below it, and is the answer  *)
(* from its slot on unless it is stale.                                    *)
LEMMA InsertAnswers ==
  ASSUME NEW entry \in VersionedState, Len(entry.history) <= Depth,
         NEW obs \in Observation, entry.current.slot <= obs.slot, NEW s \in Slots
  PROVE  /\ s < obs.slot => Lookup(AfterInsert(entry, obs), s) \subseteq Lookup(entry, s)
         /\ obs.slot <= s => Lookup(AfterInsert(entry, obs), s) = {obs}
<1>1. s \in Nat
  BY VersionedStateAssumption
<1>2. s < obs.slot => Map!Lookup(Map!AfterInsert(entry, obs), s) \subseteq Map!Lookup(entry, s)
  BY <1>1, SameEntries, VersionedStateAssumption, Map!InsertKeepsAnswers
<1>3. Map!AfterInsert(entry, obs).current = obs
  BY SameEntries, VersionedStateAssumption, Map!InsertRetains
<1>4. AfterInsert(entry, obs).current = obs
  BY <1>3, SameEntries
<1>. QED BY <1>2, <1>4, SameEntries DEF Lookup

(* A read finds an observation if the entry retains one old enough.        *)
LEMMA LookupFinds ==
  ASSUME NEW entry \in VersionedState, NEW s \in Nat,
         NEW o \in RetainedBy(entry), o.slot <= s
  PROVE  Lookup(entry, s) # {}
<1>. DEFINE h == entry.history
            Hits == {i \in 1 .. Len(h) : h[i].slot <= s}
<1>1. /\ h \in Seq(Observation)
      /\ DOMAIN h = 1 .. Len(h)
      /\ Len(h) \in Nat
      /\ \A i \in 1 .. Len(h) : h[i].slot \in Nat
  <2>1. h \in Seq(Observation)
    BY DEF VersionedState
  <2>2. \A i \in 1 .. Len(h) : h[i] \in Observation
    BY <2>1
  <2>. QED BY <2>1, <2>2, ObservationFacts
<1>2. CASE entry.current.slot <= s
  BY <1>2 DEF Lookup
<1>3. CASE ~(entry.current.slot <= s)
  <2>1. Hits # {} /\ Hits \in SUBSET Nat
    BY <1>1, <1>3 DEF RetainedBy
  <2>2. PICK i \in Hits : \A j \in Hits : i <= j
    BY <2>1, LeastNatural
  <2>3. \A n \in 1 .. (i - 1) : h[n].slot > s
    <3>1. ASSUME NEW n \in 1 .. (i - 1) PROVE n \in 1 .. Len(h) /\ ~(i <= n)
      BY <1>1
    <3>. QED BY <1>1, <2>2, <3>1
  <2>4. h[i] \in Lookup(entry, s)
    BY <1>1, <1>3, <2>2, <2>3 DEF Lookup
  <2>. QED BY <2>4
<1>. QED BY <1>2, <1>3

(* The slots an entry retains after an insert.                             *)
LEMMA InsertRetainedSlots ==
  ASSUME NEW entry \in VersionedState, Len(entry.history) <= Depth,
         NEW obs \in Observation, entry.current.slot <= obs.slot
  PROVE  LET after == AfterInsert(entry, obs)
         IN  /\ RetainedSlots(after) \subseteq RetainedSlots(entry) \cup {obs.slot}
             /\ Len(after.history) < Depth =>
                  /\ Len(entry.history) < Depth
                  /\ RetainedSlots(entry) \cup {obs.slot} \subseteq RetainedSlots(after)
<1>. DEFINE after == Map!AfterInsert(entry, obs)
            before == {o.slot : o \in Map!RetainedBy(entry)}
            retained == {o.slot : o \in Map!RetainedBy(after)}
<1>1. /\ retained \subseteq before \cup {obs.slot}
      /\ Len(after.history) < Depth =>
           /\ Len(entry.history) < Depth
           /\ before \cup {obs.slot} \subseteq retained
  BY SameEntries, VersionedStateAssumption, Map!InsertRetains
<1>2. /\ after = AfterInsert(entry, obs)
      /\ before = RetainedSlots(entry)
      /\ retained = RetainedSlots(AfterInsert(entry, obs))
  BY SameEntries DEF RetainedSlots
<1>. HIDE DEF after, before, retained
<1>. QED BY <1>1, <1>2

(* An entry retains one slot more than its history is long.                *)
LEMMA RetainedSlotsCount ==
  ASSUME NEW entry \in VersionedState, EntryDescends(entry)
  PROVE  /\ IsFiniteSet(RetainedSlots(entry))
         /\ Cardinality(RetainedSlots(entry)) = Len(entry.history) + 1
<1>. DEFINE h == entry.history
            n == Len(h)
            at == [i \in 1 .. n + 1 |-> IF i = 1 THEN entry.current.slot ELSE h[i - 1].slot]
<1>1. /\ n \in Nat
      /\ DOMAIN h = 1 .. n
      /\ entry.current.slot \in Nat
      /\ \A i \in 1 .. n : h[i].slot \in Nat
  <2>1. h \in Seq(Observation) /\ entry.current \in Observation
    BY DEF VersionedState
  <2>2. \A i \in 1 .. Len(h) : h[i] \in Observation
    BY <2>1
  <2>. QED BY <2>1, <2>2, ObservationFacts
<1>2. RetainedSlots(entry) = {entry.current.slot} \cup {h[i].slot : i \in 1 .. n}
  BY <1>1 DEF RetainedSlots, RetainedBy
<1>3. /\ \A i \in 1 .. n : h[i].slot < entry.current.slot
      /\ \A i, j \in 1 .. n : i < j => h[j].slot < h[i].slot
  BY <1>1 DEF EntryDescends
<1>. HIDE DEF h, n
<1>4. \A i \in 1 .. n + 1 : i # 1 => i - 1 \in 1 .. n
  BY <1>1
<1>5. at \in Bijection(1 .. n + 1, RetainedSlots(entry))
  <2>1. \A i \in 1 .. n + 1 : at[i] \in RetainedSlots(entry)
    BY <1>2, <1>4
  <2>2. ASSUME NEW i \in 1 .. n + 1, NEW j \in 1 .. n + 1, at[i] = at[j] PROVE i = j
    <3>1. \A k, l \in 1 .. n + 1 : k < l => at[l] < at[k]
      BY <1>1, <1>3, <1>4
    <3>. QED BY <1>1, <1>3, <1>4, <2>2, <3>1
  <2>3. ASSUME NEW s \in RetainedSlots(entry) PROVE \E i \in 1 .. n + 1 : at[i] = s
    <3>1. CASE s = entry.current.slot
      <4>1. 1 \in 1 .. n + 1 /\ at[1] = s
        BY <1>1, <3>1
      <4>. QED BY <4>1
    <3>2. ASSUME NEW k \in 1 .. n, s = h[k].slot PROVE \E i \in 1 .. n + 1 : at[i] = s
      <4>1. k + 1 \in 1 .. n + 1 /\ at[k + 1] = s
        BY <1>1, <3>2
      <4>. QED BY <4>1
    <3>. QED BY <1>2, <3>1, <3>2
  <2>4. at \in [1 .. n + 1 -> RetainedSlots(entry)]
    BY <2>1
  <2>. HIDE DEF at
  <2>. QED BY <2>2, <2>3, <2>4, Fun_IsBij
<1>6. ExistsBijection(1 .. n + 1, RetainedSlots(entry))
  BY <1>5, Fun_ExistsBij
<1>7. IsFiniteSet(RetainedSlots(entry)) /\ Cardinality(RetainedSlots(entry)) = n + 1
  <2>1. n + 1 \in Nat
    BY <1>1
  <2>2. Cardinality(RetainedSlots(entry)) = n + 1
    BY <1>6, <2>1, FS_CountingElements
  <2>. QED BY <1>6, <2>1, <2>2, FS_NatBijection
<1>. QED BY <1>7 DEF n, h
-----------------------------------------------------------------------------
(* The chain's steps. *)

(* Init establishes the invariant. *)
LEMMA InitInv == Init => IInv
<1>. SUFFICES ASSUME Init PROVE IInv
  OBVIOUS
<1>1. TypeOK
  <2>1. now \in Slots /\ ref \in Slots
    BY DEF Init
  <2>2. /\ ledger \in [Slots -> [Accounts -> Nat]]
        /\ \A s \in Slots, a \in Accounts : ledger[s][a] <= MaxWrites[a]
    BY QuoteAssemblyAssumption DEF Init, Never
  <2>3. stream \in [Accounts -> Seq(Observation)] /\ bundle \in Seq(Observation)
    BY DEF Init
  <2>4. DOMAIN keyed = {}
    BY DEF Init
  <2>5. arrived \in [Keyed -> SUBSET Slots]
    BY DEF Init
  <2>6. phase \in Phases /\ settled \in BOOLEAN /\ rpc = {} /\ singleton = {}
    BY DEF Init, Phases
  <2>. QED BY <2>1, <2>2, <2>3, <2>4, <2>5, <2>6 DEF TypeOK
<1>2. ChainInv
  BY DEF Init, ChainInv, Travelling, StreamIsTrue
<1>3. QuoterInv
  BY DEF Init, QuoterInv
<1>4. ArrivalsInv
  BY FS_EmptySet DEF Init, ArrivalsInv
<1>. QED BY <1>1, <1>2, <1>3, <1>4 DEF IInv

(* A transaction appends an update of the current slot to the stream of    *)
(* each account it writes, and changes no slot that is over.               *)
LEMMA WriteFacts ==
  ASSUME TypeOK, NEW tx \in Transactions, Write(tx), NEW a \in Accounts
  PROVE  /\ \A s \in Slots : s # now => ledger'[s] = ledger[s]
         /\ \/ /\ stream'[a] = stream[a]
               /\ ledger'[now][a] = ledger[now][a]
            \/ /\ Len(stream'[a]) = Len(stream[a]) + 1
               /\ \A i \in 1 .. Len(stream[a]) : stream'[a][i] = stream[a][i]
               /\ stream'[a][Len(stream[a]) + 1].slot = now
               /\ stream'[a][Len(stream[a]) + 1].state = ledger'[now][a]
         /\ ledger'[now][a] \in Nat
         /\ ledger'[now][a] <= MaxWrites[a]
         /\ stream'[a] \in Seq(Observation)
<1>1. /\ now \in Slots
      /\ ledger[now][a] \in Nat
      /\ ledger[now][a] <= MaxWrites[a]
      /\ MaxWrites[a] \in Nat
      /\ stream[a] \in Seq(Observation)
  BY QuoteAssemblyAssumption DEF TypeOK
<1>2. /\ \A s \in Slots : s # now => ledger'[s] = ledger[s]
      /\ ledger'[now][a] = IF a \in tx THEN ledger[now][a] + 1 ELSE ledger[now][a]
  BY <1>1 DEF Write, TypeOK
<1>3. stream'[a] = IF a \in tx
                   THEN Append(stream[a], [state |-> ledger[now][a] + 1, slot |-> now])
                   ELSE stream[a]
  BY DEF Write
<1>4. CASE a \in tx
  <2>. DEFINE obs == [state |-> ledger[now][a] + 1, slot |-> now]
  <2>1. ledger[now][a] + 1 \in 1 .. MaxWrites[a]
    BY <1>1, <1>4 DEF Write
  <2>2. ledger[now][a] + 1 \in States
    BY <2>1, QuoteAssemblyAssumption
  <2>3. obs \in Observation
    BY <1>1, <2>2 DEF Observation
  <2>4. obs.slot = now /\ obs.state = ledger'[now][a]
    BY <1>2, <1>4
  <2>. HIDE DEF obs
  <2>5. stream'[a] = Append(stream[a], obs)
    BY <1>3, <1>4 DEF obs
  <2>6. /\ Append(stream[a], obs) \in Seq(Observation)
        /\ Len(Append(stream[a], obs)) = Len(stream[a]) + 1
        /\ \A i \in 1 .. Len(stream[a]) : Append(stream[a], obs)[i] = stream[a][i]
        /\ Append(stream[a], obs)[Len(stream[a]) + 1] = obs
    BY <1>1, <2>3
  <2>7. ledger'[now][a] \in Nat /\ ledger'[now][a] <= MaxWrites[a]
    BY <1>1, <1>2, <1>4, <2>1
  <2>. QED BY <1>2, <2>4, <2>5, <2>6, <2>7
<1>5. CASE a \notin tx
  BY <1>1, <1>2, <1>3, <1>5
<1>. QED BY <1>4, <1>5

(* What a write does to the streams' order and truth.                      *)
LEMMA WriteKeepsStream ==
  ASSUME TypeOK, NEW tx \in Transactions, Write(tx), NEW a \in Accounts,
         Travelling(a), StreamIsTrue(a)
  PROVE  Travelling(a)' /\ StreamIsTrue(a)'
<1>. DEFINE n == Len(stream[a])
<1>1. /\ now' = now
      /\ now \in Slots
      /\ n \in Nat
      /\ \A s \in Slots : s \in Nat
      /\ stream[a] \in Seq(Observation)
  BY VersionedStateAssumption DEF TypeOK, Write
<1>2. \A i \in 1 .. n : stream[a][i].slot \in Nat
  BY <1>1, ObservationFacts, ElementOfSeq
<1>3. CASE stream'[a] = stream[a] /\ ledger'[now][a] = ledger[now][a]
  <2>1. \A s \in Slots : ledger'[s][a] = ledger[s][a]
    BY <1>3, WriteFacts
  <2>. QED BY <1>1, <1>3, <2>1 DEF Travelling, StreamIsTrue, LastBy
<1>4. CASE /\ Len(stream'[a]) = n + 1
           /\ \A i \in 1 .. n : stream'[a][i] = stream[a][i]
           /\ stream'[a][n + 1].slot = now
           /\ stream'[a][n + 1].state = ledger'[now][a]
  <2>0. \A i \in 1 .. n + 1 : i \in 1 .. n \/ i = n + 1
    BY <1>1
  <2>1. Travelling(a)'
    <3>1. ASSUME NEW i \in 1 .. n + 1
          PROVE  /\ stream'[a][i].slot <= now
                 /\ \A j \in 1 .. i : stream'[a][j].slot <= stream'[a][i].slot
      <4>1. CASE i \in 1 .. n
        <5>1. \A j \in 1 .. i : j \in 1 .. n
          BY <1>1, <4>1
        <5>. QED BY <1>4, <4>1, <5>1 DEF Travelling
      <4>2. CASE i = n + 1
        <5>1. n \in 1 .. n \/ n = 0
          BY <1>1
        <5>2. \A j \in 1 .. n : stream[a][j].slot <= now
          BY <1>1 DEF Travelling
        <5>3. ASSUME NEW j \in 1 .. i PROVE stream'[a][j].slot <= now
          <6>1. j \in 1 .. n \/ j = n + 1
            BY <2>0, <4>2
          <6>2. CASE j \in 1 .. n
            BY <1>4, <5>2, <6>2
          <6>3. CASE j = n + 1
            BY <1>1, <1>4, <6>3
          <6>. QED BY <6>1, <6>2, <6>3
        <5>4. stream'[a][i].slot = now /\ i \in 1 .. i
          BY <1>1, <1>4, <4>2
        <5>. QED BY <5>3, <5>4
      <4>. QED BY <2>0, <4>1, <4>2
    <3>. QED BY <1>1, <1>4, <3>1 DEF Travelling
  <2>2. StreamIsTrue(a)'
    <3>1. ASSUME NEW s \in Slots, s <= now, NEW i \in 1 .. n + 1,
                 stream'[a][i].slot <= s,
                 \A j \in 1 .. n + 1 : j > i => stream'[a][j].slot > s
          PROVE  stream'[a][i].state = ledger'[s][a]
      <4>1. CASE i = n + 1
        <5>1. s = now
          BY <1>1, <1>4, <3>1, <4>1
        <5>. QED BY <1>4, <4>1, <5>1
      <4>2. CASE i \in 1 .. n
        <5>1. n + 1 \in 1 .. n + 1 /\ n + 1 > i
          BY <1>1, <4>2
        <5>2. s # now
          <6>1. stream'[a][n + 1].slot > s
            BY <3>1, <5>1
          <6>. QED BY <1>1, <1>4, <6>1
        <5>3. LastBy(a, s, i)
          <6>1. \A j \in 1 .. n : j > i => stream[a][j].slot > s
            BY <1>1, <1>4, <3>1
          <6>. QED BY <1>4, <3>1, <4>2, <6>1 DEF LastBy
        <5>4. stream[a][i].state = ledger[s][a]
          BY <3>1, <4>2, <5>3 DEF StreamIsTrue
        <5>. QED BY <1>4, <4>2, <5>2, <5>4, WriteFacts
      <4>. QED BY <2>0, <4>1, <4>2
    <3>. QED BY <1>1, <1>4, <3>1 DEF StreamIsTrue, LastBy
  <2>. QED BY <2>1, <2>2
<1>. QED BY <1>3, <1>4, WriteFacts

(* A write delays no slot that is over and delivered.                      *)
LEMMA WriteDelivers ==
  ASSUME TypeOK, NEW tx \in Transactions, Write(tx), NEW a \in Accounts, NEW s \in Slots
  PROVE  /\ Delivered(a, s)' => Delivered(a, s)
         /\ Delivered(a, s) /\ s < now => Delivered(a, s)'
         /\ Delivered(a, s)' /\ s = now => ledger'[s][a] = ledger[s][a]
<1>. DEFINE n == Len(stream[a])
<1>1. n \in Nat /\ now \in Nat /\ s \in Nat
  BY VersionedStateAssumption DEF TypeOK
<1>2. \A i \in 1 .. n + 1 : i \in 1 .. n \/ i = n + 1
  BY <1>1
<1>3. \A i \in 1 .. n : i \in 1 .. n + 1
  BY <1>1
<1>4. n + 1 \in 1 .. n + 1
  BY <1>1
<1>5. CASE stream'[a] = stream[a] /\ ledger'[now][a] = ledger[now][a]
  BY <1>5 DEF Delivered
<1>6. CASE /\ Len(stream'[a]) = n + 1
           /\ \A i \in 1 .. n : stream'[a][i] = stream[a][i]
           /\ stream'[a][n + 1].slot = now
  <2>1. Delivered(a, s)' <=> \A i \in 1 .. n + 1 : stream'[a][i].slot > s
    BY <1>6 DEF Delivered
  <2>2. Delivered(a, s) <=> \A i \in 1 .. n : stream'[a][i].slot > s
    BY <1>6 DEF Delivered
  <2>3. stream'[a][n + 1].slot > s <=> s < now
    BY <1>1, <1>6
  <2>. QED BY <1>1, <1>2, <1>3, <1>4, <2>1, <2>2, <2>3
<1>. QED BY <1>5, <1>6, WriteFacts

(* Nothing a write does touches what is held or read.                      *)
LEMMA WriteStep ==
  ASSUME IInv, NEW tx \in Transactions, Write(tx)
  PROVE  IInv'
<1>0. /\ TypeOK /\ ChainInv /\ QuoterInv /\ ArrivalsInv
      /\ now' = now /\ rpc' = rpc /\ keyed' = keyed /\ arrived' = arrived
      /\ singleton' = singleton /\ phase' = phase /\ ref' = ref
      /\ bundle' = bundle /\ settled' = settled
      /\ \A s \in Slots : s \in Nat
      /\ Keyed \subseteq Accounts
  BY VersionedStateAssumption DEF IInv, Write, cacheVars, quoteVars, Accounts
<1>1. TypeOK'
  <2>1. \A a \in Accounts : stream'[a] \in Seq(Observation)
    BY <1>0, WriteFacts
  <2>2. stream' \in [Accounts -> Seq(Observation)]
    BY <2>1 DEF Write
  <2>3. \A s \in Slots, a \in Accounts :
          ledger'[s][a] \in Nat /\ ledger'[s][a] <= MaxWrites[a]
    <3>1. /\ now \in Slots
          /\ \A s \in Slots, a \in Accounts :
               ledger[s][a] \in Nat /\ ledger[s][a] <= MaxWrites[a]
      BY <1>0 DEF TypeOK
    <3>2. ASSUME NEW s \in Slots, NEW a \in Accounts
          PROVE  ledger'[s][a] \in Nat /\ ledger'[s][a] <= MaxWrites[a]
      <4>1. s # now => ledger'[s] = ledger[s]
        BY <1>0, WriteFacts
      <4>2. ledger'[now][a] \in Nat /\ ledger'[now][a] <= MaxWrites[a]
        BY <1>0, WriteFacts
      <4>. QED BY <3>1, <4>1, <4>2
    <3>. QED BY <3>2
  <2>4. ledger' \in [Slots -> [Accounts -> Nat]]
    <3>1. \A s \in Slots : ledger'[s] \in [Accounts -> Nat]
      BY <1>0, <2>3 DEF Write, TypeOK
    <3>. QED BY <1>0, <3>1 DEF Write, TypeOK
  <2>. QED BY <1>0, <2>2, <2>3, <2>4 DEF TypeOK
<1>2. ChainInv'
  <2>1. \A a \in Accounts : Travelling(a)' /\ StreamIsTrue(a)'
    BY <1>0, WriteKeepsStream DEF ChainInv
  <2>2. ASSUME NEW a \in DOMAIN keyed PROVE HeldIsOlder(a)' /\ CacheIsTrue(a)'
    <3>0. a \in Accounts /\ HeldIsOlder(a) /\ CacheIsTrue(a)
      BY <1>0 DEF ChainInv, TypeOK
    <3>1. Len(stream[a]) \in Nat
      BY <1>0, <3>0 DEF TypeOK
    <3>2. HeldIsOlder(a)'
      <4>1. \A i \in 1 .. Len(stream[a]) + 1 :
              i \in 1 .. Len(stream[a]) \/ i = Len(stream[a]) + 1
        BY <3>1
      <4>. QED BY <1>0, <3>0, <4>1, WriteFacts DEF HeldIsOlder
    <3>3. ASSUME NEW s \in Slots, s <= now, Delivered(a, s)',
                 NEW o \in Lookup(keyed[a], s)
          PROVE  o.state = ledger'[s][a]
      <4>1. o.state = ledger[s][a]
        BY <1>0, <3>0, <3>3, WriteDelivers DEF CacheIsTrue
      <4>2. ledger'[s][a] = ledger[s][a]
        BY <1>0, <3>0, <3>3, WriteFacts, WriteDelivers
      <4>. QED BY <4>1, <4>2
    <3>4. CacheIsTrue(a)'
      BY <1>0, <3>3 DEF CacheIsTrue
    <3>. QED BY <3>2, <3>4
  <2>. QED BY <1>0, <2>1, <2>2 DEF ChainInv
<1>3. QuoterInv'
  <2>1. ASSUME settled
        PROVE  /\ ref < now
               /\ \A a \in Keyed : Delivered(a, ref)'
               /\ \A i \in 1 .. Len(bundle) :
                    i <= Len(Fields) => bundle[i].state = ledger'[ref][Fields[i]]
    <3>1. /\ ref \in Slots /\ ref < now
          /\ \A a \in Keyed : Delivered(a, ref)
          /\ \A i \in 1 .. Len(bundle) :
               i <= Len(Fields) => bundle[i].state = ledger[ref][Fields[i]]
      BY <1>0, <2>1 DEF QuoterInv, TypeOK
    <3>2. ledger'[ref] = ledger[ref]
      BY <1>0, <3>1 DEF Write, TypeOK
    <3>3. \A a \in Keyed : Delivered(a, ref)'
      BY <1>0, <3>1, WriteDelivers
    <3>. QED BY <3>1, <3>2, <3>3
  <2>. QED BY <1>0, <2>1 DEF QuoterInv
<1>4. ArrivalsInv'
  BY <1>0 DEF ArrivalsInv
<1>. QED BY <1>1, <1>2, <1>3, <1>4 DEF IInv

(* A slot that begins inherits the ledger: what was made by it was made by *)
(* the slot before.                                                        *)
LEMMA TickStep ==
  ASSUME IInv, Tick
  PROVE  IInv'
<1>0. /\ TypeOK /\ ChainInv /\ QuoterInv /\ ArrivalsInv
      /\ now \in Nat /\ now' \in Nat /\ now' > now /\ now' \in Slots
      /\ \A s \in Slots : s \in Nat
      /\ \A s \in Slots : ledger'[s] = IF s > now THEN ledger[now] ELSE ledger[s]
      /\ stream' = stream /\ rpc' = rpc /\ keyed' = keyed /\ arrived' = arrived
      /\ singleton' = singleton /\ phase' = phase /\ ref' = ref
      /\ bundle' = bundle /\ settled' = settled
      /\ Keyed \subseteq Accounts
  BY VersionedStateAssumption DEF IInv, TypeOK, Tick, cacheVars, quoteVars, Accounts
<1>8. ASSUME NEW s \in Slots
      PROVE  /\ s > now => ledger'[s] = ledger[now]
             /\ ~(s > now) => s <= now /\ ledger'[s] = ledger[s]
  <2>1. s \in Nat /\ now \in Nat /\ ledger'[s] = IF s > now THEN ledger[now] ELSE ledger[s]
    BY <1>0
  <2>. QED BY <2>1
<1>10. now \in Nat /\ \A s \in Slots : s \in Nat
  BY <1>0
<1>9. \A a \in Accounts : StreamIsTrue(a)
  BY <1>0 DEF ChainInv
<1>1. TypeOK'
  <2>1. now \in Slots /\ \A s \in Slots : ledger'[s] \in {ledger[r] : r \in Slots}
    BY <1>0 DEF TypeOK
  <2>2. ledger' \in [Slots -> [Accounts -> Nat]]
    BY <1>0, <2>1 DEF TypeOK, Tick
  <2>3. \A s \in Slots, a \in Accounts : ledger'[s][a] <= MaxWrites[a]
    BY <1>0, <2>1 DEF TypeOK
  <2>. QED BY <1>0, <2>2, <2>3 DEF TypeOK
<1>2. ASSUME NEW a \in Accounts
      PROVE  /\ \A i \in 1 .. Len(stream[a]) : stream[a][i].slot \in Nat
             /\ \A i \in 1 .. Len(stream[a]) : stream[a][i].slot <= now
  <2>1. stream[a] \in Seq(Observation)
    BY <1>0 DEF TypeOK
  <2>2. \A i \in 1 .. Len(stream[a]) : stream[a][i] \in Observation
    BY <2>1
  <2>. QED BY <1>0, <2>2, ObservationFacts DEF ChainInv, Travelling
<1>3. ASSUME NEW a \in Accounts PROVE Travelling(a)' /\ StreamIsTrue(a)'
  <2>1. Travelling(a)'
    BY <1>0, <1>2 DEF ChainInv, Travelling
  <2>2. ASSUME NEW s \in Slots, NEW i \in 1 .. Len(stream[a]), LastBy(a, s, i)
        PROVE  stream[a][i].state = ledger'[s][a]
    <3>1. CASE s > now
      <4>1. LastBy(a, now, i)
        <5>1. ASSUME NEW j \in 1 .. Len(stream[a]), j > i PROVE FALSE
          <6>1. stream[a][j].slot > s /\ ~(stream[a][j].slot <= s)
            <7>1. stream[a][j].slot > s
              BY <2>2, <5>1 DEF LastBy
            <7>2. stream[a][j].slot \in Nat /\ s \in Nat
              BY <1>2, <1>10
            <7>. QED BY <7>1, <7>2
          <6>2. stream[a][j].slot <= now /\ stream[a][j].slot \in Nat /\ s \in Nat
            BY <1>2, <1>10
          <6>. QED BY <1>10, <3>1, <6>1, <6>2
        <5>. QED BY <1>2, <5>1 DEF LastBy
      <4>2. now \in Slots /\ now <= now /\ StreamIsTrue(a)
        BY <1>0, <1>9 DEF TypeOK
      <4>3. stream[a][i].state = ledger[now][a]
        BY <4>1, <4>2 DEF StreamIsTrue
      <4>. QED BY <1>8, <3>1, <4>3
    <3>2. CASE ~(s > now)
      <4>1. s <= now /\ ledger'[s] = ledger[s] /\ StreamIsTrue(a)
        BY <1>8, <1>9, <3>2
      <4>. QED BY <2>2, <4>1 DEF StreamIsTrue
    <3>. QED BY <3>1, <3>2
  <2>3. StreamIsTrue(a)'
    BY <1>0, <2>2 DEF StreamIsTrue, LastBy
  <2>. QED BY <2>1, <2>3
<1>4. ASSUME NEW a \in DOMAIN keyed PROVE HeldIsOlder(a)' /\ CacheIsTrue(a)'
  <2>0. /\ a \in Accounts /\ HeldIsOlder(a) /\ CacheIsTrue(a)
        /\ keyed[a] \in VersionedState
        /\ keyed[a].current.slot \in Nat
    <3>1. keyed[a] \in VersionedState /\ keyed[a].current \in Observation
      BY <1>0 DEF TypeOK, VersionedState
    <3>. QED BY <1>0, <3>1, ObservationFacts DEF ChainInv, TypeOK
  <2>1. HeldIsOlder(a)'
    BY <1>0, <2>0 DEF HeldIsOlder
  <2>2. ASSUME NEW s \in Slots, Delivered(a, s), NEW o \in Lookup(keyed[a], s)
        PROVE  o.state = ledger'[s][a]
    <3>1. CASE s > now
      <4>1. Delivered(a, now)
        <5>1. ASSUME NEW i \in 1 .. Len(stream[a]) PROVE stream[a][i].slot > now
          <6>1. stream[a][i].slot \in Nat
            BY <1>2, <2>0
          <6>2. stream[a][i].slot > s
            BY <2>2 DEF Delivered
          <6>. QED BY <1>10, <3>1, <6>1, <6>2
        <5>. QED BY <5>1 DEF Delivered
      <4>2. Lookup(keyed[a], s) = Lookup(keyed[a], now)
        BY <1>10, <2>0, <3>1 DEF Lookup, HeldIsOlder
      <4>3. now \in Slots /\ now <= now
        BY <1>0 DEF TypeOK
      <4>4. o.state = ledger[now][a]
        BY <2>0, <2>2, <4>1, <4>2, <4>3 DEF CacheIsTrue
      <4>. QED BY <1>8, <3>1, <4>4
    <3>2. CASE ~(s > now)
      <4>1. s <= now
        BY <1>8, <3>2
      <4>2. ledger'[s] = ledger[s]
        BY <1>8, <3>2
      <4>3. o.state = ledger[s][a]
        BY <2>0, <2>2, <4>1 DEF CacheIsTrue
      <4>. QED BY <4>2, <4>3
    <3>. QED BY <3>1, <3>2
  <2>3. CacheIsTrue(a)'
    BY <1>0, <2>2 DEF CacheIsTrue, Delivered
  <2>. QED BY <2>1, <2>3
<1>5. QuoterInv'
  <2>1. settled => ref < now' /\ ledger'[ref] = ledger[ref]
    <3>1. ref \in Slots /\ (settled => ref < now)
      BY <1>0 DEF QuoterInv, TypeOK
    <3>2. ref \in Nat /\ now \in Nat /\ now' \in Nat /\ now' > now
      BY <1>0, <3>1
    <3>3. ref < now => ref < now' /\ ~(ref > now)
      BY <3>2
    <3>. QED BY <1>8, <3>1, <3>3
  <2>2. \A a \in Keyed : Delivered(a, ref)' <=> Delivered(a, ref)
    BY <1>0 DEF Delivered
  <2>. QED BY <1>0, <2>1, <2>2 DEF QuoterInv
<1>6. ArrivalsInv'
  BY <1>0 DEF ArrivalsInv
<1>7. ChainInv'
  BY <1>0, <1>3, <1>4 DEF ChainInv
<1>. QED BY <1>1, <1>5, <1>6, <1>7 DEF IInv

(* What the invariant says of the streams and the entries, carried over a  *)
(* step that leaves them alone.                                            *)
LEMMA ChainUnchanged ==
  ASSUME ChainInv, UNCHANGED <<now, ledger, keyed>>,
         \A a \in Accounts : a # Config => stream'[a] = stream[a],
         DOMAIN keyed \subseteq Keyed,
         Travelling(Config)' /\ StreamIsTrue(Config)'
  PROVE  ChainInv'
<1>0. \A a \in Keyed : a \in Accounts /\ a # Config
  BY QuoteAssemblyAssumption DEF Accounts
<1>1. ASSUME NEW a \in Accounts PROVE Travelling(a)' /\ StreamIsTrue(a)'
  <2>1. CASE a = Config
    BY <2>1
  <2>2. CASE a # Config
    <3>1. Travelling(a) /\ StreamIsTrue(a) /\ stream'[a] = stream[a]
      BY <2>2 DEF ChainInv
    <3>2. Travelling(a)'
      BY <3>1 DEF Travelling
    <3>3. StreamIsTrue(a)'
      BY <3>1 DEF StreamIsTrue, LastBy
    <3>. QED BY <3>2, <3>3
  <2>. QED BY <2>1, <2>2
<1>2. ASSUME NEW a \in DOMAIN keyed PROVE HeldIsOlder(a)' /\ CacheIsTrue(a)'
  BY <1>0 DEF ChainInv, HeldIsOlder, CacheIsTrue, Delivered
<1>. QED BY <1>1, <1>2 DEF ChainInv

(* The same of the quoter.                                                 *)
LEMMA QuoterUnchanged ==
  ASSUME QuoterInv, UNCHANGED <<now, ledger, quoteVars>>,
         \A a \in Keyed : stream'[a] = stream[a]
  PROVE  QuoterInv'
  BY DEF QuoterInv, quoteVars, Delivered

(* The node's answer is the config's state in the current slot.            *)
LEMMA RpcReadsStep ==
  ASSUME IInv, RpcReads
  PROVE  IInv'
<1>0. /\ TypeOK /\ ChainInv /\ QuoterInv /\ ArrivalsInv
      /\ UNCHANGED <<now, ledger, stream, keyed, arrived, singleton, quoteVars>>
      /\ Config \in Accounts
  BY DEF IInv, RpcReads, cacheVars, Accounts
<1>1. rpc' \subseteq Observation
  <2>1. /\ now \in Slots
        /\ ledger[now][Config] \in Nat
        /\ ledger[now][Config] <= MaxWrites[Config]
        /\ MaxWrites[Config] \in Nat
        /\ ledger[now][Config] # 0
    BY <1>0, QuoteAssemblyAssumption DEF RpcReads, TypeOK, Never
  <2>2. ledger[now][Config] \in 1 .. MaxWrites[Config]
    BY <2>1
  <2>3. ledger[now][Config] \in States
    BY <1>0, <2>2, QuoteAssemblyAssumption
  <2>. QED BY <2>1, <2>3 DEF RpcReads, Observation
<1>2. TypeOK'
  BY <1>0, <1>1 DEF TypeOK, quoteVars
<1>3. ChainInv'
  <2>1. Travelling(Config)' /\ StreamIsTrue(Config)'
    BY <1>0 DEF ChainInv, Travelling, StreamIsTrue, LastBy
  <2>. QED BY <1>0, <2>1, ChainUnchanged DEF TypeOK
<1>4. QuoterInv'
  BY <1>0, QuoterUnchanged
<1>5. ArrivalsInv'
  BY <1>0 DEF ArrivalsInv
<1>. QED BY <1>2, <1>3, <1>4, <1>5 DEF IInv

(* Taking the first element of a stream leaves the others, one place on.   *)
LEMMA OldestRemoved ==
  ASSUME NEW q \in Seq(Observation), 1 \in DOMAIN q
  PROVE  /\ RemoveAt(q, 1) \in Seq(Observation)
         /\ Len(RemoveAt(q, 1)) = Len(q) - 1
         /\ Len(q) \in Nat \ {0}
         /\ \A i \in 1 .. Len(q) - 1 : RemoveAt(q, 1)[i] = q[i + 1]
<1>1. Len(q) \in Nat \ {0}
  OBVIOUS
<1>2. SubSeq(q, 1, 1 - 1) = << >>
  OBVIOUS
<1>3. /\ SubSeq(q, 1 + 1, Len(q)) \in Seq(Observation)
      /\ Len(SubSeq(q, 1 + 1, Len(q))) = Len(q) - 1
      /\ \A i \in 1 .. Len(q) - 1 : SubSeq(q, 1 + 1, Len(q))[i] = q[i + 1]
  <2>1. SubSeq(q, 1 + 1, Len(q)) = Tail(q)
    BY <1>1
  <2>2. /\ Tail(q) \in Seq(Observation)
        /\ Len(Tail(q)) = Len(q) - 1
        /\ \A i \in 1 .. Len(q) - 1 : Tail(q)[i] = q[i + 1]
    BY <1>1
  <2>. QED BY <2>1, <2>2
<1>4. RemoveAt(q, 1) = SubSeq(q, 1 + 1, Len(q))
  BY <1>2, <1>3 DEF RemoveAt
<1>. QED BY <1>1, <1>3, <1>4

(* What taking the oldest update does to the streams' order and truth, and *)
(* what it says of the update.                                             *)
LEMMA TakeKeepsStream ==
  ASSUME TypeOK, NEW a \in Accounts, 1 \in DOMAIN stream[a],
         UNCHANGED <<now, ledger>>, stream'[a] = RemoveAt(stream[a], 1),
         Travelling(a), StreamIsTrue(a)
  PROVE  /\ Travelling(a)' /\ StreamIsTrue(a)'
         /\ stream[a][1] \in Observation
         /\ stream[a][1].slot <= now
         /\ \A i \in 1 .. Len(stream'[a]) : stream[a][1].slot <= stream'[a][i].slot
         /\ \A s \in Slots :
              /\ Delivered(a, s) => Delivered(a, s)'
              /\ Delivered(a, s)' /\ s < stream[a][1].slot => Delivered(a, s)
              /\ Delivered(a, s)' /\ s <= now /\ stream[a][1].slot <= s =>
                   stream[a][1].state = ledger[s][a]
<1>. DEFINE q == stream[a]
            r == stream'[a]
            n == Len(q)
<1>1. /\ q \in Seq(Observation)
      /\ r \in Seq(Observation)
      /\ n \in Nat \ {0}
      /\ Len(r) = n - 1
      /\ \A i \in 1 .. n - 1 : r[i] = q[i + 1] /\ i + 1 \in 1 .. n
      /\ 1 \in 1 .. n
  <2>1. q \in Seq(Observation)
    BY DEF TypeOK
  <2>. QED BY <2>1, OldestRemoved
<1>2. \A i \in 1 .. n : q[i] \in Observation /\ q[i].slot \in Nat
  BY <1>1, ObservationFacts
<1>3. \A i \in 1 .. n : q[i].slot <= now /\ \A j \in 1 .. i : q[j].slot <= q[i].slot
  BY DEF Travelling
<1>4. \A i \in 2 .. n : i - 1 \in 1 .. n - 1 /\ r[i - 1] = q[i]
  <2>1. ASSUME NEW i \in 2 .. n PROVE i - 1 \in 1 .. n - 1 /\ r[i - 1] = q[i]
    <3>1. i - 1 \in 1 .. n - 1 /\ (i - 1) + 1 = i
      BY <1>1
    <3>2. r[i - 1] = q[(i - 1) + 1]
      BY <1>1, <3>1
    <3>. QED BY <3>1, <3>2
  <2>. QED BY <2>1
<1>. HIDE DEF q, r, n
<1>5. \A i \in 1 .. n - 1 : r[i].slot <= now /\ \A j \in 1 .. i : r[j].slot <= r[i].slot
  <2>1. ASSUME NEW i \in 1 .. n - 1, NEW j \in 1 .. i PROVE r[j].slot <= r[i].slot
    <3>1. j \in 1 .. n - 1 /\ j + 1 \in 1 .. i + 1 /\ i + 1 \in 1 .. n
      BY <1>1
    <3>. QED BY <1>1, <1>3, <3>1
  <2>. QED BY <1>1, <1>3, <2>1
<1>6. Travelling(a)'
  BY <1>1, <1>5 DEF Travelling, r
<1>7. ASSUME NEW s \in Slots, s <= now, NEW i \in 1 .. n - 1, r[i].slot <= s,
             \A j \in 1 .. n - 1 : j > i => r[j].slot > s
      PROVE  r[i].state = ledger[s][a]
  <2>1. i + 1 \in 1 .. n /\ q[i + 1].slot <= s
    BY <1>1, <1>7
  <2>2. ASSUME NEW j \in 1 .. n, j > i + 1 PROVE q[j].slot > s
    <3>1. j \in 2 .. n /\ j - 1 > i
      BY <1>1, <2>2
    <3>. QED BY <1>4, <1>7, <3>1
  <2>3. LastBy(a, s, i + 1)
    BY <2>1, <2>2 DEF LastBy, q, n
  <2>4. q[i + 1].state = ledger[s][a]
    BY <1>7, <2>1, <2>3 DEF StreamIsTrue, q, n
  <2>. QED BY <1>1, <2>4
<1>8. StreamIsTrue(a)'
  BY <1>1, <1>7 DEF StreamIsTrue, LastBy, r
<1>9. \A i \in 1 .. n - 1 : q[1].slot <= r[i].slot
  <2>1. ASSUME NEW i \in 1 .. n - 1 PROVE q[1].slot <= r[i].slot
    <3>1. r[i] = q[i + 1] /\ i + 1 \in 1 .. n /\ 1 \in 1 .. i + 1
      BY <1>1
    <3>2. q[1].slot <= q[i + 1].slot
      BY <1>3, <3>1
    <3>. QED BY <3>1, <3>2
  <2>. QED BY <2>1
<1>10. ASSUME NEW s \in Slots
       PROVE  /\ Delivered(a, s) => Delivered(a, s)'
              /\ Delivered(a, s)' /\ s < q[1].slot => Delivered(a, s)
              /\ Delivered(a, s)' /\ s <= now /\ q[1].slot <= s =>
                   q[1].state = ledger[s][a]
  <2>1. Delivered(a, s) <=> \A i \in 1 .. n : q[i].slot > s
    BY DEF Delivered, q, n
  <2>2. Delivered(a, s)' <=> \A i \in 1 .. n - 1 : r[i].slot > s
    BY <1>1 DEF Delivered, r
  <2>3. Delivered(a, s) => Delivered(a, s)'
    BY <1>1, <2>1, <2>2
  <2>4. Delivered(a, s)' <=> \A i \in 2 .. n : q[i].slot > s
    <3>1. \A i \in 1 .. n - 1 : i + 1 \in 2 .. n
      BY <1>1
    <3>. QED BY <1>1, <1>4, <2>2, <3>1
  <2>5. \A i \in 1 .. n : i = 1 \/ i \in 2 .. n
    BY <1>1
  <2>6. Delivered(a, s)' /\ s < q[1].slot => Delivered(a, s)
    <3>1. s \in Nat /\ q[1].slot \in Nat
      BY <1>1, <1>2, VersionedStateAssumption
    <3>. QED BY <2>1, <2>4, <2>5, <3>1
  <2>7. ASSUME Delivered(a, s)', s <= now, q[1].slot <= s
        PROVE  q[1].state = ledger[s][a]
    <3>1. \A j \in 1 .. n : j > 1 => j \in 2 .. n
      BY <1>1
    <3>2. LastBy(a, s, 1)
      BY <2>4, <2>7, <3>1 DEF LastBy, q, n
    <3>. QED BY <1>1, <2>7, <3>2 DEF StreamIsTrue, q, n
  <2>. QED BY <2>3, <2>6, <2>7
<1>. QED BY <1>1, <1>2, <1>3, <1>6, <1>8, <1>9, <1>10 DEF q, r

-----------------------------------------------------------------------------
(* The handlers' steps. *)

(* The entry a handler leaves is true to the ledger, and retains what      *)
(* arrived.                                                                *)
LEMMA StoreFacts ==
  ASSUME IInv, NEW a \in Keyed, 1 \in DOMAIN stream[a],
         UNCHANGED <<now, ledger>>, stream'[a] = RemoveAt(stream[a], 1),
         Store(a, stream[a][1]),
         arrived' = [arrived EXCEPT ![a] = @ \cup {stream[a][1].slot}]
  PROVE  /\ keyed'[a] \in VersionedState
         /\ Len(keyed'[a].history) <= Depth
         /\ EntryDescends(keyed'[a])
         /\ HeldIsOlder(a)' /\ CacheIsTrue(a)'
         /\ RetainedSlots(keyed'[a]) \subseteq arrived'[a]
         /\ Len(keyed'[a].history) < Depth => arrived'[a] \subseteq RetainedSlots(keyed'[a])
<1>. DEFINE obs == stream[a][1]
            entry == IF a \in DOMAIN keyed THEN AfterInsert(keyed[a], obs)
                                           ELSE NewVersionedState(obs)
<1>1. /\ TypeOK /\ ChainInv /\ ArrivalsInv
      /\ a \in Accounts
      /\ Travelling(a) /\ StreamIsTrue(a)
      /\ \A s \in Slots : s \in Nat
      /\ Depth \in Nat
  BY VersionedStateAssumption DEF IInv, ChainInv, Accounts
<1>2. /\ obs \in Observation
      /\ obs.slot <= now
      /\ obs.slot \in Nat
      /\ \A i \in 1 .. Len(stream'[a]) : obs.slot <= stream'[a][i].slot
      /\ \A s \in Slots :
           /\ Delivered(a, s)' /\ s < obs.slot => Delivered(a, s)
           /\ Delivered(a, s)' /\ s <= now /\ obs.slot <= s => obs.state = ledger[s][a]
  BY <1>1, TakeKeepsStream, ObservationFacts
<1>3. keyed'[a] = entry /\ arrived'[a] = arrived[a] \cup {obs.slot}
  BY <1>1 DEF Store, TypeOK
<1>. HIDE DEF obs
<1>4. CASE a \notin DOMAIN keyed
  <2>1. entry = NewVersionedState(obs)
    BY <1>4
  <2>2. /\ entry.current = obs /\ entry.history = << >>
        /\ entry \in VersionedState
    <3>. HIDE DEF entry
    <3>1. entry = [current |-> obs, history |-> << >>]
      BY <2>1 DEF NewVersionedState
    <3>2. << >> \in Seq(Observation)
      OBVIOUS
    <3>. QED BY <1>2, <3>1, <3>2 DEF VersionedState
  <2>3. Len(entry.history) <= Depth /\ EntryDescends(entry)
    BY <1>1, <2>2 DEF EntryDescends
  <2>4. \A s \in Slots : s < obs.slot => Lookup(entry, s) = {}
    BY <1>1, <1>2, <2>2 DEF Lookup
  <2>5. \A s \in Slots : obs.slot <= s => Lookup(entry, s) = {obs}
    BY <2>2 DEF Lookup
  <2>6. RetainedSlots(entry) = {obs.slot} /\ arrived[a] = {}
    BY <1>1, <1>4, <2>2 DEF RetainedSlots, RetainedBy, ArrivalsInv
  <2>. HIDE DEF entry
  <2>7. HeldIsOlder(a)'
    BY <1>2, <1>3, <2>2 DEF HeldIsOlder
  <2>8. CacheIsTrue(a)'
    <3>1. ASSUME NEW s \in Slots, s <= now, Delivered(a, s)', NEW o \in Lookup(entry, s)
          PROVE  o.state = ledger[s][a]
      BY <1>1, <1>2, <2>4, <2>5, <3>1
    <3>. QED BY <1>3, <3>1 DEF CacheIsTrue
  <2>. QED BY <1>3, <2>2, <2>3, <2>6, <2>7, <2>8
<1>5. CASE a \in DOMAIN keyed
  <2>0. /\ entry = AfterInsert(keyed[a], obs)
        /\ keyed[a] \in VersionedState
        /\ Len(keyed[a].history) <= Depth
        /\ EntryDescends(keyed[a])
        /\ keyed[a].current.slot <= obs.slot
        /\ CacheIsTrue(a)
    <3>1. 1 \in 1 .. Len(stream[a])
      BY <1>1 DEF TypeOK
    <3>. QED BY <1>1, <1>5, <3>1 DEF TypeOK, ChainInv, HeldIsOlder, obs
  <2>. HIDE DEF entry
  <2>1. /\ entry \in VersionedState
        /\ Len(entry.history) <= Depth
        /\ EntryDescends(entry)
    BY <1>2, <2>0, InsertTyped
  <2>2. entry.current = obs
    <3>1. Map!AfterInsert(keyed[a], obs).current = obs
      BY <1>2, <2>0, SameEntries, VersionedStateAssumption, Map!InsertRetains
    <3>. QED BY <2>0, <3>1, SameEntries
  <2>3. HeldIsOlder(a)'
    BY <1>2, <1>3, <2>2 DEF HeldIsOlder
  <2>4. CacheIsTrue(a)'
    <3>1. ASSUME NEW s \in Slots, s <= now, Delivered(a, s)', NEW o \in Lookup(entry, s)
          PROVE  o.state = ledger[s][a]
      <4>1. CASE s < obs.slot
        <5>1. o \in Lookup(keyed[a], s)
          BY <1>2, <2>0, <3>1, <4>1, InsertAnswers
        <5>2. Delivered(a, s)
          BY <1>2, <3>1, <4>1
        <5>. QED BY <2>0, <3>1, <5>1, <5>2 DEF CacheIsTrue
      <4>2. CASE obs.slot <= s
        <5>1. o = obs
          BY <1>2, <2>0, <3>1, <4>2, InsertAnswers
        <5>. QED BY <1>2, <3>1, <4>2, <5>1
      <4>3. s < obs.slot \/ obs.slot <= s
        BY <1>1, <1>2
      <4>. QED BY <4>1, <4>2, <4>3
    <3>. QED BY <1>3, <3>1 DEF CacheIsTrue
  <2>5. /\ RetainedSlots(entry) \subseteq RetainedSlots(keyed[a]) \cup {obs.slot}
        /\ Len(entry.history) < Depth =>
             /\ Len(keyed[a].history) < Depth
             /\ RetainedSlots(keyed[a]) \cup {obs.slot} \subseteq RetainedSlots(entry)
    BY <1>2, <2>0, InsertRetainedSlots
  <2>6. /\ RetainedSlots(keyed[a]) \subseteq arrived[a]
        /\ Len(keyed[a].history) < Depth => arrived[a] \subseteq RetainedSlots(keyed[a])
    BY <1>1, <1>5 DEF ArrivalsInv
  <2>. QED BY <1>3, <2>1, <2>3, <2>4, <2>5, <2>6
<1>. QED BY <1>4, <1>5

(* A keyed account's handler stores the oldest update on its way.          *)
LEMMA ApplyKeyedStep ==
  ASSUME IInv, InOrder, NEW a \in Keyed, ApplyKeyed(a)
  PROVE  IInv'
<1>0. /\ TypeOK /\ ChainInv /\ QuoterInv /\ ArrivalsInv
      /\ a \in Accounts /\ a # Config
      /\ Keyed \subseteq Accounts
  BY QuoteAssemblyAssumption DEF IInv, Accounts
<1>1. /\ 1 \in DOMAIN stream[a]
      /\ Store(a, stream[a][1])
      /\ stream' = [stream EXCEPT ![a] = RemoveAt(@, 1)]
      /\ arrived' = [arrived EXCEPT ![a] = @ \cup {stream[a][1].slot}]
      /\ UNCHANGED <<now, ledger, rpc, singleton, quoteVars>>
  BY DEF ApplyKeyed, Arrivals
<1>2. /\ stream'[a] = RemoveAt(stream[a], 1)
      /\ \A b \in Accounts : b # a => stream'[b] = stream[b]
  BY <1>0, <1>1 DEF TypeOK
<1>3. /\ Travelling(a)' /\ StreamIsTrue(a)'
      /\ stream[a][1] \in Observation
      /\ \A s \in Slots : Delivered(a, s) => Delivered(a, s)'
  BY <1>0, <1>1, <1>2, TakeKeepsStream DEF ChainInv
<1>4. /\ DOMAIN keyed' = DOMAIN keyed \cup {a}
      /\ \A b \in DOMAIN keyed : b # a => keyed'[b] = keyed[b]
  BY <1>1 DEF Store
<1>5. /\ keyed'[a] \in VersionedState
      /\ Len(keyed'[a].history) <= Depth
      /\ EntryDescends(keyed'[a])
      /\ HeldIsOlder(a)' /\ CacheIsTrue(a)'
      /\ RetainedSlots(keyed'[a]) \subseteq arrived'[a]
      /\ Len(keyed'[a].history) < Depth => arrived'[a] \subseteq RetainedSlots(keyed'[a])
  BY <1>1, <1>2, StoreFacts
<1>6. TypeOK'
  <2>1. stream' \in [Accounts -> Seq(Observation)]
    <3>1. stream[a] \in Seq(Observation)
      BY <1>0 DEF TypeOK
    <3>2. RemoveAt(stream[a], 1) \in Seq(Observation)
      BY <1>1, <3>1, OldestRemoved
    <3>. QED BY <1>0, <1>1, <3>2 DEF TypeOK
  <2>2. arrived' \in [Keyed -> SUBSET Slots]
    BY <1>0, <1>1, <1>3, ObservationFacts DEF TypeOK
  <2>3. /\ DOMAIN keyed' \subseteq Keyed
        /\ \A b \in DOMAIN keyed' : /\ keyed'[b] \in VersionedState
                                    /\ Len(keyed'[b].history) <= Depth
                                    /\ EntryDescends(keyed'[b])
    BY <1>0, <1>4, <1>5 DEF TypeOK
  <2>. QED BY <1>0, <1>1, <2>1, <2>2, <2>3 DEF TypeOK, quoteVars
<1>7. ChainInv'
  <2>1. ASSUME NEW b \in Accounts, b # a PROVE Travelling(b)' /\ StreamIsTrue(b)'
    BY <1>0, <1>1, <1>2, <2>1 DEF ChainInv, Travelling, StreamIsTrue, LastBy
  <2>2. ASSUME NEW b \in DOMAIN keyed, b # a PROVE HeldIsOlder(b)' /\ CacheIsTrue(b)'
    <3>1. /\ b \in Accounts /\ stream'[b] = stream[b] /\ keyed'[b] = keyed[b]
          /\ HeldIsOlder(b) /\ CacheIsTrue(b)
      BY <1>0, <1>2, <1>4, <2>2 DEF ChainInv, TypeOK
    <3>. QED BY <1>1, <3>1 DEF HeldIsOlder, CacheIsTrue, Delivered
  <2>. QED BY <1>3, <1>4, <1>5, <2>1, <2>2 DEF ChainInv
<1>8. QuoterInv'
  <2>1. \A b \in Keyed : Delivered(b, ref) => Delivered(b, ref)'
    <3>1. ASSUME NEW b \in Keyed, b # a PROVE Delivered(b, ref) => Delivered(b, ref)'
      BY <1>0, <1>1, <1>2, <3>1 DEF Delivered, quoteVars
    <3>2. Delivered(a, ref) => Delivered(a, ref)'
      BY <1>0, <1>1, <1>3 DEF TypeOK, quoteVars
    <3>. QED BY <3>1, <3>2
  <2>. QED BY <1>0, <1>1, <2>1 DEF QuoterInv, quoteVars
<1>9. ArrivalsInv'
  <2>1. IsFiniteSet(arrived'[a])
    <3>1. arrived'[a] = arrived[a] \cup {stream[a][1].slot}
      BY <1>0, <1>1 DEF TypeOK
    <3>2. IsFiniteSet(arrived[a])
      BY <1>0 DEF ArrivalsInv
    <3>. DEFINE S == arrived[a]
                x == stream[a][1].slot
    <3>3. IsFiniteSet(S \cup {x})
      <4>. HIDE DEF x, S
      <4>1. IsFiniteSet(S)
        BY <3>2 DEF S
      <4>. QED BY ONLY <4>1, FS_AddElement, Zenon
    <3>. QED BY <3>1, <3>3
  <2>2. \A b \in Keyed : b # a => arrived'[b] = arrived[b]
    BY <1>0, <1>1 DEF TypeOK
  <2>. QED BY <1>0, <1>4, <1>5, <2>1, <2>2 DEF ArrivalsInv
<1>. QED BY <1>6, <1>7, <1>8, <1>9 DEF IInv

(* The config is written over by an update, or by what was fetched.        *)
LEMMA ConfigStep ==
  ASSUME IInv, InOrder, ApplyConfig \/ ApplyFetched
  PROVE  IInv'
<1>0. /\ TypeOK /\ ChainInv /\ QuoterInv /\ ArrivalsInv
      /\ Config \in Accounts
      /\ \A a \in Keyed : a # Config /\ a \in Accounts
  BY QuoteAssemblyAssumption DEF IInv, Accounts
<1>1. CASE ApplyConfig
  <2>1. /\ 1 \in DOMAIN stream[Config]
        /\ singleton' = {stream[Config][1]}
        /\ stream' = [stream EXCEPT ![Config] = RemoveAt(@, 1)]
        /\ UNCHANGED <<now, ledger, rpc, keyed, arrived, quoteVars>>
    BY <1>1 DEF ApplyConfig, Arrivals, SetSingleton
  <2>2. /\ stream'[Config] = RemoveAt(stream[Config], 1)
        /\ \A a \in Accounts : a # Config => stream'[a] = stream[a]
    BY <1>0, <2>1 DEF TypeOK
  <2>3. /\ Travelling(Config)' /\ StreamIsTrue(Config)'
        /\ stream[Config][1] \in Observation
    BY <1>0, <2>1, <2>2, TakeKeepsStream DEF ChainInv
  <2>4. stream' \in [Accounts -> Seq(Observation)]
    <3>1. stream[Config] \in Seq(Observation)
      BY <1>0 DEF TypeOK
    <3>2. RemoveAt(stream[Config], 1) \in Seq(Observation)
      BY <2>1, <3>1, OldestRemoved
    <3>. QED BY <1>0, <2>1, <3>2 DEF TypeOK
  <2>5. TypeOK'
    BY <1>0, <2>1, <2>3, <2>4 DEF TypeOK, quoteVars
  <2>6. ChainInv'
    BY <1>0, <2>1, <2>2, <2>3, ChainUnchanged DEF TypeOK
  <2>7. QuoterInv'
    BY <1>0, <2>1, <2>2, QuoterUnchanged
  <2>8. ArrivalsInv'
    BY <1>0, <2>1 DEF ArrivalsInv
  <2>. QED BY <2>5, <2>6, <2>7, <2>8 DEF IInv
<1>2. CASE ApplyFetched
  <2>1. /\ singleton' \subseteq Observation /\ rpc' \subseteq Observation
        /\ UNCHANGED <<now, ledger, stream, keyed, arrived, quoteVars>>
    BY <1>0, <1>2 DEF ApplyFetched, SetSingleton, TypeOK
  <2>2. TypeOK'
    BY <1>0, <2>1 DEF TypeOK, quoteVars
  <2>3. Travelling(Config)' /\ StreamIsTrue(Config)'
    BY <1>0, <2>1 DEF ChainInv, Travelling, StreamIsTrue, LastBy
  <2>4. ChainInv'
    BY <1>0, <2>1, <2>3, ChainUnchanged DEF TypeOK
  <2>5. QuoterInv'
    BY <1>0, <2>1, QuoterUnchanged
  <2>6. ArrivalsInv'
    BY <1>0, <2>1 DEF ArrivalsInv
  <2>. QED BY <2>2, <2>4, <2>5, <2>6 DEF IInv
<1>. QED BY <1>1, <1>2

-----------------------------------------------------------------------------
(* The quoter's steps. *)

(* Fields are keyed accounts. *)
LEMMA FieldFacts ==
  /\ Len(Fields) \in Nat
  /\ DOMAIN Fields = 1 .. Len(Fields)
  /\ \A i \in 1 .. Len(Fields) : Fields[i] \in Keyed
  BY QuoteAssemblyAssumption

(* Assembly begins with nothing read. *)
LEMMA BeginStep ==
  ASSUME IInv, NEW slot \in Slots, Begin(slot)
  PROVE  IInv'
<1>0. /\ TypeOK /\ ChainInv /\ QuoterInv /\ ArrivalsInv
      /\ UNCHANGED <<now, ledger, stream, rpc, keyed, arrived, singleton>>
      /\ phase' = "assembling" /\ ref' = slot /\ bundle' = << >>
  BY DEF IInv, Begin, chainVars, cacheVars
<1>1. settled' = Settled(slot)
  BY DEF Begin
<1>2. settled' \in BOOLEAN
  BY <1>1 DEF Settled
<1>3. TypeOK'
  BY <1>0, <1>2 DEF TypeOK, Phases
<1>4. ChainInv'
  <2>1. Travelling(Config)' /\ StreamIsTrue(Config)'
    BY <1>0 DEF ChainInv, Travelling, StreamIsTrue, LastBy, Accounts
  <2>. QED BY <1>0, <2>1, ChainUnchanged DEF TypeOK
<1>5. QuoterInv'
  <2>1. ASSUME settled' PROVE slot < now /\ \A a \in Keyed : Delivered(a, slot)'
    <3>1. Settled(slot)
      BY <1>1, <2>1
    <3>2. \A a \in Keyed : DOMAIN stream[a] = 1 .. Len(stream[a])
      BY <1>0 DEF TypeOK, Accounts
    <3>. QED BY <1>0, <3>1, <3>2 DEF Settled, Delivered
  <2>. QED BY <1>0, <2>1, FieldFacts DEF QuoterInv
<1>6. ArrivalsInv'
  BY <1>0 DEF ArrivalsInv
<1>. QED BY <1>3, <1>4, <1>5, <1>6 DEF IInv

(* A step of the quoter leaves chain and cache alone. *)
LEMMA ReadsOnly ==
  ASSUME IInv, UNCHANGED <<ref, settled, chainVars, cacheVars>>,
         bundle' \in Seq(Observation), phase' \in Phases, QuoterInv'
  PROVE  IInv'
<1>0. /\ TypeOK /\ ChainInv /\ ArrivalsInv
      /\ UNCHANGED <<now, ledger, stream, rpc, keyed, arrived, singleton, ref, settled>>
  BY DEF IInv, chainVars, cacheVars
<1>1. TypeOK'
  BY <1>0 DEF TypeOK
<1>2. ChainInv'
  <2>1. Travelling(Config)' /\ StreamIsTrue(Config)'
    BY <1>0 DEF ChainInv, Travelling, StreamIsTrue, LastBy, Accounts
  <2>. QED BY <1>0, <2>1, ChainUnchanged DEF TypeOK
<1>3. ArrivalsInv'
  BY <1>0 DEF ArrivalsInv
<1>. QED BY <1>1, <1>2, <1>3 DEF IInv

(* A keyed field read at a settled slot is of that slot.                   *)
LEMMA ReadKeyedStep ==
  ASSUME IInv, ReadKeyed
  PROVE  IInv'
<1>. DEFINE n == Len(bundle)
            found == CachedAt(NextField, ref)
<1>0. /\ TypeOK /\ ChainInv /\ QuoterInv
      /\ phase = "assembling" /\ n < Len(Fields)
      /\ Take(found) /\ (found # {} => UNCHANGED phase)
      /\ UNCHANGED <<ref, settled, chainVars, cacheVars>>
      /\ UNCHANGED <<now, ledger, stream, keyed>>
  BY DEF IInv, ReadKeyed, chainVars, cacheVars
<1>1. /\ n \in Nat /\ n + 1 \in 1 .. Len(Fields)
      /\ NextField = Fields[n + 1]
      /\ NextField \in Keyed
      /\ bundle \in Seq(Observation)
      /\ ref \in Slots
  BY <1>0, FieldFacts DEF TypeOK, NextField
<1>2. \A a \in Keyed : Delivered(a, ref)' <=> Delivered(a, ref)
  BY <1>0 DEF Delivered
<1>3. found \subseteq Observation
  BY <1>0 DEF CachedAt, Lookup, TypeOK, VersionedState
<1>4. ASSUME settled, NEW obs \in found PROVE obs.state = ledger[ref][NextField]
  <2>1. NextField \in DOMAIN keyed /\ obs \in Lookup(keyed[NextField], ref)
    BY <1>4 DEF CachedAt
  <2>2. CacheIsTrue(NextField)
    BY <1>0, <2>1 DEF ChainInv
  <2>3. ref <= now /\ Delivered(NextField, ref)
    <3>1. ref < now /\ Delivered(NextField, ref)
      BY <1>0, <1>1, <1>4 DEF QuoterInv
    <3>. QED BY <1>0, <3>1, VersionedStateAssumption DEF TypeOK
  <2>. QED BY <1>1, <2>1, <2>2, <2>3 DEF CacheIsTrue
<1>. HIDE DEF found, n
<1>5. CASE found = {}
  <2>1. phase' = "Incomplete" /\ bundle' = bundle
    BY <1>0, <1>5 DEF Take
  <2>2. QuoterInv'
    BY <1>0, <1>2, <2>1 DEF QuoterInv
  <2>. QED BY <1>0, <1>1, <2>1, <2>2, ReadsOnly DEF Phases
<1>6. CASE found # {}
  <2>1. PICK obs \in found : bundle' = Append(bundle, obs)
    BY <1>0, <1>6 DEF Take
  <2>2. phase' = "assembling"
    BY <1>0, <1>6
  <2>3. /\ bundle' \in Seq(Observation)
        /\ Len(bundle') = n + 1
        /\ \A i \in 1 .. n : bundle'[i] = bundle[i]
        /\ bundle'[n + 1] = obs
    BY <1>1, <1>3, <2>1 DEF n
  <2>4. ASSUME settled, NEW i \in 1 .. n + 1
        PROVE  bundle'[i].state = ledger[ref][Fields[i]]
    <3>1. CASE i = n + 1
      BY <1>1, <1>4, <2>3, <2>4, <3>1
    <3>2. CASE i # n + 1
      <4>1. i \in 1 .. n /\ i <= Len(Fields)
        BY <1>0, <1>1, <3>2, FieldFacts
      <4>. QED BY <1>0, <2>3, <2>4, <4>1 DEF QuoterInv, n
    <3>. QED BY <3>1, <3>2
  <2>5. QuoterInv'
    <3>1. settled' = settled /\ ref' = ref /\ now' = now /\ ledger' = ledger
      BY <1>0
    <3>2. Len(bundle') <= Len(Fields)
      BY <1>1, <2>3, FieldFacts
    <3>. QED BY <1>0, <1>2, <2>2, <2>3, <2>4, <3>1, <3>2 DEF QuoterInv
  <2>. QED BY <1>0, <2>2, <2>3, <2>5, ReadsOnly DEF Phases
<1>. QED BY <1>5, <1>6

(* The singleton completes the bundle, whatever it is.                     *)
LEMMA ReadSingletonStep ==
  ASSUME IInv, ReadSingleton
  PROVE  IInv'
<1>. DEFINE n == Len(Fields)
<1>0. /\ TypeOK /\ ChainInv /\ QuoterInv
      /\ phase = "assembling" /\ Len(bundle) = n
      /\ Take(singleton) /\ (singleton # {} => phase' = "assembled")
      /\ UNCHANGED <<ref, settled, chainVars, cacheVars>>
      /\ UNCHANGED <<now, ledger, stream, keyed>>
      /\ bundle \in Seq(Observation) /\ singleton \subseteq Observation
      /\ n \in Nat
  BY FieldFacts DEF IInv, ReadSingleton, chainVars, cacheVars, TypeOK
<1>1. \A a \in Keyed : Delivered(a, ref)' <=> Delivered(a, ref)
  BY <1>0 DEF Delivered
<1>2. CASE singleton = {}
  <2>1. phase' = "Incomplete" /\ bundle' = bundle
    BY <1>0, <1>2 DEF Take
  <2>2. QuoterInv'
    BY <1>0, <1>1, <2>1 DEF QuoterInv
  <2>. QED BY <1>0, <2>1, <2>2, ReadsOnly DEF Phases
<1>3. CASE singleton # {}
  <2>1. PICK obs \in singleton : bundle' = Append(bundle, obs)
    BY <1>0, <1>3 DEF Take
  <2>2. /\ bundle' \in Seq(Observation)
        /\ Len(bundle') = n + 1
        /\ \A i \in 1 .. n : bundle'[i] = bundle[i]
    BY <1>0, <2>1
  <2>3. \A i \in 1 .. n + 1 : i <= n => i \in 1 .. n
    BY <1>0
  <2>4. QuoterInv'
    BY <1>0, <1>1, <1>3, <2>2, <2>3 DEF QuoterInv
  <2>. QED BY <1>0, <1>3, <2>2, <2>4, ReadsOnly DEF Phases
<1>. QED BY <1>2, <1>3

(* A step that changes nothing. *)
LEMMA StutterStep ==
  ASSUME IInv, UNCHANGED vars
  PROVE  IInv'
<1>0. /\ TypeOK /\ ChainInv /\ QuoterInv /\ ArrivalsInv
      /\ UNCHANGED <<now, ledger, stream, rpc, keyed, arrived, singleton>>
      /\ UNCHANGED quoteVars
      /\ UNCHANGED <<ref, settled, phase, bundle, chainVars, cacheVars>>
  BY DEF IInv, vars, chainVars, cacheVars, quoteVars
<1>1. QuoterInv'
  BY <1>0, QuoterUnchanged
<1>. QED BY <1>0, <1>1, ReadsOnly DEF TypeOK

(* Every step over an ordered stream preserves the invariant.              *)
LEMMA InvInductive == InOrder /\ IInv /\ [Next]_vars => IInv'
<1>. SUFFICES ASSUME InOrder, IInv, [Next]_vars PROVE IInv'
  OBVIOUS
<1>1. ASSUME NEW tx \in Transactions, Write(tx) PROVE IInv'
  BY <1>1, WriteStep
<1>2. CASE Tick
  BY <1>2, TickStep
<1>3. CASE RpcReads
  BY <1>3, RpcReadsStep
<1>4. ASSUME NEW a \in Keyed, ApplyKeyed(a) PROVE IInv'
  BY <1>4, ApplyKeyedStep
<1>5. CASE ApplyConfig \/ ApplyFetched
  BY <1>5, ConfigStep
<1>6. ASSUME NEW slot \in Slots, Begin(slot) PROVE IInv'
  BY <1>6, BeginStep
<1>7. CASE ReadKeyed
  BY <1>7, ReadKeyedStep
<1>8. CASE ReadSingleton
  BY <1>8, ReadSingletonStep
<1>9. CASE UNCHANGED vars
  BY <1>9, StutterStep
<1>. QED BY <1>1, <1>2, <1>3, <1>4, <1>5, <1>6, <1>7, <1>8, <1>9
         DEF Next, Chain, Handlers, Quoter
-----------------------------------------------------------------------------
(* The theorems. *)

(* So it always holds.                                                     *)
LEMMA InvAlways == InOrder /\ Spec => []IInv
<1>1. InOrder /\ IInv /\ [Next]_vars => IInv'
  BY InvInductive
<1>2. ASSUME InOrder PROVE Spec => []IInv
  <2>1. IInv /\ [Next]_vars => IInv'
    BY <1>1, <1>2
  <2>. QED BY <2>1, InitInv, PTL DEF Spec
<1>3. InOrder \in BOOLEAN
  BY QuoteAssemblyAssumption
<1>. QED BY <1>2, <1>3

(* Over a stream that keeps the order of each account's updates, a bundle  *)
(* assembled (quote_state.rs, get_at_slot for every keyed field) at a slot *)
(* that was over and delivered when assembly began consists of exactly the *)
(* states the accounts had at the end of that slot, although the reads     *)
(* take no lock and newer updates land between any two of them.            *)
THEOREM BundleAlwaysAsOfSlot == InOrder /\ Spec => []BundleIsAsOfSlot
<1>1. IInv => BundleIsAsOfSlot
  <2>. SUFFICES ASSUME IInv, phase = "assembled", settled, NEW i \in DOMAIN Fields
                PROVE  bundle[i].state = ledger[ref][Fields[i]]
    BY DEF BundleIsAsOfSlot
  <2>1. i \in 1 .. Len(bundle) /\ i <= Len(Fields)
    BY FieldFacts DEF IInv, QuoterInv
  <2>. QED BY <2>1 DEF IInv, QuoterInv
<1>. QED BY <1>1, InvAlways, PTL

(* A read of an entry that fails leaves two explanations.                  *)
LEMMA RefusedEntry ==
  ASSUME IInv, NEW a \in DOMAIN keyed, Lookup(keyed[a], ref) = {}
  PROVE  \/ arrived[a] = Superseding(a)
         \/ Cardinality(Superseding(a)) > Depth
<1>. DEFINE entry == keyed[a]
            slots == RetainedSlots(entry)
<1>1. /\ entry \in VersionedState /\ EntryDescends(entry)
      /\ Len(entry.history) <= Depth
      /\ ref \in Nat /\ Depth \in Nat
      /\ Len(entry.history) \in Nat
      /\ a \in Keyed
      /\ arrived[a] \in SUBSET Nat
      /\ IsFiniteSet(arrived[a])
      /\ slots \subseteq arrived[a]
      /\ Len(entry.history) < Depth => arrived[a] \subseteq slots
  <2>1. /\ entry \in VersionedState /\ EntryDescends(entry)
        /\ Len(entry.history) <= Depth
        /\ ref \in Nat /\ Depth \in Nat
        /\ a \in Keyed
    BY VersionedStateAssumption DEF IInv, TypeOK
  <2>2. Len(entry.history) \in Nat
    BY <2>1 DEF VersionedState
  <2>3. arrived[a] \in SUBSET Nat
    BY <2>1, VersionedStateAssumption DEF IInv, TypeOK
  <2>4. /\ IsFiniteSet(arrived[a])
        /\ slots \subseteq arrived[a]
        /\ Len(entry.history) < Depth => arrived[a] \subseteq slots
    BY <2>1 DEF IInv, ArrivalsInv
  <2>. QED BY <2>1, <2>2, <2>3, <2>4
<1>2. \A s \in slots : s > ref
  <2>1. ASSUME NEW o \in RetainedBy(entry) PROVE o.slot > ref
    <3>1. o.slot \in Nat
      BY <1>1, ObservationFacts DEF RetainedBy, VersionedState
    <3>2. ~(o.slot <= ref)
      BY <1>1, LookupFinds
    <3>. QED BY <1>1, <3>1, <3>2
  <2>. QED BY <2>1 DEF RetainedSlots
<1>3. slots \subseteq Superseding(a)
  BY <1>1, <1>2 DEF Superseding
<1>4. CASE Len(entry.history) < Depth
  BY <1>1, <1>2, <1>4 DEF Superseding
<1>5. CASE Len(entry.history) = Depth
  <2>1. Cardinality(slots) = Depth + 1
    BY <1>1, <1>5, RetainedSlotsCount
  <2>2. IsFiniteSet(Superseding(a))
    <3>1. Superseding(a) \in SUBSET arrived[a]
      BY DEF Superseding
    <3>. QED BY <1>1, <3>1, FS_Subset
  <2>3. Cardinality(slots) <= Cardinality(Superseding(a))
    BY <1>3, <2>2, FS_Subset
  <2>4. Cardinality(Superseding(a)) \in Nat
    BY <2>2, FS_CardinalityType
  <2>. QED BY <1>1, <2>1, <2>3, <2>4
<1>. QED BY <1>1, <1>4, <1>5

(* Over such a stream an assembly that fails on a keyed account            *)
(* (quote.rs:49-51) fails because nothing of the account arrived at or     *)
(* before the slot, or because more newer slots of it arrived than the     *)
(* history is deep: never because of how handlers and quoter interleave.   *)
THEOREM RefusalAlwaysHonest == InOrder /\ Spec => RefusalIsHonest
<1>. DEFINE Honest ==
       phase' = "Incomplete" /\ phase # "Incomplete" /\ Len(bundle) < Len(Fields) =>
         \/ arrived[NextField] = Superseding(NextField)
         \/ Cardinality(Superseding(NextField)) > Depth
<1>1. IInv /\ [Next]_vars => [Honest]_vars
  <2>. SUFFICES ASSUME IInv, Next, phase' = "Incomplete", phase # "Incomplete",
                       Len(bundle) < Len(Fields)
                PROVE  \/ arrived[NextField] = Superseding(NextField)
                       \/ Cardinality(Superseding(NextField)) > Depth
    OBVIOUS
  <2>1. ReadKeyed
    <3>1. Len(bundle) \in Nat /\ Len(Fields) \in Nat
      BY FieldFacts DEF IInv, TypeOK
    <3>2. ~ReadSingleton
      BY <3>1 DEF ReadSingleton
    <3>3. \A tx \in Transactions : ~Write(tx)
      BY DEF Write, quoteVars
    <3>4. ~Tick /\ ~RpcReads /\ ~ApplyConfig /\ ~ApplyFetched
      BY DEF Tick, RpcReads, ApplyConfig, ApplyFetched, quoteVars
    <3>5. \A a \in Keyed : ~ApplyKeyed(a)
      BY DEF ApplyKeyed, quoteVars
    <3>6. \A slot \in Slots : ~Begin(slot)
      BY DEF Begin
    <3>. QED BY <3>2, <3>3, <3>4, <3>5, <3>6 DEF Next, Chain, Handlers, Quoter
  <2>2. CachedAt(NextField, ref) = {}
    BY <2>1 DEF ReadKeyed
  <2>3. NextField \in Keyed
    <3>1. Len(bundle) + 1 \in 1 .. Len(Fields)
      BY FieldFacts DEF IInv, TypeOK
    <3>. QED BY <3>1, FieldFacts DEF NextField
  <2>4. CASE NextField \notin DOMAIN keyed
    BY <2>3, <2>4 DEF IInv, ArrivalsInv, Superseding
  <2>5. CASE NextField \in DOMAIN keyed
    BY <2>2, <2>5, RefusedEntry DEF CachedAt
  <2>. QED BY <2>4, <2>5
<1>. QED BY <1>1, InvAlways, PTL DEF Spec, RefusalIsHonest
=============================================================================
