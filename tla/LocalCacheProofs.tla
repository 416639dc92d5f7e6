-------------------------- MODULE LocalCacheProofs --------------------------
(***************************************************************************)
(* Proofs about LocalCache for any number of tasks, keys and files, where  *)
(* callers do not overlap two save() calls: whatever crashes, failed saves *)
(* and inserts come in between, the snapshot loads, keeps what was         *)
(* acknowledged but for as many keys as were added while it was written,   *)
(* takes back no more than that, and a final drop saves alone.             *)
(***************************************************************************)
EXTENDS LocalCache, FiniteSetTheorems, TLAPS

\* A file name is bound to one file or to none.
Names == {{}} \cup {{i} : i \in Inodes}

Items == [of : Keys \cup {"count", "depth"}, value : Nat]

\* A payload: the count, entries, and at the end perhaps the depth.
Shaped(s) ==
    /\ s \in Seq(Items)
    /\ s # << >> => s[1].of = "count"
    /\ \A n \in 2 .. Len(s) : s[n].of \in Keys \/ (n = Len(s) /\ s[n].of = "depth")

\* What a file holds that one writer wrote from its beginning on.
Laid(s) == [p \in Positions |-> IF p <= Len(s) THEN {SubSeq(s, 1, p)} ELSE {}]

\* A file that holds one payload, with at most as many entries beyond those it counts
\* as the set g has members.
Sealed(blocks, g, s) ==
    /\ Shaped(s) /\ Ended(s) /\ Len(s) <= Cardinality(Keys) + 2
    /\ blocks = Laid(s)
    /\ Counted(s) <= Entries(s)
    /\ Entries(s) <= Counted(s) + Cardinality(g)

\* What Keeps says of one payload.
Concedes(s, g, versions) ==
    /\ \A k \in Missed(s, versions) : Restored(s)[k] = 0
    /\ Cardinality(Missed(s, versions)) <= Cardinality(g)

\* The entries of a payload that is being written.
Written(s) == IF Ended(s) THEN Len(s) - 2 ELSE Len(s) - 1

\* load_or_new never refuses: "refused" is no state of the process.
Typed ==
    /\ process \in {"up", "down"}
    /\ mem \in [Keys -> Nat]
    /\ phase \in [Tasks -> Phases]
    /\ persisted \in BOOLEAN
    /\ tmp \in Names
    /\ path \in Names
    /\ content \in [Inodes -> [Positions -> SUBSET Seq(Items)]]
    /\ fd \in [Tasks -> Names]
    /\ left \in [Tasks -> SUBSET Keys]
    /\ count \in [Tasks -> Nat]
    /\ out \in [Tasks -> Seq(Items)]
    /\ atCall \in [Tasks -> [Keys -> Nat]]
    /\ grown \in [Inodes -> SUBSET Keys]
    /\ durable \in [Keys -> Nat]
    /\ blind \in BOOLEAN
    /\ lost \in BOOLEAN

\* Saves do not overlap, whoever makes them.
OneSaver == \A t, u \in Tasks : Busy(t) /\ Busy(u) => t = u

\* A process that is down has no clones and has dropped none, and only one with a path
\* has files.
ClonesNeedProcess == process = "down" => ~persisted /\ \A t \in Tasks : phase[t] = "none"

FilesNeedPath == ((\E t \in Tasks : Busy(t)) \/ path # {}) => PersistOnDrop

\* Once a drop has saved, nobody can use the cache.
PersistedIsLast ==
    process = "up" /\ persisted => \A t \in Tasks : phase[t] \notin {"live", "saving"}

\* A drop that saves is alone with a memory that stays as it was.
DropSavesAlone ==
    \A t \in Tasks : phase[t] = "dropSaving" =>
        /\ \A u \in Tasks \ {t} : phase[u] = "none"
        /\ atCall[t] = mem
        /\ \A i \in fd[t] : grown[i] = {}

\* A saver writes the temporary file, which holds what it wrote so far, and which
\* is not the snapshot.
SaverOwnsTmp ==
    /\ tmp \cap path = {}
    /\ \A t \in Tasks :
          /\ ~Busy(t) => fd[t] = {}
          /\ Busy(t) /\ fd[t] = {} => out[t] = << >> /\ left[t] = Keys /\ count[t] = 0
          /\ \A i \in fd[t] : tmp = {i} /\ content[i] = Laid(out[t])

\* The keys counted are those that were there at the start and perhaps some of those
\* added since; the entries written are those counted, but for the ones still to come,
\* and those added between the passes.
Bounds(there, c, s, l, g) ==
    /\ s = << >> => /\ Cardinality((there \ g) \ l) <= c
                    /\ c <= Cardinality(there \ l)
    /\ s # << >> => /\ Cardinality(there \ g) <= Counted(s)
                    /\ Counted(s) <= Written(s) + Cardinality(there \cap l)
                    /\ Written(s) <= Cardinality(there \ l)

CountsMiss ==
    \A t \in Tasks : \A i \in fd[t] :
        /\ grown[i] \subseteq Present
        /\ Shaped(out[t])
        /\ Ended(out[t]) => left[t] = {}
        /\ Bounds(Present, count[t], out[t], left[t], grown[i])

\* Every entry written is as new as the memory was at the call and no newer than it is,
\* and every key the memory had at the call is written once its shard has been.
Fresh(s, l, since) ==
    /\ \A n \in 2 .. Len(s) : s[n].of \in Keys =>
          /\ s[n].of \notin l
          /\ 0 < s[n].value /\ since[s[n].of] <= s[n].value /\ s[n].value <= mem[s[n].of]
    /\ s # << >> => \A k \in Keys \ l : since[k] > 0 => \E n \in 2 .. Len(s) : s[n].of = k

WrittenSinceCall ==
    \A t \in Tasks : Busy(t) =>
        /\ \A k \in Keys : atCall[t][k] <= mem[k] /\ durable[k] <= atCall[t][k]
        /\ Fresh(out[t], left[t], atCall[t])

\* Versions only go forward: what was acknowledged, the snapshot unless this process
\* has not seen it, the memory when a save was called, the memory now.
Behind(s) ==
    \A k \in Keys : /\ Restored(s)[k] <= mem[k]
                    /\ \A t \in Tasks : Busy(t) => Restored(s)[k] <= atCall[t][k]

SnapshotIsOld ==
    /\ path = {} => durable = Zero
    /\ process = "up" => \A k \in Keys : durable[k] <= mem[k]
    /\ \A i \in path : \E s \in Seq(Items) :
          /\ Sealed(content[i], grown[i], s)
          /\ Concedes(s, grown[i], durable)
          /\ process = "up" /\ ~blind => Behind(s)

\* When all that is left to do is release, the last drop has saved, unless drops
\* overlapped or the save failed.
LastDropSaved ==
    process = "up" /\ PersistOnDrop /\ ~lost /\ (\A t \in Tasks : phase[t] \in {"none", "releasing"}) =>
        \E i \in path : \E s \in Readable(content[i]) : Restored(s) = mem

\* Inductive when saves are serial.
CInv ==
    /\ Typed /\ OneSaver /\ ClonesNeedProcess /\ FilesNeedPath /\ PersistedIsLast
    /\ DropSavesAlone /\ SaverOwnsTmp /\ CountsMiss /\ WrittenSinceCall /\ SnapshotIsOld
    /\ LastDropSaved

-----------------------------------------------------------------------------
(* Payloads. *)

LEMMA EmptySeq == \A S : << >> \in Seq(S) /\ Len(<< >>) = 0
  OBVIOUS

LEMMA EmptyName == {} \in Names
  BY DEF Names

LEMMA KeyCount == Cardinality(Keys) \in Nat /\ 1 \in Positions
<1>1. Cardinality(Keys) \in Nat
  BY LocalCacheAssumption, FS_CardinalityType
<1> QED
  BY <1>1 DEF Positions

\* Sets of keys are finite.
LEMMA KeySets ==
    ASSUME NEW S \in SUBSET Keys
    PROVE  /\ IsFiniteSet(S) /\ Cardinality(S) \in Nat /\ Cardinality(S) <= Cardinality(Keys)
           /\ \A T \in SUBSET S : Cardinality(T) <= Cardinality(S)
<1>1. IsFiniteSet(S) /\ Cardinality(S) <= Cardinality(Keys)
  BY LocalCacheAssumption, FS_Subset
<1>2. Cardinality(S) \in Nat
  BY <1>1, FS_CardinalityType
<1>3. \A T \in SUBSET S : Cardinality(T) <= Cardinality(S)
  BY <1>1, FS_Subset
<1> QED
  BY <1>1, <1>2, <1>3

\* A longer sequence starts as it did.
LEMMA AppendKeepsPrefix ==
    ASSUME NEW S, NEW s \in Seq(S), NEW v \in S, NEW k \in 1 .. Len(s)
    PROVE  SubSeq(Append(s, v), 1, k) = SubSeq(s, 1, k)
<1>1. Append(s, v) \in Seq(S) /\ Len(Append(s, v)) = Len(s) + 1
  OBVIOUS
<1>2. \A n \in 1 .. k : Append(s, v)[n] = s[n]
  OBVIOUS
<1> QED
  BY <1>1, <1>2

LEMMA WholeSequence ==
    ASSUME NEW S, NEW s \in Seq(S)
    PROVE  SubSeq(s, 1, Len(s)) = s
  OBVIOUS

\* One more item makes one more block.
LEMMA LaidOn ==
    ASSUME NEW s \in Seq(Items), NEW v \in Items, Len(s) + 1 <= Cardinality(Keys) + 2
    PROVE  /\ [Laid(s) EXCEPT ![Len(Append(s, v))] = {Append(s, v)}] = Laid(Append(s, v))
<1> DEFINE r == Append(s, v)
<1>1. r \in Seq(Items) /\ Len(r) = Len(s) + 1 /\ Len(s) \in Nat
  OBVIOUS
<1>2. Len(r) \in Positions /\ Positions \subseteq Nat \ {0}
  BY <1>1, KeyCount DEF Positions
<1>3. ASSUME NEW p \in Positions
      PROVE  [Laid(s) EXCEPT ![Len(r)] = {r}][p] = Laid(r)[p]
  <2>1. CASE p = Len(r)
    <3>1. SubSeq(r, 1, Len(r)) = r
      BY <1>1, WholeSequence
    <3> QED
      BY <1>1, <1>2, <2>1, <3>1 DEF Laid
  <2>2. CASE p # Len(r) /\ p <= Len(s)
    <3>1. SubSeq(r, 1, p) = SubSeq(s, 1, p)
      BY <1>2, <2>2, AppendKeepsPrefix
    <3>2. p <= Len(r) /\ p \in Nat
      BY <1>1, <1>2, <2>2
    <3> HIDE DEF r
    <3> QED
      BY <2>2, <3>1, <3>2 DEF Laid
  <2>3. CASE p # Len(r) /\ ~(p <= Len(s))
    <3>1. ~(p <= Len(r))
      BY <1>1, <1>2, <2>3
    <3> HIDE DEF r
    <3> QED
      BY <2>3, <3>1 DEF Laid
  <2> QED
    BY <2>1, <2>2, <2>3
<1> HIDE DEF r
<1>4. [Laid(s) EXCEPT ![Len(r)] = {r}] = Laid(r)
  BY <1>3 DEF Laid
<1> QED
  BY <1>4 DEF r

\* The only payload of a sealed file is the one it was sealed with.
LEMMA SealedIsRead ==
    ASSUME NEW blocks, NEW g, NEW s, Sealed(blocks, g, s)
    PROVE  Readable(blocks) = {s}
<1>1. /\ s \in Seq(Items) /\ Len(s) \in Nat /\ Len(s) > 0 /\ s[Len(s)].of = "depth"
      /\ Len(s) <= Cardinality(Keys) + 2
      /\ \A p \in Positions : blocks[p] = IF p <= Len(s) THEN {SubSeq(s, 1, p)} ELSE {}
  BY DEF Sealed, Shaped, Ended, Laid
<1>2. Len(s) \in Positions /\ Positions \subseteq Nat \ {0} /\ SubSeq(s, 1, Len(s)) = s
  BY <1>1, KeyCount, WholeSequence DEF Positions
<1>3. \A p \in 1 .. Len(s) : p \in Positions
  BY <1>1, KeyCount DEF Positions
<1>4. s \in Readable(blocks)
  <2>1. \A p \in Positions : p <= Len(s) => blocks[p] = {SubSeq(s, 1, p)}
    BY <1>1, Zenon
  <2>2. \A p \in 1 .. Len(s) : p <= Len(s)
    BY <1>1
  <2>3. \A p \in 1 .. Len(s) : blocks[p] = {SubSeq(s, 1, p)}
    BY <1>3, <2>1, <2>2, Zenon
  <2>4. Len(s) <= Len(s)
    BY <1>1
  <2>5. s \in blocks[Len(s)]
    BY <1>2, <2>1, <2>4, Zenon
  <2> QED
    BY <1>2, <2>3, <2>5 DEF Readable, Streams, Sealed
<1>5. ASSUME NEW r \in Readable(blocks)
      PROVE  r = s
  <2>1. PICK p \in Positions : r \in blocks[p]
    BY DEF Readable, Streams
  <2>2. p <= Len(s) /\ r = SubSeq(s, 1, p) /\ p \in Nat \ {0}
    BY <1>1, <1>2, <2>1
  <2>3. r \in Seq(Items) /\ Len(r) = p /\ r[p] = s[p]
    BY <1>1, <2>2
  <2>4. s[p].of = "depth"
    BY <2>3 DEF Readable, Streams, Ended
  <2>5. p = Len(s)
    <3>1. CASE p = 1
      BY <2>4, <3>1, <1>1 DEF Sealed, Shaped
    <3>2. CASE p # 1
      <4>1. p \in 2 .. Len(s)
        BY <1>1, <2>2, <3>2
      <4>2. s[p].of \notin Keys
        BY <2>4, LocalCacheAssumption
      <4> QED
        BY <4>1, <4>2 DEF Sealed, Shaped
    <3> QED
      BY <3>1, <3>2
  <2> QED
    BY <1>2, <2>2, <2>5
<1> QED
  BY <1>4, <1>5

\* An entry read back is one written.
LEMMA RestoredIsWritten ==
    ASSUME NEW blocks, NEW g, NEW s, Sealed(blocks, g, s), NEW k \in Keys
    PROVE  /\ Restored(s)[k] \in Nat
           /\ \/ /\ Restored(s)[k] = 0
                 /\ \A n \in 2 .. Counted(s) + 1 : s[n].of # k
              \/ \E n \in 2 .. Len(s) : s[n].of = k /\ Restored(s)[k] = s[n].value
<1> DEFINE at == {n \in 2 .. Counted(s) + 1 : s[n].of = k}
<1>1. Restored(s)[k] = IF at = {} THEN 0 ELSE s[CHOOSE n \in at : TRUE].value
  BY DEF Restored
<1>2. CASE at = {}
  BY <1>1, <1>2
<1>3. CASE at # {}
  <2> DEFINE m == CHOOSE n \in at : TRUE
  <2>1. m \in at
    BY <1>3
  <2>2. Restored(s)[k] = s[m].value
    BY <1>1, <1>3
  <2>3. Counted(s) \in Nat /\ s \in Seq(Items) /\ Len(s) \in Nat /\ Counted(s) + 2 <= Len(s)
    <3>1. s \in Seq(Items) /\ Len(s) \in Nat /\ Len(s) > 0
      BY DEF Sealed, Shaped, Ended
    <3>2. s[1] \in Items
      BY <3>1
    <3> QED
      BY <3>1, <3>2 DEF Sealed, Counted, Entries, Items
  <2> HIDE DEF m
  <2>4. m \in 2 .. Len(s) /\ s[m].of = k
    BY <2>1, <2>3
  <2>5. s[m] \in Items
    BY <2>3, <2>4
  <2> QED
    BY <2>2, <2>4, <2>5 DEF Items
<1> QED
  BY <1>2, <1>3

\* A payload in which every key is as new as in versions misses only keys it has not
\* counted.
LEMMA FreshConcedes ==
    ASSUME NEW blocks, NEW g \in SUBSET Keys, NEW s, Sealed(blocks, g, s),
           NEW versions \in [Keys -> Nat],
           \A n \in 2 .. Len(s) : s[n].of \in Keys => versions[s[n].of] <= s[n].value,
           \A k \in Keys : versions[k] > 0 => \E n \in 2 .. Len(s) : s[n].of = k
    PROVE  Concedes(s, g, versions)
<1> DEFINE Behindhand == Counted(s) + 2 .. Len(s) - 1
           At == [n \in Behindhand |-> s[n].of]
           Ofs == {s[n].of : n \in Behindhand}
<1>1. /\ s \in Seq(Items) /\ Len(s) \in Nat /\ Counted(s) \in Nat /\ Counted(s) + 2 <= Len(s)
      /\ Len(s) - 2 <= Counted(s) + Cardinality(g) /\ Cardinality(g) \in Nat
  <2>1. s \in Seq(Items) /\ Len(s) \in Nat /\ Len(s) > 0
    BY DEF Sealed, Shaped, Ended
  <2>2. s[1] \in Items
    BY <2>1
  <2> QED
    BY <2>1, <2>2, KeySets DEF Sealed, Counted, Entries, Items
<1>2. ASSUME NEW k \in Missed(s, versions)
      PROVE  Restored(s)[k] = 0 /\ k \in Ofs
  <2>1. k \in Keys /\ Restored(s)[k] < versions[k] /\ versions[k] \in Nat
    BY DEF Missed
  <2>2. Restored(s)[k] = 0 /\ \A n \in 2 .. Counted(s) + 1 : s[n].of # k
    <3>1. ASSUME NEW n \in 2 .. Len(s), s[n].of = k, Restored(s)[k] = s[n].value
          PROVE  FALSE
      <4>1. s[n] \in Items
        BY <1>1
      <4> QED
        BY <2>1, <3>1, <4>1 DEF Items
    <3> QED
      BY <2>1, <3>1, RestoredIsWritten
  <2>3. PICK n \in 2 .. Len(s) : s[n].of = k
    BY <2>1, <2>2
  <2>4. n # Len(s)
    BY <2>1, <2>3, LocalCacheAssumption DEF Sealed, Ended
  <2>5. n \in Behindhand
    BY <1>1, <2>2, <2>3, <2>4
  <2> QED
    BY <2>2, <2>3, <2>5
<1>3. Cardinality(Ofs) <= Cardinality(g) /\ IsFiniteSet(Ofs)
  <2>1. /\ \E a \in Int : a = Counted(s) + 2
        /\ \E b \in Int : b = Len(s) - 1
    <3>1. Counted(s) + 2 \in Int /\ Len(s) - 1 \in Int
      BY <1>1
    <3> QED
      BY <3>1, Zenon
  <2> PICK a \in Int : a = Counted(s) + 2
    BY <2>1
  <2> PICK b \in Int : b = Len(s) - 1
    BY <2>1
  <2>2. /\ IsFiniteSet(a .. b)
        /\ Cardinality(a .. b) = IF a > b THEN 0 ELSE b - a + 1
    BY FS_Interval
  <2>3. IsFiniteSet(Behindhand) /\ Cardinality(Behindhand) = Cardinality(a .. b)
    BY <2>2
  <2>4. Cardinality(Behindhand) <= Cardinality(g) /\ Cardinality(Behindhand) \in Nat
    BY <1>1, <2>2, <2>3
  <2>5. At \in Surjection(Behindhand, Ofs)
    BY DEF Surjection
  <2>6. IsFiniteSet(Ofs) /\ Cardinality(Ofs) <= Cardinality(Behindhand)
    BY <2>3, <2>5, FS_Surjection
  <2>7. Cardinality(Ofs) \in Nat
    BY <2>6, FS_CardinalityType
  <2> QED
    BY <1>1, <2>4, <2>6, <2>7
<1>4. Cardinality(Missed(s, versions)) <= Cardinality(g)
  <2>1. Missed(s, versions) \subseteq Ofs
    BY <1>2
  <2> HIDE DEF Ofs
  <2>2. Cardinality(Missed(s, versions)) <= Cardinality(Ofs) /\ IsFiniteSet(Missed(s, versions))
    BY <1>3, <2>1, FS_Subset
  <2>3. Cardinality(Ofs) \in Nat /\ Cardinality(Missed(s, versions)) \in Nat
    BY <1>3, <2>2, FS_CardinalityType
  <2> QED
    BY <1>1, <1>3, <2>2, <2>3
<1> QED
  BY <1>2, <1>4 DEF Concedes

\* Where nothing is missed, nothing is conceded.
LEMMA NoneMissed ==
    ASSUME NEW s, NEW g \in SUBSET Keys, NEW versions,
           \A k \in Keys : ~(Restored(s)[k] < versions[k])
    PROVE  Concedes(s, g, versions)
<1>1. Missed(s, versions) = {}
  BY DEF Missed
<1> QED
  BY <1>1, FS_EmptySet, KeySets DEF Concedes

-----------------------------------------------------------------------------
(* Sets of keys. *)

\* One key more, one key less.
LEMMA OneKey ==
    ASSUME NEW S \in SUBSET Keys, NEW k \in Keys
    PROVE  /\ k \notin S => Cardinality(S \cup {k}) = Cardinality(S) + 1
           /\ k \in S => Cardinality(S \ {k}) = Cardinality(S) - 1
<1>1. IsFiniteSet(S)
  BY KeySets
<1>2. k \notin S => Cardinality(S \cup {k}) = Cardinality(S) + 1
  BY <1>1, FS_AddElement
<1>3. k \in S => Cardinality(S \ {k}) = Cardinality(S) - 1
  BY <1>1, FS_RemoveElement
<1> QED
  BY <1>2, <1>3

\* What a set has beyond another is no more than what it has of a third and the rest.
LEMMA TwoParts ==
    ASSUME NEW S \in SUBSET Keys, NEW g \in SUBSET Keys
    PROVE  Cardinality(S) <= Cardinality(S \ g) + Cardinality(g)
<1> DEFINE d == S \ g
<1>1. IsFiniteSet(d) /\ IsFiniteSet(g) /\ d \in SUBSET Keys
  BY KeySets
<1>2. Cardinality(d \cup g) = Cardinality(d) + Cardinality(g) - Cardinality(d \cap g)
  BY <1>1, FS_Union
<1>3. d \cap g = {} /\ S \subseteq (d \cup g) /\ (d \cup g) \in SUBSET Keys
  OBVIOUS
<1>4. Cardinality(d \cap g) = 0
  BY <1>3, FS_EmptySet
<1>5. Cardinality(S) <= Cardinality(d \cup g)
  BY <1>3, KeySets
<1>6. Cardinality(d) \in Nat /\ Cardinality(g) \in Nat /\ Cardinality(S) \in Nat
  BY <1>1, KeySets
<1> HIDE DEF d
<1>7. Cardinality(S) <= Cardinality(d) + Cardinality(g)
  BY <1>2, <1>4, <1>5, <1>6
<1> QED
  BY <1>7 DEF d

LEMMA NoKeys == Cardinality({}) = 0
  BY FS_EmptySet

LEMMA PayloadNumbers ==
    ASSUME NEW s \in Seq(Items), s # << >>
    PROVE  Len(s) \in Nat \ {0} /\ Counted(s) \in Nat /\ Written(s) \in Int
<1>1. Len(s) \in Nat \ {0} /\ s[1] \in Items
  BY EmptySeq
<1> QED
  BY <1>1 DEF Counted, Written, Items

\* Keys that are new everywhere leave the bounds as they are.
LEMMA MoreKeys ==
    ASSUME NEW P \in SUBSET Keys, NEW Q \in SUBSET Keys, P \subseteq Q,
           NEW l \in SUBSET Keys, NEW g, NEW h, Q \ h = P \ g,
           NEW c \in Nat, NEW s \in Seq(Items), Bounds(P, c, s, l, g)
    PROVE  Bounds(Q, c, s, l, h)
<1>1. /\ Cardinality(P \ l) <= Cardinality(Q \ l)
      /\ Cardinality(P \ l) \in Nat /\ Cardinality(Q \ l) \in Nat
  <2>1. Q \ l \in SUBSET Keys /\ P \ l \in SUBSET (Q \ l) /\ P \ l \in SUBSET Keys
    OBVIOUS
  <2> QED
    BY <2>1, KeySets
<1>2. /\ Cardinality(P \cap l) <= Cardinality(Q \cap l)
      /\ Cardinality(P \cap l) \in Nat /\ Cardinality(Q \cap l) \in Nat
  <2>1. Q \cap l \in SUBSET Keys /\ P \cap l \in SUBSET (Q \cap l) /\ P \cap l \in SUBSET Keys
    OBVIOUS
  <2> QED
    BY <2>1, KeySets
<1>3. CASE s = << >>
  <2>1. Cardinality((P \ g) \ l) <= c /\ c <= Cardinality(P \ l)
    BY <1>3 DEF Bounds
  <2>2. Cardinality((Q \ h) \ l) <= c
    BY <2>1, Zenon
  <2>3. c <= Cardinality(Q \ l)
    BY <1>1, <2>1
  <2> QED
    BY <1>3, <2>2, <2>3 DEF Bounds
<1>4. CASE s # << >>
  <2>1. Counted(s) <= Written(s) + Cardinality(Q \cap l)
    BY <1>2, <1>4, PayloadNumbers DEF Bounds
  <2>2. Written(s) <= Cardinality(Q \ l)
    BY <1>1, <1>4, PayloadNumbers DEF Bounds
  <2> QED
    BY <1>4, <2>1, <2>2 DEF Bounds
<1> QED
  BY <1>3, <1>4

\* A shard is counted with or without a key.
LEMMA CountOne ==
    ASSUME NEW P \in SUBSET Keys, NEW l \in SUBSET Keys, NEW g, NEW k \in l,
           NEW c \in Nat, Bounds(P, c, << >>, l, g)
    PROVE  Bounds(P, IF k \in P THEN c + 1 ELSE c, << >>, l \ {k}, g)
<1> DEFINE a == (P \ g) \ l
           b == P \ l
           a2 == (P \ g) \ (l \ {k})
           b2 == P \ (l \ {k})
           c2 == IF k \in P THEN c + 1 ELSE c
<1>1. Cardinality(a) <= c /\ c <= Cardinality(b)
  BY DEF Bounds
<1>2. /\ a \in SUBSET Keys /\ b \in SUBSET Keys /\ k \notin a /\ k \notin b /\ k \in Keys
      /\ a2 = (IF k \in P \ g THEN a \cup {k} ELSE a)
      /\ b2 = (IF k \in P THEN b \cup {k} ELSE b)
      /\ k \in P \ g => k \in P
  OBVIOUS
<1> HIDE DEF a, b, a2, b2
<1>3. Cardinality(a) \in Nat /\ Cardinality(b) \in Nat
  BY <1>2, KeySets
<1>4. /\ Cardinality(a \cup {k}) = Cardinality(a) + 1
      /\ Cardinality(b \cup {k}) = Cardinality(b) + 1
  BY <1>2, OneKey
<1>5. Cardinality(a2) <= c2 /\ c2 <= Cardinality(b2)
  <2>1. CASE k \in P
    <3>1. Cardinality(a2) = Cardinality(a) + 1 \/ Cardinality(a2) = Cardinality(a)
      BY <1>2, <1>4
    <3>2. Cardinality(b2) = Cardinality(b) + 1
      BY <1>2, <1>4, <2>1
    <3> QED
      BY <1>1, <1>3, <2>1, <3>1, <3>2
  <2>2. CASE k \notin P
    BY <1>1, <1>2, <2>2
  <2> QED
    BY <2>1, <2>2
<1> HIDE DEF c2
<1>6. Bounds(P, c2, << >>, l \ {k}, g)
  BY <1>5 DEF Bounds, a2, b2
<1> QED
  BY <1>6 DEF c2

\* The payload begins with what was counted, and every shard is to be visited again.
LEMMA CountWritten ==
    ASSUME NEW P \in SUBSET Keys, NEW g, NEW c \in Nat, Bounds(P, c, << >>, {}, g),
           NEW s \in Seq(Items), Len(s) = 1, s[1] = Item("count", c)
    PROVE  Shaped(s) /\ ~Ended(s) /\ Bounds(P, c, s, Keys, g)
<1>1. s # << >> /\ Counted(s) = c /\ s[1].of = "count" /\ ~Ended(s) /\ Written(s) = 0
  <2>1. s # << >>
    BY EmptySeq
  <2>2. s[1].of = "count" /\ s[1].value = c
    BY DEF Item
  <2>3. ~Ended(s)
    BY <2>2 DEF Ended
  <2> QED
    BY <2>1, <2>2, <2>3 DEF Counted, Written
<1>2. Shaped(s)
  BY <1>1 DEF Shaped
<1>3. (P \ g) \ {} = P \ g /\ P \ {} = P /\ P \cap Keys = P /\ P \ Keys = {}
  OBVIOUS
<1>4. Cardinality(P \ g) <= c /\ c <= Cardinality(P)
  BY <1>3, Zenon DEF Bounds
<1>5. Cardinality(P) \in Nat /\ Cardinality(P \ Keys) = 0
  BY <1>3, NoKeys, KeySets
<1>6. c <= 0 + Cardinality(P \cap Keys)
  <2>1. Cardinality(P \cap Keys) = Cardinality(P)
    BY <1>3, Zenon
  <2> QED
    BY <1>4, <1>5, <2>1
<1> QED
  BY <1>1, <1>2, <1>4, <1>5, <1>6 DEF Bounds

\* A shard is written that has no key.
LEMMA WriteNone ==
    ASSUME NEW P \in SUBSET Keys, NEW l \in SUBSET Keys, NEW g, NEW k \in l, k \notin P,
           NEW c \in Nat, NEW s, s # << >>, Bounds(P, c, s, l, g)
    PROVE  Bounds(P, c, s, l \ {k}, g)
<1>1. P \cap (l \ {k}) = P \cap l /\ P \ (l \ {k}) = P \ l
  OBVIOUS
<1> QED
  BY <1>1, Zenon DEF Bounds

\* An entry is written, and there is room for the depth behind it.
LEMMA WriteOne ==
    ASSUME NEW P \in SUBSET Keys, NEW l \in SUBSET Keys, NEW g, NEW k \in l, k \in P,
           NEW c \in Nat, NEW v \in Nat, NEW s \in Seq(Items), s # << >>, ~Ended(s),
           Shaped(s), Bounds(P, c, s, l, g)
    PROVE  /\ Shaped(Append(s, Item(k, v))) /\ ~Ended(Append(s, Item(k, v)))
           /\ Bounds(P, c, Append(s, Item(k, v)), l \ {k}, g)
           /\ Len(s) + 1 <= Cardinality(Keys) + 2
<1> DEFINE r == Append(s, Item(k, v))
           a == P \cap l
           b == P \ l
           a2 == P \cap (l \ {k})
           b2 == P \ (l \ {k})
<1>1. /\ Cardinality(P \ g) <= Counted(s)
      /\ Counted(s) <= Written(s) + Cardinality(a)
      /\ Written(s) <= Cardinality(b)
  BY DEF Bounds
<1>2. /\ a \in SUBSET Keys /\ b \in SUBSET Keys /\ b2 \in SUBSET Keys /\ k \in a /\ k \notin b
      /\ a2 = a \ {k} /\ b2 = b \cup {k} /\ k \in Keys
  OBVIOUS
<1> HIDE DEF a, b, a2, b2
<1>3. /\ Cardinality(a) \in Nat /\ Cardinality(b) \in Nat /\ Cardinality(b2) \in Nat
      /\ Cardinality(b2) <= Cardinality(Keys) /\ Cardinality(Keys) \in Nat
  BY <1>2, KeySets, KeyCount
<1>4. Cardinality(a2) = Cardinality(a) - 1 /\ Cardinality(b2) = Cardinality(b) + 1
  BY <1>2, OneKey
<1>5. Item(k, v) \in Items
  BY <1>2 DEF Items, Item
<1>6. /\ Len(s) \in Nat \ {0} /\ r \in Seq(Items) /\ Len(r) = Len(s) + 1 /\ r # << >>
      /\ r[Len(s) + 1] = Item(k, v) /\ \A n \in 1 .. Len(s) : r[n] = s[n]
  BY <1>5, PayloadNumbers, EmptySeq
<1> HIDE DEF r
<1>7. r[Len(s) + 1].of = k /\ k # "depth"
  BY <1>2, <1>6, LocalCacheAssumption DEF Item
<1>8. ~Ended(r) /\ Counted(r) = Counted(s) /\ Written(r) = Written(s) + 1 /\ Written(s) = Len(s) - 1
  BY <1>6, <1>7 DEF Ended, Counted, Written
<1>9. Shaped(r)
  <2>1. r[1].of = "count"
    BY <1>6 DEF Shaped
  <2>2. ASSUME NEW n \in 2 .. Len(r) PROVE r[n].of \in Keys
    <3>1. CASE n = Len(s) + 1
      BY <1>2, <1>7, <3>1
    <3>2. CASE n # Len(s) + 1
      <4>1. n \in 2 .. Len(s) /\ r[n] = s[n]
        BY <1>6, <3>2
      <4> QED
        BY <1>6, <4>1 DEF Shaped, Ended
    <3> QED
      BY <3>1, <3>2
  <2> QED
    BY <1>6, <2>1, <2>2 DEF Shaped
<1>10. Counted(r) <= Written(r) + Cardinality(a2) /\ Written(r) <= Cardinality(b2)
  <2>1. Counted(s) \in Nat /\ Written(s) \in Int
    BY PayloadNumbers
  <2>2. Counted(s) <= (Written(s) + 1) + (Cardinality(a) - 1)
    BY <1>1, <1>3, <2>1
  <2>3. Written(s) + 1 <= Cardinality(b) + 1
    BY <1>1, <1>3, <2>1
  <2> QED
    BY <1>4, <1>8, <2>2, <2>3, Zenon
<1>11. Cardinality(P \ g) <= Counted(r)
  BY <1>1, <1>8
<1>12. Len(s) + 1 <= Cardinality(Keys) + 2
  <2>1. Len(s) \in Nat
    BY <1>6
  <2>2. Len(s) - 1 + 1 <= Cardinality(b2)
    BY <1>8, <1>10
  <2> QED
    BY <1>3, <2>1, <2>2
<1> QED
  BY <1>6, <1>8, <1>9, <1>10, <1>11, <1>12 DEF Bounds, a2, b2, r

\* The depth is written behind the last entry.
LEMMA DepthWritten ==
    ASSUME NEW P \in SUBSET Keys, NEW g, NEW c \in Nat,
           NEW s \in Seq(Items), s # << >>, ~Ended(s), Shaped(s), Bounds(P, c, s, {}, g),
           NEW r, r = Append(s, Item("depth", 0))
    PROVE  /\ Shaped(r) /\ Ended(r) /\ Bounds(P, c, r, {}, g)
           /\ Len(s) + 1 <= Cardinality(Keys) + 2
<1>1. Item("depth", 0) \in Items
  BY DEF Items, Item
<1>2. /\ Len(s) \in Nat \ {0} /\ r \in Seq(Items) /\ Len(r) = Len(s) + 1 /\ r # << >>
      /\ r[Len(s) + 1] = Item("depth", 0) /\ \A n \in 1 .. Len(s) : r[n] = s[n]
  BY <1>1, PayloadNumbers, EmptySeq
<1>3. r[Len(s) + 1].of = "depth"
  BY <1>2 DEF Item
<1>4. Ended(r) /\ Counted(r) = Counted(s) /\ Written(r) = Written(s) /\ Written(s) = Len(s) - 1
  BY <1>2, <1>3 DEF Ended, Counted, Written
<1>5. Shaped(r)
  <2>1. r[1].of = "count"
    BY <1>2 DEF Shaped
  <2>2. ASSUME NEW n \in 2 .. Len(r) PROVE r[n].of \in Keys \/ (n = Len(r) /\ r[n].of = "depth")
    <3>1. CASE n = Len(s) + 1
      BY <1>2, <1>3, <3>1
    <3>2. CASE n # Len(s) + 1
      <4>1. n \in 2 .. Len(s) /\ r[n] = s[n]
        BY <1>2, <3>2
      <4> QED
        BY <1>2, <4>1 DEF Shaped, Ended
    <3> QED
      BY <3>1, <3>2
  <2> QED
    BY <1>2, <2>1, <2>2 DEF Shaped
<1>6. Bounds(P, c, r, {}, g)
  BY <1>2, <1>4 DEF Bounds
<1>7. Len(s) + 1 <= Cardinality(Keys) + 2
  <2>1. P \ {} \in SUBSET Keys
    OBVIOUS
  <2>2. /\ Written(s) <= Cardinality(P \ {})
        /\ Cardinality(P \ {}) \in Nat /\ Cardinality(P \ {}) <= Cardinality(Keys)
    BY <2>1, KeySets, Zenon DEF Bounds
  <2> QED
    BY <1>2, <1>4, <2>2, KeyCount
<1> QED
  BY <1>4, <1>5, <1>6, <1>7

-----------------------------------------------------------------------------
(* The steps, one lemma each. *)

LEMMA InitCInv == Init => CInv
<1> SUFFICES ASSUME Init PROVE CInv
  OBVIOUS
<1> USE DEF Init, Busy
<1>1. Typed
  <2>1. Zero \in [Keys -> Nat] /\ Blank \in [Positions -> SUBSET Seq(Items)]
    BY DEF Zero, Blank
  <2>2. {} \in Names /\ "none" \in Phases /\ << >> \in Seq(Items) /\ {} \in SUBSET Keys /\ 0 \in Nat
    BY EmptySeq DEF Names, Phases
  <2>3. process \in {"up", "down"} /\ persisted \in BOOLEAN /\ lost \in BOOLEAN /\ blind \in BOOLEAN
    OBVIOUS
  <2>4. /\ phase \in [Tasks -> Phases] /\ fd \in [Tasks -> Names]
        /\ out \in [Tasks -> Seq(Items)] /\ atCall \in [Tasks -> [Keys -> Nat]]
        /\ left \in [Tasks -> SUBSET Keys] /\ count \in [Tasks -> Nat]
        /\ content \in [Inodes -> [Positions -> SUBSET Seq(Items)]]
        /\ grown \in [Inodes -> SUBSET Keys]
    BY <2>1, <2>2, Zenon
  <2> QED
    BY <2>1, <2>2, <2>3, <2>4 DEF Typed
<1>2. OneSaver /\ ClonesNeedProcess /\ FilesNeedPath /\ PersistedIsLast /\ DropSavesAlone
  BY DEF OneSaver, ClonesNeedProcess, FilesNeedPath, PersistedIsLast, DropSavesAlone
<1>3. /\ SaverOwnsTmp /\ CountsMiss /\ WrittenSinceCall /\ SnapshotIsOld /\ LastDropSaved
  BY DEF SaverOwnsTmp, CountsMiss, WrittenSinceCall, SnapshotIsOld, LastDropSaved
<1> QED
  BY <1>1, <1>2, <1>3 DEF CInv

\* A task that holds a clone lives in a process that is up, and can use the cache
\* only while no drop has saved.
LEMMA ClonesAreUp ==
    ASSUME CInv, NEW t \in Tasks
    PROVE  /\ phase[t] # "none" => process = "up"
           /\ phase[t] \in {"live", "saving"} => ~persisted
           /\ phase[t] \in {"live", "saving"} => \A u \in Tasks : phase[u] # "dropSaving"
<1>1. phase[t] # "none" => process = "up"
  BY DEF CInv, Typed, ClonesNeedProcess
<1>2. phase[t] \in {"live", "saving"} => ~persisted
  BY <1>1 DEF CInv, PersistedIsLast
<1>3. ASSUME phase[t] \in {"live", "saving"}, NEW u \in Tasks, phase[u] = "dropSaving"
      PROVE  FALSE
  BY <1>3 DEF CInv, DropSavesAlone
<1> QED
  BY <1>1, <1>2, <1>3

LEMMA WritersFile ==
    ASSUME CInv, NEW t \in Tasks, NEW i \in fd[t]
    PROVE  /\ i \in Inodes /\ fd[t] = {i} /\ tmp = {i} /\ i \notin path /\ Busy(t)
           /\ content[i] = Laid(out[t])
           /\ count[t] \in Nat /\ out[t] \in Seq(Items) /\ left[t] \in SUBSET Keys
           /\ grown[i] \in SUBSET Keys /\ grown[i] \subseteq Present
           /\ Shaped(out[t]) /\ (Ended(out[t]) => left[t] = {})
           /\ Bounds(Present, count[t], out[t], left[t], grown[i])
<1>1. fd[t] \in Names
  BY DEF CInv, Typed
<1>2. i \in Inodes /\ fd[t] = {i}
  BY <1>1 DEF Names
<1>3. tmp = {i} /\ i \notin path /\ Busy(t) /\ content[i] = Laid(out[t])
  BY DEF CInv, SaverOwnsTmp
<1>4. /\ count[t] \in Nat /\ out[t] \in Seq(Items) /\ left[t] \in SUBSET Keys
      /\ grown[i] \in SUBSET Keys
  BY <1>2 DEF CInv, Typed
<1>5. /\ grown[i] \subseteq Present
      /\ Shaped(out[t]) /\ (Ended(out[t]) => left[t] = {})
      /\ Bounds(Present, count[t], out[t], left[t], grown[i])
  BY DEF CInv, CountsMiss
<1> QED
  BY <1>2, <1>3, <1>4, <1>5

\* Nobody writes the snapshot, which reads back as one payload.
LEMMA SnapshotReads ==
    ASSUME CInv, NEW i \in path
    PROVE  /\ i \in Inodes /\ path = {i} /\ \A t \in Tasks : i \notin fd[t]
           /\ \E s \in Seq(Items) :
                 /\ Sealed(content[i], grown[i], s)
                 /\ Concedes(s, grown[i], durable)
                 /\ process = "up" /\ ~blind => Behind(s)
                 /\ Readable(content[i]) = {s}
                 /\ Restored(s) \in [Keys -> Nat]
<1>1. i \in Inodes /\ path = {i}
  BY DEF CInv, Typed, Names
<1>2. \A t \in Tasks : i \notin fd[t]
  BY DEF CInv, SaverOwnsTmp
<1>3. PICK s \in Seq(Items) :
         /\ Sealed(content[i], grown[i], s)
         /\ Concedes(s, grown[i], durable)
         /\ process = "up" /\ ~blind => Behind(s)
  BY DEF CInv, SnapshotIsOld
<1>4. Readable(content[i]) = {s}
  BY <1>3, SealedIsRead
<1>5. Restored(s) \in [Keys -> Nat]
  <2>1. \A k \in Keys : Restored(s)[k] \in Nat
    BY <1>3, RestoredIsWritten
  <2>2. Restored(s) = [k \in Keys |-> Restored(s)[k]]
    BY DEF Restored
  <2> QED
    BY <2>1, <2>2
<1> QED
  BY <1>1, <1>2, <1>3, <1>4, <1>5

\* What a step that neither renames nor loads does to the snapshot.
LEMMA SnapshotStays ==
    ASSUME CInv,
           path' = path, durable' = durable, blind' = blind, process' = process,
           \A i \in path : content'[i] = content[i] /\ grown'[i] = grown[i],
           mem' \in [Keys -> Nat], \A k \in Keys : mem[k] <= mem'[k],
           \A u \in Tasks : Busy(u)' => Busy(u) /\ atCall'[u] = atCall[u]
    PROVE  SnapshotIsOld'
<1>1. \A k \in Keys : durable[k] \in Nat /\ mem[k] \in Nat /\ mem'[k] \in Nat
  BY DEF CInv, Typed
<1>2. process' = "up" => \A k \in Keys : durable'[k] <= mem'[k]
  BY <1>1 DEF CInv, SnapshotIsOld
<1>3. ASSUME NEW i \in path
      PROVE  \E s \in Seq(Items) : /\ Sealed(content'[i], grown'[i], s)
                                   /\ Concedes(s, grown'[i], durable)
                                   /\ process = "up" /\ ~blind => Behind(s)'
  <2>1. PICK s \in Seq(Items) :
           /\ Sealed(content[i], grown[i], s)
           /\ Concedes(s, grown[i], durable)
           /\ process = "up" /\ ~blind => Behind(s)
           /\ Restored(s) \in [Keys -> Nat]
    BY SnapshotReads
  <2>2. process = "up" /\ ~blind => Behind(s)'
    <3> SUFFICES ASSUME Behind(s) PROVE Behind(s)'
      BY <2>1
    <3>1. \A k \in Keys : Restored(s)[k] \in Nat
      BY <2>1
    <3>2. \A k \in Keys : Restored(s)[k] <= mem'[k]
      BY <1>1, <3>1 DEF Behind
    <3> QED
      BY <3>2 DEF Behind
  <2> QED
    BY <2>1, <2>2
<1>4. path' = {} => durable' = Zero
  BY DEF CInv, SnapshotIsOld
<1> QED
  BY <1>2, <1>3, <1>4 DEF SnapshotIsOld

\* load_or_new never refuses, because the snapshot reads back; what a start does not
\* give back is no longer vouched for.
LEMMA LoadKeeps ==
    ASSUME CInv, NEW t \in Tasks, LoadOrNew(t)
    PROVE  CInv'
<1> USE DEF LoadOrNew, disk, writer
<1>1. /\ process' = "up" /\ phase' = [phase EXCEPT ![t] = "live"] /\ process = "down"
      /\ VouchForLoaded
      /\ \/ mem' = Zero /\ blind' = (path # {})
         \/ \E i \in path : \E s \in Readable(content[i]) : mem' = Restored(s) /\ blind' = blind
      /\ UNCHANGED <<persisted, tmp, path, content, fd, left, count, out, atCall, grown, lost>>
  <2>1. \A i \in path : Readable(content[i]) # {}
    BY SnapshotReads
  <2> QED
    BY <2>1 DEF StartEmpty
<1>2. mem' \in [Keys -> Nat] /\ blind' \in BOOLEAN
  <2>1. CASE mem' = Zero /\ blind' = (path # {})
    BY <2>1 DEF Zero
  <2>2. CASE \E i \in path : \E s \in Readable(content[i]) : mem' = Restored(s) /\ blind' = blind
    <3>1. PICK i \in path : \E s \in Readable(content[i]) : mem' = Restored(s) /\ blind' = blind
      BY <2>2
    <3>2. \A s \in Readable(content[i]) : Restored(s) \in [Keys -> Nat]
      BY SnapshotReads
    <3> QED
      BY <3>1, <3>2 DEF CInv, Typed
  <2> QED
    BY <1>1, <2>1, <2>2
<1>3. \A u \in Tasks : phase[u] = "none" /\ ~Busy(u) /\ ~Busy(u)'
  BY <1>1 DEF CInv, Typed, ClonesNeedProcess, Busy
<1>4. \A u \in Tasks : phase'[u] \in {"none", "live"} /\ (u = t => phase'[u] = "live")
  BY <1>1, <1>3 DEF CInv, Typed
<1>5. /\ durable' \in [Keys -> Nat]
      /\ \A k \in Keys : durable'[k] <= mem'[k] /\ durable'[k] <= durable[k]
  BY <1>1, <1>2 DEF VouchForLoaded, CInv, Typed
<1>6. Typed'
  BY <1>1, <1>2, <1>5 DEF CInv, Typed, Phases
<1>7. OneSaver' /\ ClonesNeedProcess' /\ FilesNeedPath' /\ DropSavesAlone'
  BY <1>1, <1>3, <1>4
     DEF CInv, OneSaver, ClonesNeedProcess, FilesNeedPath, DropSavesAlone
<1>8. SaverOwnsTmp' /\ WrittenSinceCall' /\ CountsMiss'
  <2>1. \A u \in Tasks : fd'[u] = {}
    BY <1>1, <1>3 DEF CInv, SaverOwnsTmp
  <2> QED
    BY <1>1, <1>3, <2>1 DEF CInv, SaverOwnsTmp, WrittenSinceCall, CountsMiss
<1>9. SnapshotIsOld'
  <2>1. path' = {} => durable' = Zero
    <3> SUFFICES ASSUME path = {} PROVE durable' = Zero
      BY <1>1
    <3>1. \A k \in Keys : durable[k] = 0
      BY DEF CInv, SnapshotIsOld, Zero
    <3>2. \A k \in Keys : durable'[k] = 0
      BY <1>5, <3>1
    <3> QED
      BY <1>5, <3>2 DEF Zero
  <2>2. ASSUME NEW i \in path
        PROVE  \E s \in Seq(Items) : /\ Sealed(content[i], grown[i], s)
                                     /\ Concedes(s, grown[i], durable')
                                     /\ ~blind' => Behind(s)'
    <3>1. PICK s \in Seq(Items) : /\ Sealed(content[i], grown[i], s)
                                  /\ Readable(content[i]) = {s}
                                  /\ Restored(s) \in [Keys -> Nat]
      BY SnapshotReads
    <3>2. i \in Inodes /\ path = {i}
      BY SnapshotReads
    <3>3. mem' = Restored(s) \/ (mem' = Zero /\ blind')
      BY <1>1, <3>1, <3>2
    <3>4. \A k \in Keys : mem'[k] <= Restored(s)[k] /\ Restored(s)[k] \in Nat
      BY <3>1, <3>3 DEF Zero
    <3>5. \A k \in Keys : ~(Restored(s)[k] < durable'[k])
      BY <1>2, <1>5, <3>4
    <3>6. Concedes(s, grown[i], durable')
      BY <3>2, <3>5, NoneMissed DEF CInv, Typed
    <3>7. ~blind' => Behind(s)'
      BY <1>3, <3>3, <3>4 DEF Behind
    <3> QED
      BY <3>1, <3>6, <3>7
  <2> QED
    BY <1>1, <1>5, <2>1, <2>2 DEF SnapshotIsOld
<1>10. PersistedIsLast'
  <2>1. ~persisted
    BY <1>1 DEF CInv, ClonesNeedProcess
  <2> QED
    BY <1>1, <2>1 DEF PersistedIsLast
<1>11. LastDropSaved'
  BY <1>4 DEF LastDropSaved
<1> QED
  BY <1>6, <1>7, <1>8, <1>9, <1>10, <1>11 DEF CInv

LEMMA CloneKeeps ==
    ASSUME CInv, NEW t \in Tasks, NEW u \in Tasks, Clone(t, u)
    PROVE  CInv'
<1> USE DEF Clone, disk, writer, history
<1>1. process = "up" /\ ~persisted /\ \A v \in Tasks : phase[v] # "dropSaving"
  BY ClonesAreUp
<1>2. \A v \in Tasks : phase'[v] = IF v = u THEN "live" ELSE phase[v]
  BY DEF CInv, Typed
<1>3. \A v \in Tasks : Busy(v)' = Busy(v)
  BY <1>2 DEF Busy
<1>4. Typed'
  BY DEF CInv, Typed, Phases
<1>5. OneSaver' /\ ClonesNeedProcess' /\ FilesNeedPath' /\ PersistedIsLast' /\ DropSavesAlone'
  BY <1>1, <1>2, <1>3
     DEF CInv, OneSaver, ClonesNeedProcess, FilesNeedPath, PersistedIsLast, DropSavesAlone
<1>6. SaverOwnsTmp' /\ WrittenSinceCall' /\ CountsMiss'
  <2>1. SaverOwnsTmp' /\ WrittenSinceCall'
    BY <1>3 DEF CInv, SaverOwnsTmp, WrittenSinceCall, Fresh
  <2>2. CountsMiss' = CountsMiss
    BY DEF CountsMiss, Present
  <2> QED
    BY <2>1, <2>2 DEF CInv
<1>7. SnapshotIsOld'
  BY <1>3, SnapshotStays DEF CInv, Typed
<1>8. LastDropSaved'
  BY <1>2 DEF LastDropSaved
<1> QED
  BY <1>4, <1>5, <1>6, <1>7, <1>8 DEF CInv

\* A new key is set apart from those that the files being written are to count.
LEMMA InsertKeeps ==
    ASSUME CInv, NEW t \in Tasks, NEW k \in Keys, Insert(t, k)
    PROVE  CInv'
<1> USE DEF Insert, disk, writer
<1>1. \A v \in Tasks : phase[v] # "dropSaving"
  BY ClonesAreUp
<1>2. /\ mem' \in [Keys -> Nat]
      /\ \A j \in Keys : /\ mem[j] \in Nat /\ mem[j] <= mem'[j]
                         /\ mem'[j] = IF j = k THEN mem[j] + 1 ELSE mem[j]
  BY DEF CInv, Typed
<1>3. \A v \in Tasks : Busy(v)' = Busy(v)
  BY DEF Busy
<1>4. /\ grown' \in [Inodes -> SUBSET Keys]
      /\ \A i \in Inodes : grown'[i] = IF mem[k] = 0 /\ \E u \in Tasks : i \in fd[u]
                                       THEN grown[i] \cup {k} ELSE grown[i]
  BY DEF CInv, Typed
<1>5. Typed'
  BY <1>2, <1>4 DEF CInv, Typed
<1>6. OneSaver' /\ ClonesNeedProcess' /\ FilesNeedPath' /\ PersistedIsLast' /\ DropSavesAlone'
  BY <1>1, <1>3
     DEF CInv, OneSaver, ClonesNeedProcess, FilesNeedPath, PersistedIsLast, DropSavesAlone
<1>7. SaverOwnsTmp'
  BY <1>3 DEF CInv, SaverOwnsTmp
<1>8. CountsMiss'
  <2> SUFFICES ASSUME NEW u \in Tasks, NEW i \in fd[u]
               PROVE  /\ grown'[i] \subseteq Present'
                      /\ Shaped(out[u]) /\ (Ended(out[u]) => left[u] = {})
                      /\ Bounds(Present', count[u], out[u], left[u], grown'[i])
    BY DEF CountsMiss
  <2>1. /\ i \in Inodes /\ grown[i] \subseteq Present
        /\ Bounds(Present, count[u], out[u], left[u], grown[i])
        /\ count[u] \in Nat /\ out[u] \in Seq(Items) /\ Shaped(out[u])
        /\ (Ended(out[u]) => left[u] = {})
    BY WritersFile
  <2>2. /\ Present' = Present \cup {k}
        /\ grown'[i] = IF k \notin Present THEN grown[i] \cup {k} ELSE grown[i]
    BY <1>2, <1>4, <2>1 DEF Present
  <2>3. /\ grown'[i] \subseteq Present' /\ Present' \ grown'[i] = Present \ grown[i]
        /\ Present \subseteq Present'
    BY <2>1, <2>2
  <2>4. Present \in SUBSET Keys /\ Present' \in SUBSET Keys /\ left[u] \in SUBSET Keys
    BY WritersFile DEF Present
  <2>5. Bounds(Present', count[u], out[u], left[u], grown'[i])
    BY <2>1, <2>3, <2>4, MoreKeys
  <2> QED
    BY <2>1, <2>3, <2>5
<1>9. WrittenSinceCall'
  <2> SUFFICES ASSUME NEW v \in Tasks, Busy(v)
               PROVE  /\ \A j \in Keys : atCall[v][j] <= mem'[j] /\ durable[j] <= atCall[v][j]
                      /\ Fresh(out[v], left[v], atCall[v])'
    BY <1>3 DEF WrittenSinceCall
  <2>1. atCall[v] \in [Keys -> Nat] /\ out[v] \in Seq(Items)
    BY DEF CInv, Typed
  <2>2. \A j \in Keys : atCall[v][j] <= mem'[j] /\ durable[j] <= atCall[v][j]
    BY <1>2, <2>1 DEF CInv, WrittenSinceCall
  <2>3. Fresh(out[v], left[v], atCall[v])
    BY DEF CInv, WrittenSinceCall
  <2>4. ASSUME NEW n \in 2 .. Len(out[v]) PROVE out[v][n].value \in Nat
    <3>1. out[v][n] \in Items
      BY <2>1
    <3> QED
      BY <3>1 DEF Items
  <2>5. \A n \in 2 .. Len(out[v]) : out[v][n].of \in Keys => out[v][n].value <= mem'[out[v][n].of]
    <3> SUFFICES ASSUME NEW n \in 2 .. Len(out[v]), out[v][n].of \in Keys
                 PROVE  out[v][n].value <= mem'[out[v][n].of]
      OBVIOUS
    <3>1. out[v][n].value <= mem[out[v][n].of]
      BY <2>3 DEF Fresh
    <3> QED
      BY <1>2, <2>4, <3>1
  <2> QED
    BY <2>2, <2>3, <2>5 DEF Fresh
<1>10. SnapshotIsOld'
  <2>1. \A i \in path : grown'[i] = grown[i]
    BY <1>4, SnapshotReads
  <2> QED
    BY <1>2, <1>3, <2>1, SnapshotStays
<1>11. LastDropSaved'
  BY DEF LastDropSaved
<1> QED
  BY <1>5, <1>6, <1>7, <1>8, <1>9, <1>10, <1>11 DEF CInv

\* What save and a drop that saves have in common.
LEMMA BeginSaveKeeps ==
    ASSUME CInv, NEW t \in Tasks, NEW as \in {"saving", "dropSaving"}, phase[t] = "live",
           PersistOnDrop, \A u \in Tasks : ~Busy(u), BeginSave(t, as),
           as = "dropSaving" => \A u \in Tasks \ {t} : phase[u] = "none",
           persisted' \in BOOLEAN, as = "saving" => persisted' = persisted,
           UNCHANGED <<process, mem, tmp, path, content, grown, durable, blind, lost>>
    PROVE  CInv'
<1>1. process = "up" /\ ~persisted
  BY ClonesAreUp
<1>2. \A u \in Tasks : /\ phase'[u] = IF u = t THEN as ELSE phase[u]
                       /\ fd'[u] = {}
                       /\ left'[u] = IF u = t THEN Keys ELSE left[u]
                       /\ count'[u] = IF u = t THEN 0 ELSE count[u]
                       /\ out'[u] = IF u = t THEN << >> ELSE out[u]
                       /\ atCall'[u] = IF u = t THEN mem ELSE atCall[u]
  BY DEF CInv, Typed, SaverOwnsTmp, BeginSave
<1>3. \A u \in Tasks : Busy(u)' <=> u = t
  BY <1>2 DEF Busy
<1>4. Typed'
  <2>1. as \in Phases
    BY DEF Phases
  <2>2. phase' \in [Tasks -> Phases] /\ fd' \in [Tasks -> Names]
    BY <2>1, EmptyName DEF CInv, Typed, BeginSave
  <2>3. out' \in [Tasks -> Seq(Items)] /\ atCall' \in [Tasks -> [Keys -> Nat]]
    BY EmptySeq, Zenon DEF CInv, Typed, BeginSave
  <2>4. left' \in [Tasks -> SUBSET Keys] /\ count' \in [Tasks -> Nat]
    BY DEF CInv, Typed, BeginSave
  <2> QED
    BY <2>2, <2>3, <2>4 DEF CInv, Typed
<1>5. OneSaver' /\ ClonesNeedProcess' /\ FilesNeedPath'
  BY <1>1, <1>3 DEF CInv, OneSaver, ClonesNeedProcess, FilesNeedPath
<1>6. PersistedIsLast'
  <2>1. CASE as = "saving"
    BY <1>1, <2>1 DEF PersistedIsLast
  <2>2. CASE as = "dropSaving"
    BY <1>2, <2>2 DEF PersistedIsLast
  <2> QED
    BY <2>1, <2>2
<1>7. DropSavesAlone'
  <2> SUFFICES ASSUME NEW u \in Tasks, phase'[u] = "dropSaving"
               PROVE  /\ \A v \in Tasks \ {u} : phase'[v] = "none"
                      /\ atCall'[u] = mem' /\ fd'[u] = {}
    BY DEF DropSavesAlone
  <2>1. u = t /\ as = "dropSaving"
    BY <1>2 DEF Busy
  <2> QED
    BY <1>2, <2>1
<1>8. SaverOwnsTmp' /\ CountsMiss'
  <2>1. tmp' \cap path' = {}
    BY DEF CInv, SaverOwnsTmp
  <2> QED
    BY <1>2, <1>3, <2>1 DEF SaverOwnsTmp, CountsMiss
<1>9. WrittenSinceCall'
  <2>1. \A k \in Keys : mem[k] <= mem[k] /\ durable[k] <= mem[k]
    BY <1>1 DEF CInv, Typed, SnapshotIsOld
  <2>2. Fresh(<< >>, Keys, mem)'
    BY EmptySeq DEF Fresh
  <2>3. atCall'[t] = mem' /\ out'[t] = << >> /\ left'[t] = Keys
    BY <1>2
  <2>4. Fresh(out[t], left[t], atCall[t])'
    BY <2>2, <2>3
  <2> QED
    BY <1>3, <2>1, <2>3, <2>4 DEF WrittenSinceCall
<1>10. SnapshotIsOld'
  <2>1. ASSUME NEW i \in path
        PROVE  \E s \in Seq(Items) : /\ Sealed(content[i], grown[i], s)
                                     /\ Concedes(s, grown[i], durable)
                                     /\ process = "up" /\ ~blind => Behind(s)'
    <3>1. PICK s \in Seq(Items) : /\ Sealed(content[i], grown[i], s)
                                  /\ Concedes(s, grown[i], durable)
                                  /\ process = "up" /\ ~blind => Behind(s)
      BY DEF CInv, SnapshotIsOld
    <3>2. Behind(s) => Behind(s)'
      BY <1>2, <1>3 DEF Behind
    <3> QED
      BY <3>1, <3>2
  <2> QED
    BY <2>1 DEF CInv, SnapshotIsOld
<1>11. LastDropSaved'
  BY <1>2 DEF LastDropSaved
<1> QED
  BY <1>4, <1>5, <1>6, <1>7, <1>8, <1>9, <1>10, <1>11 DEF CInv

LEMMA SaveKeeps ==
    ASSUME CInv, SerialSaves, NEW t \in Tasks, Save(t)
    PROVE  CInv'
<1>1. ~persisted /\ persisted \in BOOLEAN
  BY ClonesAreUp DEF Save, CInv, Typed
<1> QED
  BY <1>1, BeginSaveKeeps DEF Save, disk, history

\* The drop that finds itself alone saves: nobody has saved on drop before, or t
\* could not be live.
LEMMA DropKeeps ==
    ASSUME CInv, NEW t \in Tasks, Drop(t)
    PROVE  CInv'
<1> DEFINE saves == StrongCount = 1 /\ PersistOnDrop /\ ~persisted
<1>1. phase[t] = "live" /\ process = "up" /\ ~persisted
  BY ClonesAreUp DEF Drop
<1>2. StrongCount = 1 <=> \A u \in Tasks \ {t} : phase[u] = "none"
  <2> DEFINE holders == {u \in Tasks : phase[u] # "none"}
  <2>1. IsFiniteSet(holders)
    BY LocalCacheAssumption, FS_Subset
  <2>2. Cardinality(holders) = 1 <=> \E u : holders = {u}
    BY <2>1, FS_Singleton
  <2>3. t \in holders
    BY <1>1
  <2> QED
    BY <2>2, <2>3 DEF StrongCount
<1>3. CASE saves /\ persisted' = TRUE /\ BeginSave(t, "dropSaving") /\ UNCHANGED lost
  <2>1. \A u \in Tasks : ~Busy(u)
    BY <1>1, <1>2, <1>3 DEF Busy
  <2>2. UNCHANGED <<process, mem, tmp, path, content, grown, durable, blind, lost>>
    BY <1>3 DEF Drop, disk
  <2> QED
    BY <1>1, <1>2, <1>3, <2>1, <2>2, BeginSaveKeeps
<1>4. CASE /\ ~saves /\ phase' = [phase EXCEPT ![t] = "releasing"]
           /\ lost' = (lost \/ OverlapsDrop(t)) /\ UNCHANGED <<persisted, writer>>
  <2> USE <1>1, <1>4 DEF Drop, disk, writer
  <2>1. \A u \in Tasks : phase'[u] = IF u = t THEN "releasing" ELSE phase[u]
    BY DEF CInv, Typed
  <2>2. \A u \in Tasks : Busy(u)' = Busy(u)
    BY <2>1 DEF Busy
  <2>3. Typed'
    BY DEF CInv, Typed, Phases, OverlapsDrop
  <2>4. OneSaver' /\ ClonesNeedProcess' /\ FilesNeedPath' /\ PersistedIsLast'
    BY <2>1, <2>2 DEF CInv, OneSaver, ClonesNeedProcess, FilesNeedPath, PersistedIsLast
  <2>5. DropSavesAlone'
    BY <2>1, ClonesAreUp DEF CInv, DropSavesAlone
  <2>6. SaverOwnsTmp' /\ WrittenSinceCall'
    BY <2>2 DEF CInv, SaverOwnsTmp, WrittenSinceCall, Fresh
  <2>7. CountsMiss' = CountsMiss
    BY DEF CountsMiss, Present
  <2>8. SnapshotIsOld'
    BY <2>2, SnapshotStays DEF CInv, Typed
  <2>9. LastDropSaved'
    <3> SUFFICES ASSUME PersistOnDrop, ~lost',
                        \A u \in Tasks : phase'[u] \in {"none", "releasing"}
                 PROVE  FALSE
      BY DEF LastDropSaved
    <3>1. \A u \in Tasks \ {t} : phase[u] \in {"none", "releasing"}
      BY <2>1
    <3>2. \A u \in Tasks \ {t} : phase[u] # "releasing"
      BY <3>1, Zenon DEF OverlapsDrop
    <3> QED
      BY <1>2, <3>1, <3>2
  <2> QED
    BY <2>3, <2>4, <2>5, <2>6, <2>7, <2>8, <2>9 DEF CInv
<1> QED
  BY <1>3, <1>4 DEF Drop

LEMMA ReleaseKeeps ==
    ASSUME CInv, NEW t \in Tasks, Release(t)
    PROVE  CInv'
<1> USE DEF Release, disk, writer, history
<1>1. \A u \in Tasks : phase'[u] = IF u = t THEN "none" ELSE phase[u]
  BY DEF CInv, Typed
<1>2. \A u \in Tasks : Busy(u)' = Busy(u)
  BY <1>1 DEF Busy
<1>3. Typed'
  BY DEF CInv, Typed, Phases
<1>4. OneSaver' /\ ClonesNeedProcess' /\ FilesNeedPath' /\ PersistedIsLast' /\ DropSavesAlone'
  BY <1>1, <1>2
     DEF CInv, OneSaver, ClonesNeedProcess, FilesNeedPath, PersistedIsLast, DropSavesAlone
<1>5. SaverOwnsTmp' /\ WrittenSinceCall'
  BY <1>2 DEF CInv, SaverOwnsTmp, WrittenSinceCall, Fresh
<1>6. CountsMiss' = CountsMiss
  BY DEF CountsMiss, Present
<1>7. SnapshotIsOld'
  BY <1>2, SnapshotStays DEF CInv, Typed
<1>8. LastDropSaved'
  BY <1>1 DEF CInv, LastDropSaved
<1> QED
  BY <1>3, <1>4, <1>5, <1>6, <1>7, <1>8 DEF CInv

LEMMA CrashKeeps ==
    ASSUME CInv, Crash
    PROVE  CInv'
<1> USE DEF Crash, disk
<1>1. \A u \in Tasks : phase'[u] = "none" /\ fd'[u] = {} /\ ~Busy(u)'
  BY DEF Busy
<1>2. Typed'
  <2>1. Zero \in [Keys -> Nat]
    BY DEF Zero
  <2>2. out' \in [Tasks -> Seq(Items)] /\ atCall' \in [Tasks -> [Keys -> Nat]]
    BY <2>1, EmptySeq, Zenon
  <2>3. left' \in [Tasks -> SUBSET Keys] /\ count' \in [Tasks -> Nat]
    OBVIOUS
  <2>4. phase' \in [Tasks -> Phases] /\ fd' \in [Tasks -> Names]
    BY EmptyName DEF Phases
  <2> QED
    BY <2>1, <2>2, <2>3, <2>4 DEF CInv, Typed
<1>3. OneSaver' /\ ClonesNeedProcess' /\ FilesNeedPath' /\ PersistedIsLast' /\ DropSavesAlone'
  BY <1>1
     DEF CInv, OneSaver, ClonesNeedProcess, FilesNeedPath, PersistedIsLast, DropSavesAlone
<1>4. SaverOwnsTmp' /\ WrittenSinceCall' /\ CountsMiss'
  BY <1>1 DEF CInv, SaverOwnsTmp, WrittenSinceCall, CountsMiss
<1>5. SnapshotIsOld'
  BY <1>1 DEF CInv, SnapshotIsOld
<1>6. LastDropSaved'
  BY DEF LastDropSaved
<1> QED
  BY <1>2, <1>3, <1>4, <1>5, <1>6 DEF CInv

LEMMA LaidEmpty == Laid(<< >>) = Blank
  BY EmptySeq, KeyCount DEF Laid, Blank, Positions

\* The snapshot is another file than the one opened, which starts empty.
LEMMA OpenKeeps ==
    ASSUME CInv, NEW t \in Tasks, Open(t)
    PROVE  CInv'
<1> PICK i \in Inodes : /\ IF tmp # {} THEN i \in tmp
                           ELSE i \notin path \cup UNION {fd[u] : u \in Tasks}
                        /\ tmp' = {i}
                        /\ fd' = [fd EXCEPT ![t] = {i}]
                        /\ content' = [content EXCEPT ![i] = Blank]
                        /\ grown' = [grown EXCEPT ![i] = {}]
  BY Zenon DEF Open, OpenFile
<1>1. /\ Busy(t) /\ fd[t] = {}
      /\ UNCHANGED <<process, mem, phase, persisted, path, left, count, out, atCall,
                     durable, blind, lost>>
  BY DEF Open
<1>2. /\ \A u \in Tasks : fd'[u] = IF u = t THEN {i} ELSE fd[u]
      /\ \A j \in Inodes : content'[j] = IF j = i THEN Blank ELSE content[j]
      /\ \A j \in Inodes : grown'[j] = IF j = i THEN {} ELSE grown[j]
  BY DEF CInv, Typed
<1>3. \A u \in Tasks : Busy(u)' = Busy(u)
  BY <1>1 DEF Busy
<1>4. i \notin path /\ path \subseteq Inodes
  BY DEF CInv, Typed, Names, SaverOwnsTmp
<1>5. \A j \in path : content'[j] = content[j] /\ grown'[j] = grown[j]
  BY <1>2, <1>4
<1>6. \A u \in Tasks \ {t} : ~Busy(u) /\ fd'[u] = {}
  BY <1>1, <1>2 DEF CInv, OneSaver, SaverOwnsTmp
<1>7. fd'[t] = {i} /\ out[t] = << >> /\ left[t] = Keys /\ count[t] = 0
  BY <1>1, <1>2 DEF CInv, SaverOwnsTmp
<1>8. Typed'
  <2>1. {i} \in Names /\ Blank \in [Positions -> SUBSET Seq(Items)] /\ {} \in SUBSET Keys
    BY DEF Names, Blank
  <2>2. fd' \in [Tasks -> Names] /\ content' \in [Inodes -> [Positions -> SUBSET Seq(Items)]]
    BY <2>1, Zenon DEF CInv, Typed
  <2>3. grown' \in [Inodes -> SUBSET Keys]
    BY <2>1, Zenon DEF CInv, Typed
  <2> QED
    BY <1>1, <2>1, <2>2, <2>3 DEF CInv, Typed
<1>9. OneSaver' /\ ClonesNeedProcess' /\ FilesNeedPath' /\ PersistedIsLast'
  BY <1>1, <1>3 DEF CInv, OneSaver, ClonesNeedProcess, FilesNeedPath, PersistedIsLast
<1>10. DropSavesAlone'
  BY <1>1, <1>2, <1>6, <1>7 DEF CInv, DropSavesAlone
<1>11. SaverOwnsTmp'
  <2>1. tmp' \cap path' = {}
    BY <1>1, <1>4
  <2>2. content'[i] = Laid(out'[t])
    BY <1>1, <1>2, <1>7, LaidEmpty
  <2> QED
    BY <1>1, <1>3, <1>6, <1>7, <2>1, <2>2 DEF SaverOwnsTmp
<1>12. CountsMiss'
  <2>1. Shaped(<< >>) /\ ~Ended(<< >>)
    BY EmptySeq DEF Shaped, Ended
  <2>2. Bounds(Present, 0, << >>, Keys, {})
    <3>1. Present \ Keys = {} /\ (Present \ {}) \ Keys = {}
      BY DEF Present
    <3>2. Cardinality(Present \ Keys) = 0 /\ Cardinality((Present \ {}) \ Keys) = 0
      BY <3>1, NoKeys, Zenon
    <3> QED
      BY <3>2 DEF Bounds
  <2>3. Present' = Present
    BY <1>1 DEF Present
  <2> QED
    BY <1>1, <1>2, <1>6, <1>7, <2>1, <2>2, <2>3 DEF CountsMiss
<1>13. WrittenSinceCall'
  BY <1>1, <1>3 DEF CInv, WrittenSinceCall, Fresh
<1>14. SnapshotIsOld'
  BY <1>1, <1>3, <1>5, SnapshotStays DEF CInv, Typed
<1>15. LastDropSaved'
  BY <1>1 DEF LastDropSaved, Busy
<1> QED
  BY <1>8, <1>9, <1>10, <1>11, <1>12, <1>13, <1>14, <1>15 DEF CInv

\* The next shard is counted as it is now.
LEMMA CountShardKeeps ==
    ASSUME CInv, NEW t \in Tasks, CountShard(t)
    PROVE  CInv'
<1> PICK k \in left[t] : /\ left' = [left EXCEPT ![t] = left[t] \ {k}]
                         /\ count' = [count EXCEPT ![t] = IF mem[k] > 0 THEN count[t] + 1
                                                          ELSE count[t]]
  BY DEF CountShard
<1>1. /\ Busy(t) /\ out[t] = << >>
      /\ UNCHANGED <<process, mem, phase, persisted, tmp, path, content, fd, out, atCall,
                     grown, durable, blind, lost>>
  BY DEF CountShard, disk, history
<1>2. PICK i \in fd[t] : TRUE
  BY DEF CountShard
<1>3. /\ fd[t] = {i} /\ left[t] \in SUBSET Keys /\ k \in Keys /\ count[t] \in Nat
      /\ Bounds(Present, count[t], << >>, left[t], grown[i])
      /\ grown[i] \subseteq Present /\ Present \in SUBSET Keys
  <2>1. Present \in SUBSET Keys
    BY DEF Present
  <2> QED
    BY <1>1, <1>2, <2>1, WritersFile
<1>4. /\ \A u \in Tasks : left'[u] = IF u = t THEN left[t] \ {k} ELSE left[u]
      /\ \A u \in Tasks : count'[u] = IF u # t THEN count[u]
                                      ELSE IF k \in Present THEN count[t] + 1 ELSE count[t]
  BY <1>3 DEF CInv, Typed, Present
<1>5. \A u \in Tasks : Busy(u)' = Busy(u)
  BY <1>1 DEF Busy
<1>6. \A u \in Tasks \ {t} : ~Busy(u) /\ fd[u] = {}
  BY <1>1 DEF CInv, OneSaver, SaverOwnsTmp
<1>7. Typed'
  <2>1. left' \in [Tasks -> SUBSET Keys] /\ count' \in [Tasks -> Nat]
    BY <1>3 DEF CInv, Typed
  <2> QED
    BY <1>1, <2>1 DEF CInv, Typed
<1>8. OneSaver' /\ ClonesNeedProcess' /\ FilesNeedPath' /\ PersistedIsLast' /\ DropSavesAlone'
  BY <1>1, <1>5
     DEF CInv, OneSaver, ClonesNeedProcess, FilesNeedPath, PersistedIsLast, DropSavesAlone
<1>9. SaverOwnsTmp'
  BY <1>1, <1>3, <1>5, <1>6 DEF CInv, SaverOwnsTmp
<1>10. CountsMiss'
  <2>1. Bounds(Present, count'[t], << >>, left'[t], grown[i])
    <3>1. Bounds(Present, IF k \in Present THEN count[t] + 1 ELSE count[t], << >>,
                 left[t] \ {k}, grown[i])
      BY <1>3, CountOne
    <3> QED
      BY <1>4, <3>1, Zenon
  <2>2. Present' = Present
    BY <1>1 DEF Present
  <2>3. Shaped(<< >>) /\ ~Ended(<< >>)
    BY EmptySeq DEF Shaped, Ended
  <2> QED
    BY <1>1, <1>3, <1>6, <2>1, <2>2, <2>3 DEF CountsMiss
<1>11. WrittenSinceCall'
  <2> SUFFICES ASSUME NEW u \in Tasks, Busy(u)
               PROVE  /\ \A j \in Keys : atCall[u][j] <= mem[j] /\ durable[j] <= atCall[u][j]
                      /\ Fresh(out[u], left[u], atCall[u])'
    BY <1>1, <1>5 DEF WrittenSinceCall
  <2>1. out'[u] = << >>
    BY <1>1, <1>6
  <2>2. Fresh(out[u], left[u], atCall[u])'
    BY <2>1, EmptySeq DEF Fresh
  <2> QED
    BY <2>2 DEF CInv, WrittenSinceCall
<1>12. SnapshotIsOld'
  BY <1>1, <1>5, SnapshotStays DEF CInv, Typed
<1>13. LastDropSaved'
  BY <1>1 DEF LastDropSaved, Busy
<1> QED
  BY <1>7, <1>8, <1>9, <1>10, <1>11, <1>12, <1>13 DEF CInv

\* What the steps that write have in common: the item goes behind the ones before, in
\* the one file of the one saver.
LEMMA EmitKeeps ==
    ASSUME CInv, NEW t \in Tasks, NEW item \in Items, NEW l \in SUBSET Keys,
           NEW r, r = Append(out[t], item),
           Busy(t), Emit(t, item), left' = [left EXCEPT ![t] = l],
           UNCHANGED <<process, mem, phase, persisted, tmp, path, fd, count, atCall,
                       grown, durable, blind, lost>>,
           Len(out[t]) + 1 <= Cardinality(Keys) + 2,
           \A i \in fd[t] : /\ Shaped(r) /\ (Ended(r) => l = {})
                            /\ Bounds(Present, count[t], r, l, grown[i]),
           Fresh(r, l, atCall[t])
    PROVE  CInv'
<1>1. out[t] \in Seq(Items) /\ left \in [Tasks -> SUBSET Keys]
  BY DEF CInv, Typed
<1>2. r \in Seq(Items) /\ Len(r) = Len(out[t]) + 1 /\ Len(out[t]) \in Nat
  BY <1>1
<1>3. /\ out' = [out EXCEPT ![t] = r]
      /\ \A u \in Tasks : out'[u] = IF u = t THEN r ELSE out[u]
      /\ \A u \in Tasks : left'[u] = IF u = t THEN l ELSE left[u]
  BY <1>1 DEF CInv, Typed, Emit
<1>4. PICK i \in fd[t] : content' = [content EXCEPT ![i][Len(r)] = {r}]
  <2>1. out'[t] = r
    BY <1>3
  <2>2. \E i \in fd[t] : content' = [content EXCEPT ![i][Len(out'[t])] = {out'[t]}]
    BY Zenon DEF Emit
  <2> QED
    BY <2>1, <2>2
<1>5. /\ fd[t] = {i} /\ tmp = {i} /\ i \in Inodes /\ i \notin path
      /\ content[i] = Laid(out[t])
  BY WritersFile
<1>6. content[i] \in [Positions -> SUBSET Seq(Items)] /\ path \subseteq Inodes
  BY <1>5 DEF CInv, Typed, Names
<1>7. content' = [content EXCEPT ![i] = [content[i] EXCEPT ![Len(r)] = {r}]]
  BY <1>4, Zenon
<1>8. content'[i] = Laid(r) /\ \A j \in path : content'[j] = content[j]
  <2>1. /\ content'[i] = [content[i] EXCEPT ![Len(r)] = {r}]
        /\ \A j \in path : content'[j] = content[j]
    BY <1>5, <1>6, <1>7 DEF CInv, Typed
  <2>2. [Laid(out[t]) EXCEPT ![Len(r)] = {r}] = Laid(r)
    BY <1>1, LaidOn
  <2> QED
    BY <1>5, <2>1, <2>2
<1>9. \A u \in Tasks : Busy(u)' = Busy(u)
  BY DEF Busy
<1>10. \A u \in Tasks \ {t} : ~Busy(u) /\ fd[u] = {}
  BY DEF CInv, OneSaver, SaverOwnsTmp
<1>11. Typed'
  <2>1. out' \in [Tasks -> Seq(Items)]
    BY <1>2, <1>3, Zenon DEF CInv, Typed
  <2>2. left' \in [Tasks -> SUBSET Keys]
    BY <1>1, Zenon
  <2>3. content' \in [Inodes -> [Positions -> SUBSET Seq(Items)]]
    <3>1. {r} \in SUBSET Seq(Items)
      BY <1>2
    <3>2. [content[i] EXCEPT ![Len(r)] = {r}] \in [Positions -> SUBSET Seq(Items)]
      BY <1>6, <3>1, Zenon
    <3> QED
      BY <1>7, <3>2, Zenon DEF CInv, Typed
  <2> QED
    BY <2>1, <2>2, <2>3 DEF CInv, Typed
<1>12. OneSaver' /\ ClonesNeedProcess' /\ FilesNeedPath' /\ PersistedIsLast' /\ DropSavesAlone'
  BY <1>9 DEF CInv, OneSaver, ClonesNeedProcess, FilesNeedPath, PersistedIsLast, DropSavesAlone
<1>13. SaverOwnsTmp'
  BY <1>3, <1>5, <1>8, <1>9, <1>10 DEF CInv, SaverOwnsTmp
<1>14. CountsMiss'
  <2>1. Present' = Present /\ \A j \in fd[t] : grown[j] \subseteq Present
    BY DEF Present, CInv, CountsMiss
  <2> QED
    BY <1>3, <1>10, <2>1 DEF CountsMiss
<1>15. WrittenSinceCall'
  <2>1. Fresh(r, l, atCall[t])'
    BY DEF Fresh
  <2> QED
    BY <1>3, <1>9, <1>10, <2>1 DEF CInv, WrittenSinceCall
<1>16. SnapshotIsOld'
  BY <1>8, <1>9, SnapshotStays DEF CInv, Typed
<1>17. LastDropSaved'
  BY DEF LastDropSaved, Busy
<1> QED
  BY <1>11, <1>12, <1>13, <1>14, <1>15, <1>16, <1>17 DEF CInv

LEMMA WriteCountKeeps ==
    ASSUME CInv, NEW t \in Tasks, WriteCount(t)
    PROVE  CInv'
<1> DEFINE item == Item("count", count[t])
           r == Append(out[t], item)
<1>1. /\ Busy(t) /\ out[t] = << >> /\ left[t] = {} /\ Emit(t, item)
      /\ left' = [left EXCEPT ![t] = Keys]
      /\ UNCHANGED <<process, mem, phase, persisted, tmp, path, fd, count, atCall,
                     grown, durable, blind, lost>>
  BY DEF WriteCount, history
<1>2. item \in Items /\ out[t] \in Seq(Items) /\ count[t] \in Nat
  BY DEF CInv, Typed, Items, Item
<1>3. r \in Seq(Items) /\ Len(r) = 1 /\ r[1] = item /\ Len(out[t]) = 0
  BY <1>1, <1>2
<1>4. Present \in SUBSET Keys
  BY DEF Present
<1>5. ASSUME NEW i \in fd[t]
      PROVE  Shaped(r) /\ ~Ended(r) /\ Bounds(Present, count[t], r, Keys, grown[i])
  <2>1. Bounds(Present, count[t], << >>, {}, grown[i])
    <3>1. Bounds(Present, count[t], out[t], left[t], grown[i])
      BY WritersFile
    <3> QED
      BY <1>1, <3>1
  <2> HIDE DEF r
  <2> QED
    BY <1>2, <1>3, <1>4, <2>1, CountWritten
<1>6. Fresh(r, Keys, atCall[t])
  BY <1>3 DEF Fresh
<1>7. Len(out[t]) + 1 <= Cardinality(Keys) + 2 /\ Keys \in SUBSET Keys
  BY <1>3, KeyCount
<1> HIDE DEF item
<1> QED
  BY <1>1, <1>2, <1>5, <1>6, <1>7, EmitKeeps

\* The next shard is written as it is now: its entry is no older than at the call, and
\* no newer than the memory.
LEMMA WriteShardKeeps ==
    ASSUME CInv, NEW t \in Tasks, WriteShard(t)
    PROVE  CInv'
<1> PICK k \in left[t] : /\ left' = [left EXCEPT ![t] = left[t] \ {k}]
                         /\ \/ mem[k] > 0 /\ Emit(t, Item(k, mem[k]))
                            \/ mem[k] = 0 /\ UNCHANGED <<out, content>>
  BY DEF WriteShard
<1>1. /\ Busy(t) /\ out[t] # << >>
      /\ UNCHANGED <<process, mem, phase, persisted, tmp, path, fd, count, atCall,
                     grown, durable, blind, lost>>
  BY DEF WriteShard, history
<1>2. PICK i \in fd[t] : TRUE
  BY <1>1 DEF CInv, SaverOwnsTmp
<1>3. /\ fd[t] = {i} /\ left[t] \in SUBSET Keys /\ k \in Keys /\ count[t] \in Nat
      /\ Bounds(Present, count[t], out[t], left[t], grown[i])
      /\ Shaped(out[t]) /\ ~Ended(out[t]) /\ out[t] \in Seq(Items)
  BY <1>2, WritersFile
<1>4. /\ Present \in SUBSET Keys /\ (k \in Present <=> mem[k] > 0)
      /\ mem[k] \in Nat /\ \A j \in Keys : mem[j] \in Nat
  BY <1>3 DEF CInv, Typed, Present
<1>5. /\ Fresh(out[t], left[t], atCall[t]) /\ atCall[t][k] <= mem[k]
      /\ \A j \in Keys : atCall[t][j] \in Nat
  BY <1>1, <1>3 DEF CInv, Typed, WrittenSinceCall
<1>6. \A u \in Tasks : left'[u] = IF u = t THEN left[t] \ {k} ELSE left[u]
  BY DEF CInv, Typed
<1>7. CASE mem[k] > 0 /\ Emit(t, Item(k, mem[k]))
  <2> DEFINE r == Append(out[t], Item(k, mem[k]))
  <2>1. Item(k, mem[k]) \in Items
    BY <1>3, <1>4 DEF Items, Item
  <2>2. /\ r \in Seq(Items) /\ Len(r) = Len(out[t]) + 1 /\ Len(out[t]) \in Nat \ {0}
        /\ r[Len(r)] = Item(k, mem[k]) /\ \A n \in 1 .. Len(out[t]) : r[n] = out[t][n]
    BY <1>1, <1>3, <2>1, EmptySeq
  <2>3. /\ Shaped(r) /\ ~Ended(r)
        /\ Bounds(Present, count[t], r, left[t] \ {k}, grown[i])
        /\ Len(out[t]) + 1 <= Cardinality(Keys) + 2
    <3>1. k \in Present
      BY <1>4, <1>7
    <3> QED
      BY <1>1, <1>3, <1>4, <3>1, WriteOne
  <2>4. Fresh(r, left[t] \ {k}, atCall[t])
    <3>1. r[Len(r)].of = k /\ r[Len(r)].value = mem[k]
      BY <2>2 DEF Item
    <3> HIDE DEF r
    <3>2. ASSUME NEW n \in 2 .. Len(r), r[n].of \in Keys
          PROVE  /\ r[n].of \notin left[t] \ {k} /\ 0 < r[n].value
                 /\ atCall[t][r[n].of] <= r[n].value /\ r[n].value <= mem[r[n].of]
      <4>1. CASE n = Len(r)
        BY <1>4, <1>5, <1>7, <3>1, <4>1
      <4>2. CASE n # Len(r)
        <5>1. n \in 2 .. Len(out[t]) /\ r[n] = out[t][n]
          BY <2>2, <4>2
        <5> QED
          BY <1>5, <3>2, <5>1 DEF Fresh
      <4> QED
        BY <4>1, <4>2
    <3>3. ASSUME NEW j \in Keys \ (left[t] \ {k}), atCall[t][j] > 0
          PROVE  \E n \in 2 .. Len(r) : r[n].of = j
      <4>1. CASE j = k
        <5>1. Len(r) \in 2 .. Len(r)
          BY <2>2
        <5> QED
          BY <3>1, <4>1, <5>1
      <4>2. CASE j # k
        <5>1. PICK n \in 2 .. Len(out[t]) : out[t][n].of = j
          BY <1>1, <1>5, <3>3, <4>2 DEF Fresh
        <5>2. n \in 2 .. Len(r) /\ r[n] = out[t][n]
          BY <2>2, <5>1
        <5> QED
          BY <5>1, <5>2
      <4> QED
        BY <4>1, <4>2
    <3> QED
      BY <3>2, <3>3 DEF Fresh
  <2>5. left[t] \ {k} \in SUBSET Keys
    BY <1>3
  <2> QED
    BY <1>1, <1>3, <1>7, <2>1, <2>3, <2>4, <2>5, EmitKeeps
<1>8. CASE mem[k] = 0 /\ UNCHANGED <<out, content>>
  <2>1. \A u \in Tasks : Busy(u)' = Busy(u)
    BY <1>1 DEF Busy
  <2>2. \A u \in Tasks \ {t} : ~Busy(u) /\ fd[u] = {}
    BY <1>1 DEF CInv, OneSaver, SaverOwnsTmp
  <2>3. Typed'
    <3>1. left' \in [Tasks -> SUBSET Keys]
      BY <1>3 DEF CInv, Typed
    <3> QED
      BY <1>1, <1>8, <3>1 DEF CInv, Typed
  <2>4. OneSaver' /\ ClonesNeedProcess' /\ FilesNeedPath' /\ PersistedIsLast' /\ DropSavesAlone'
    BY <1>1, <2>1
       DEF CInv, OneSaver, ClonesNeedProcess, FilesNeedPath, PersistedIsLast, DropSavesAlone
  <2>5. SaverOwnsTmp'
    BY <1>1, <1>3, <1>8, <2>1, <2>2 DEF CInv, SaverOwnsTmp
  <2>6. CountsMiss'
    <3>1. Bounds(Present, count[t], out[t], left[t] \ {k}, grown[i])
      BY <1>1, <1>3, <1>4, <1>8, WriteNone
    <3>2. Present' = Present /\ grown[i] \subseteq Present
      BY <1>1, <1>2, WritersFile DEF Present
    <3> QED
      BY <1>1, <1>3, <1>6, <1>8, <2>2, <3>1, <3>2 DEF CountsMiss
  <2>7. WrittenSinceCall'
    <3>1. Fresh(out[t], left[t], atCall[t])'
      <4>1. atCall[t][k] = 0
        BY <1>3, <1>4, <1>5, <1>8
      <4>2. left'[t] = left[t] \ {k} /\ out'[t] = out[t] /\ atCall'[t] = atCall[t] /\ mem' = mem
        BY <1>1, <1>6, <1>8
      <4>3. \A j \in Keys \ left'[t] : atCall[t][j] > 0 => j \in Keys \ left[t]
        BY <4>1, <4>2
      <4> QED
        BY <1>5, <4>2, <4>3 DEF Fresh
    <3> QED
      BY <1>1, <2>1, <2>2, <3>1 DEF CInv, WrittenSinceCall
  <2>8. SnapshotIsOld'
    BY <1>1, <1>8, <2>1, SnapshotStays DEF CInv, Typed
  <2>9. LastDropSaved'
    BY <1>1 DEF LastDropSaved, Busy
  <2> QED
    BY <2>3, <2>4, <2>5, <2>6, <2>7, <2>8, <2>9 DEF CInv
<1> QED
  BY <1>7, <1>8

LEMMA WriteDepthKeeps ==
    ASSUME CInv, NEW t \in Tasks, WriteDepth(t)
    PROVE  CInv'
<1> DEFINE item == Item("depth", 0)
           r == Append(out[t], item)
<1>1. /\ Busy(t) /\ out[t] # << >> /\ left[t] = {} /\ ~Ended(out[t]) /\ Emit(t, item)
      /\ UNCHANGED <<process, mem, phase, persisted, tmp, path, fd, left, count, atCall,
                     grown, durable, blind, lost>>
  BY DEF WriteDepth, history
<1>2. /\ item \in Items /\ out[t] \in Seq(Items) /\ count[t] \in Nat
      /\ left' = [left EXCEPT ![t] = {}]
  BY <1>1 DEF CInv, Typed, Items, Item
<1>3. /\ r \in Seq(Items) /\ Len(r) = Len(out[t]) + 1 /\ Len(out[t]) \in Nat \ {0}
      /\ r[Len(r)] = item /\ \A n \in 1 .. Len(out[t]) : r[n] = out[t][n]
  BY <1>1, <1>2, EmptySeq
<1>4. Present \in SUBSET Keys
  BY DEF Present
<1>5. PICK i \in fd[t] : TRUE
  BY <1>1 DEF CInv, SaverOwnsTmp
<1>6. fd[t] = {i} /\ Shaped(out[t]) /\ Bounds(Present, count[t], out[t], {}, grown[i])
  <2>1. fd[t] = {i} /\ Shaped(out[t]) /\ Bounds(Present, count[t], out[t], left[t], grown[i])
    BY <1>5, WritersFile
  <2> QED
    BY <1>1, <2>1
<1>7. /\ Shaped(r) /\ Ended(r) /\ Bounds(Present, count[t], r, {}, grown[i])
      /\ Len(out[t]) + 1 <= Cardinality(Keys) + 2
  BY <1>1, <1>2, <1>4, <1>6, DepthWritten
<1>8. Fresh(r, {}, atCall[t])
  <2>1. Fresh(out[t], {}, atCall[t])
    BY <1>1 DEF CInv, WrittenSinceCall
  <2>2. r[Len(r)].of \notin Keys
    BY <1>3, LocalCacheAssumption DEF Item
  <2> HIDE DEF r
  <2>3. ASSUME NEW n \in 2 .. Len(r), r[n].of \in Keys
        PROVE  n \in 2 .. Len(out[t]) /\ r[n] = out[t][n]
    BY <1>3, <2>2, <2>3
  <2>4. \A n \in 2 .. Len(out[t]) : n \in 2 .. Len(r) /\ r[n] = out[t][n]
    BY <1>3
  <2> QED
    BY <1>1, <2>1, <2>3, <2>4 DEF Fresh
<1> HIDE DEF item
<1> QED
  BY <1>1, <1>2, <1>6, <1>7, <1>8, EmitKeeps

\* What a save leaves of its task, whichever way it ends.
LEMMA EndSaveLeaves ==
    ASSUME CInv, NEW t \in Tasks, Busy(t), EndSave(t)
    PROVE  /\ \A u \in Tasks : phase'[u] = IF u # t THEN phase[u]
                 ELSE IF phase[t] = "saving" THEN "live" ELSE "releasing"
           /\ \A u \in Tasks : ~Busy(u)' /\ fd'[u] = {}
           /\ phase' \in [Tasks -> Phases] /\ fd' \in [Tasks -> Names]
           /\ left' \in [Tasks -> SUBSET Keys] /\ count' \in [Tasks -> Nat]
           /\ out' \in [Tasks -> Seq(Items)] /\ atCall' \in [Tasks -> [Keys -> Nat]]
<1>1. \A u \in Tasks : phase'[u] = IF u # t THEN phase[u]
                 ELSE IF phase[t] = "saving" THEN "live" ELSE "releasing"
  BY DEF CInv, Typed, EndSave
<1>2. \A u \in Tasks \ {t} : ~Busy(u) /\ fd[u] = {}
  BY DEF CInv, OneSaver, SaverOwnsTmp
<1>3. \A u \in Tasks : ~Busy(u)'
  BY <1>1, <1>2 DEF Busy
<1>4. \A u \in Tasks : fd'[u] = {}
  BY <1>2 DEF CInv, Typed, EndSave
<1>5. phase' \in [Tasks -> Phases] /\ fd' \in [Tasks -> Names]
  BY EmptyName DEF CInv, Typed, EndSave, Phases
<1>6. out' \in [Tasks -> Seq(Items)]
  BY EmptySeq, Zenon DEF CInv, Typed, EndSave
<1>7. atCall' \in [Tasks -> [Keys -> Nat]]
  <2>1. Zero \in [Keys -> Nat]
    BY DEF Zero
  <2> QED
    BY <2>1, Zenon DEF CInv, Typed, EndSave
<1>8. left' \in [Tasks -> SUBSET Keys] /\ count' \in [Tasks -> Nat]
  BY DEF CInv, Typed, EndSave
<1> QED
  BY <1>1, <1>3, <1>4, <1>5, <1>6, <1>7, <1>8

\* The file that is renamed holds one payload, every key of which is as new as it was
\* at the call.
LEMMA RenamedFile ==
    ASSUME CInv, NEW t \in Tasks, Busy(t), Ended(out[t])
    PROVE  \E i \in Inodes :
              /\ tmp = {i} /\ fd[t] = {i} /\ i \notin path
              /\ Sealed(content[i], grown[i], out[t])
              /\ Fresh(out[t], {}, atCall[t])
<1>1. out[t] # << >> /\ out[t] \in Seq(Items)
  BY EmptySeq DEF Ended, CInv, Typed
<1>2. PICK i \in fd[t] : TRUE
  BY <1>1 DEF CInv, SaverOwnsTmp
<1>3. /\ i \in Inodes /\ fd[t] = {i} /\ tmp = {i} /\ i \notin path
      /\ content[i] = Laid(out[t]) /\ Shaped(out[t]) /\ left[t] = {}
      /\ Bounds(Present, count[t], out[t], left[t], grown[i])
      /\ grown[i] \in SUBSET Keys
  BY <1>2, WritersFile
<1>4. Present \in SUBSET Keys
  BY DEF Present
<1>5. /\ Cardinality(Present \ grown[i]) <= Counted(out[t])
      /\ Counted(out[t]) <= Written(out[t]) + Cardinality(Present \cap {})
      /\ Written(out[t]) <= Cardinality(Present \ {})
  BY <1>1, <1>3 DEF Bounds
<1>6. Cardinality(Present \cap {}) = 0 /\ Present \ {} = Present
  <2>1. Present \cap {} = {} /\ Present \ {} = Present
    OBVIOUS
  <2> QED
    BY <2>1, NoKeys, Zenon
<1>7. /\ Cardinality(Present) <= Cardinality(Present \ grown[i]) + Cardinality(grown[i])
      /\ Cardinality(Present) \in Nat /\ Cardinality(grown[i]) \in Nat
      /\ Cardinality(Present) <= Cardinality(Keys) /\ Cardinality(Keys) \in Nat
      /\ Cardinality(Present \ grown[i]) \in Nat
  <2>1. Present \ grown[i] \in SUBSET Keys
    BY <1>4
  <2>2. Cardinality(Present) <= Cardinality(Present \ grown[i]) + Cardinality(grown[i])
    BY <1>3, <1>4, TwoParts
  <2> QED
    BY <1>3, <1>4, <2>1, <2>2, KeySets, KeyCount
<1>8. Counted(out[t]) \in Nat /\ Written(out[t]) \in Int /\ Len(out[t]) \in Nat
  BY <1>1, PayloadNumbers
<1>9. Counted(out[t]) <= Written(out[t]) /\ Written(out[t]) <= Cardinality(Present)
  <2>1. Counted(out[t]) <= Written(out[t]) + 0
    BY <1>5, <1>6, Zenon
  <2>2. Written(out[t]) <= Cardinality(Present)
    BY <1>5, <1>6, Zenon
  <2> QED
    BY <1>8, <2>1, <2>2
<1>10. /\ Counted(out[t]) <= Entries(out[t])
       /\ Entries(out[t]) <= Counted(out[t]) + Cardinality(grown[i])
       /\ Len(out[t]) <= Cardinality(Keys) + 2
  <2>1. Written(out[t]) = Entries(out[t]) /\ Entries(out[t]) = Len(out[t]) - 2
    BY DEF Written, Entries
  <2>2. Written(out[t]) <= Counted(out[t]) + Cardinality(grown[i])
    BY <1>5, <1>7, <1>8, <1>9
  <2>3. Written(out[t]) <= Cardinality(Keys)
    BY <1>7, <1>8, <1>9
  <2>4. Len(out[t]) - 2 <= Cardinality(Keys)
    BY <2>1, <2>3, Zenon
  <2>5. Len(out[t]) <= Cardinality(Keys) + 2
    <3>1. \A m, n \in Nat : m - 2 <= n => m <= n + 2
      OBVIOUS
    <3> QED
      BY <1>7, <1>8, <2>4, <3>1, Zenon
  <2> QED
    BY <1>9, <2>1, <2>2, <2>5, Zenon
<1>11. Sealed(content[i], grown[i], out[t])
  BY <1>3, <1>10 DEF Sealed
<1>12. Fresh(out[t], {}, atCall[t])
  BY <1>3 DEF CInv, WrittenSinceCall
<1> QED
  BY <1>3, <1>11, <1>12

\* What such a file gives back, of any versions the memory had reached at the call.
LEMMA FreshFile ==
    ASSUME CInv, NEW t \in Tasks, Busy(t), NEW i \in Inodes,
           Sealed(content[i], grown[i], out[t]), Fresh(out[t], {}, atCall[t]),
           NEW versions \in [Keys -> Nat], \A k \in Keys : versions[k] <= atCall[t][k]
    PROVE  /\ Concedes(out[t], grown[i], versions)
           /\ \A k \in Keys : Restored(out[t])[k] \in Nat /\ Restored(out[t])[k] <= mem[k]
<1>1. out[t] \in Seq(Items) /\ atCall[t] \in [Keys -> Nat] /\ grown[i] \in SUBSET Keys
  BY DEF CInv, Typed
<1>2. ASSUME NEW n \in 2 .. Len(out[t]), out[t][n].of \in Keys
      PROVE  versions[out[t][n].of] <= out[t][n].value
  <2>1. PICK k \in Keys : k = out[t][n].of
    BY <1>2
  <2>2. atCall[t][k] <= out[t][n].value
    BY <1>2, <2>1 DEF Fresh
  <2>3. out[t][n].value \in Nat
    <3>1. out[t][n] \in Items
      BY <1>1
    <3> QED
      BY <3>1 DEF Items
  <2>4. versions[k] <= out[t][n].value
    BY <1>1, <2>2, <2>3
  <2> QED
    BY <2>1, <2>4
<1>3. ASSUME NEW k \in Keys, versions[k] > 0
      PROVE  \E n \in 2 .. Len(out[t]) : out[t][n].of = k
  <2>1. atCall[t][k] > 0
    BY <1>1, <1>3
  <2>2. out[t] # << >>
    BY EmptySeq DEF Sealed, Ended
  <2> QED
    BY <2>1, <2>2 DEF Fresh
<1>4. Concedes(out[t], grown[i], versions)
  BY <1>1, <1>2, <1>3, FreshConcedes
<1>5. ASSUME NEW k \in Keys
      PROVE  Restored(out[t])[k] \in Nat /\ Restored(out[t])[k] <= mem[k]
  <2>1. mem[k] \in Nat
    BY DEF CInv, Typed
  <2>2. /\ Restored(out[t])[k] \in Nat
        /\ \/ Restored(out[t])[k] = 0
           \/ \E n \in 2 .. Len(out[t]) : out[t][n].of = k /\ Restored(out[t])[k] = out[t][n].value
    BY RestoredIsWritten
  <2>3. ASSUME NEW n \in 2 .. Len(out[t]), out[t][n].of = k
        PROVE  out[t][n].value <= mem[k]
    BY <2>3 DEF Fresh
  <2> QED
    BY <2>1, <2>2, <2>3
<1> QED
  BY <1>4, <1>5

LEMMA RenameKeeps ==
    ASSUME CInv, NEW t \in Tasks, Rename(t)
    PROVE  CInv'
<1>1. /\ Busy(t) /\ Ended(out[t]) /\ path' = tmp /\ tmp' = {} /\ EndSave(t) /\ blind' = FALSE
      /\ content' = [i \in Inodes |-> IF i \in path \ tmp THEN Blank ELSE content[i]]
      /\ grown' = [i \in Inodes |-> IF i \in path \ tmp THEN {} ELSE grown[i]]
      /\ VouchForSaved(t)
      /\ UNCHANGED <<process, mem, persisted, lost>>
  BY DEF Rename
<1>2. PICK i \in Inodes :
         /\ tmp = {i} /\ fd[t] = {i} /\ i \notin path
         /\ Sealed(content[i], grown[i], out[t])
         /\ Fresh(out[t], {}, atCall[t])
  BY <1>1, RenamedFile
<1>3. /\ \A u \in Tasks : phase'[u] = IF u # t THEN phase[u]
               ELSE IF phase[t] = "saving" THEN "live" ELSE "releasing"
      /\ \A u \in Tasks : ~Busy(u)' /\ fd'[u] = {}
  BY <1>1, EndSaveLeaves
<1>4. phase[t] = "saving" \/ phase[t] = "dropSaving"
  BY <1>1 DEF Busy
<1>5. path' = {i} /\ content'[i] = content[i] /\ grown'[i] = grown[i]
  BY <1>1, <1>2
<1>6. /\ atCall[t] \in [Keys -> Nat] /\ durable' = atCall[t]
      /\ \A k \in Keys : atCall[t][k] <= mem[k] /\ atCall[t][k] <= atCall[t][k]
  <2>1. /\ atCall[t] \in [Keys -> Nat] /\ durable \in [Keys -> Nat]
        /\ \A k \in Keys : atCall[t][k] <= mem[k] /\ durable[k] <= atCall[t][k]
    BY <1>1 DEF CInv, Typed, WrittenSinceCall
  <2>2. \A k \in Keys : (IF durable[k] < atCall[t][k] THEN atCall[t][k] ELSE durable[k]) = atCall[t][k]
    BY <2>1
  <2> QED
    BY <1>1, <2>1, <2>2 DEF VouchForSaved
<1>7. /\ Concedes(out[t], grown[i], atCall[t])
      /\ \A k \in Keys : Restored(out[t])[k] \in Nat /\ Restored(out[t])[k] <= mem[k]
  BY <1>1, <1>2, <1>6, FreshFile
<1>8. Typed'
  <2>1. path' \in Names /\ tmp' \in Names
    BY <1>1, <1>2 DEF Names
  <2>2. content' \in [Inodes -> [Positions -> SUBSET Seq(Items)]]
    <3>1. Blank \in [Positions -> SUBSET Seq(Items)]
      BY DEF Blank
    <3> QED
      BY <1>1, <3>1, Zenon DEF CInv, Typed
  <2>3. grown' \in [Inodes -> SUBSET Keys]
    BY <1>1 DEF CInv, Typed
  <2> QED
    BY <1>1, <1>6, <2>1, <2>2, <2>3, EndSaveLeaves DEF CInv, Typed
<1>9. process = "up" /\ PersistOnDrop
  BY <1>4, <1>1, ClonesAreUp DEF CInv, FilesNeedPath
<1>10. OneSaver' /\ ClonesNeedProcess' /\ FilesNeedPath' /\ DropSavesAlone'
  <2>1. \A u \in Tasks : phase'[u] # "dropSaving"
    BY <1>3 DEF Busy
  <2> QED
    BY <1>1, <1>3, <1>9, <2>1 DEF OneSaver, ClonesNeedProcess, FilesNeedPath, DropSavesAlone
<1>11. PersistedIsLast'
  BY <1>1, <1>3, <1>4, <1>9 DEF CInv, PersistedIsLast
<1>12. SaverOwnsTmp' /\ WrittenSinceCall' /\ CountsMiss'
  BY <1>1, <1>3 DEF SaverOwnsTmp, WrittenSinceCall, CountsMiss
<1>13. SnapshotIsOld'
  <2>1. out[t] \in Seq(Items)
    BY DEF CInv, Typed
  <2>2. PICK s \in Seq(Items) : s = out[t]
    BY <2>1
  <2>3. Behind(s)'
    BY <1>1, <1>3, <1>7, <2>2 DEF Behind
  <2>4. Sealed(content'[i], grown'[i], s) /\ Concedes(s, grown'[i], durable')
    BY <1>2, <1>5, <1>6, <1>7, <2>2
  <2>5. \A k \in Keys : durable'[k] <= mem'[k]
    BY <1>1, <1>6
  <2> QED
    BY <1>5, <2>3, <2>4, <2>5 DEF SnapshotIsOld
<1>14. LastDropSaved'
  <2> SUFFICES ASSUME \A u \in Tasks : phase'[u] \in {"none", "releasing"}
               PROVE  out[t] \in Readable(content[i]) /\ Restored(out[t]) = mem
    BY <1>1, <1>5 DEF LastDropSaved
  <2>1. phase[t] = "dropSaving"
    BY <1>3, <1>4
  <2>2. atCall[t] = mem /\ grown[i] = {}
    BY <1>2, <2>1 DEF CInv, DropSavesAlone
  <2>3. Missed(out[t], mem) = {}
    <3>1. Concedes(out[t], {}, mem)
      BY <1>7, <2>2
    <3>2. Missed(out[t], mem) \in SUBSET Keys
      BY DEF Missed
    <3>3. IsFiniteSet(Missed(out[t], mem)) /\ Cardinality(Missed(out[t], mem)) \in Nat
      BY <3>2, KeySets
    <3>4. Cardinality(Missed(out[t], mem)) = 0
      BY <3>1, <3>3, NoKeys DEF Concedes
    <3> QED
      BY <3>3, <3>4, FS_EmptySet
  <2>4. ASSUME NEW k \in Keys PROVE Restored(out[t])[k] = mem[k]
    <3>1. ~(Restored(out[t])[k] < mem[k])
      BY <2>3 DEF Missed
    <3>2. mem[k] \in Nat
      BY DEF CInv, Typed
    <3> QED
      BY <1>7, <3>1, <3>2
  <2>5. Restored(out[t]) = mem
    <3>1. Restored(out[t]) = [k \in Keys |-> Restored(out[t])[k]]
      BY DEF Restored
    <3>2. mem = [k \in Keys |-> mem[k]]
      BY DEF CInv, Typed
    <3> HIDE DEF Restored
    <3> QED
      BY <2>4, <3>1, <3>2
  <2> QED
    BY <1>2, <2>5, SealedIsRead
<1> QED
  BY <1>8, <1>10, <1>11, <1>12, <1>13, <1>14 DEF CInv

LEMMA SaveFailsKeeps ==
    ASSUME CInv, NEW t \in Tasks, SaveFails(t)
    PROVE  CInv'
<1>1. /\ Busy(t) /\ EndSave(t) /\ lost' = (lost \/ phase[t] = "dropSaving")
      /\ UNCHANGED <<process, mem, persisted, tmp, path, content, grown, durable, blind>>
  BY DEF SaveFails, disk
<1>2. /\ \A u \in Tasks : phase'[u] = IF u # t THEN phase[u]
               ELSE IF phase[t] = "saving" THEN "live" ELSE "releasing"
      /\ \A u \in Tasks : ~Busy(u)' /\ fd'[u] = {}
  BY <1>1, EndSaveLeaves
<1>3. phase[t] = "saving" \/ phase[t] = "dropSaving"
  BY <1>1 DEF Busy
<1>4. Typed'
  <2>1. lost' \in BOOLEAN
    BY <1>1, Zenon
  <2> QED
    BY <1>1, <2>1, EndSaveLeaves DEF CInv, Typed
<1>5. process = "up" /\ PersistOnDrop
  BY <1>3, <1>1, ClonesAreUp DEF CInv, FilesNeedPath
<1>6. OneSaver' /\ ClonesNeedProcess' /\ FilesNeedPath' /\ DropSavesAlone'
  <2>1. \A u \in Tasks : phase'[u] # "dropSaving"
    BY <1>2 DEF Busy
  <2> QED
    BY <1>1, <1>2, <1>5, <2>1 DEF OneSaver, ClonesNeedProcess, FilesNeedPath, DropSavesAlone
<1>7. PersistedIsLast'
  BY <1>1, <1>2, <1>3, <1>5 DEF CInv, PersistedIsLast
<1>8. SaverOwnsTmp' /\ WrittenSinceCall' /\ CountsMiss'
  BY <1>1, <1>2 DEF CInv, SaverOwnsTmp, WrittenSinceCall, CountsMiss
<1>9. SnapshotIsOld'
  BY <1>1, <1>2, SnapshotStays DEF CInv, Typed
<1>10. LastDropSaved'
  <2> SUFFICES ASSUME ~lost', \A u \in Tasks : phase'[u] \in {"none", "releasing"}
               PROVE  FALSE
    BY DEF LastDropSaved
  <2>1. phase[t] # "dropSaving"
    BY <1>1, Zenon
  <2> QED
    BY <1>2, <1>3, <2>1
<1> QED
  BY <1>4, <1>6, <1>7, <1>8, <1>9, <1>10 DEF CInv

LEMMA NextCInv ==
    ASSUME SerialSaves, CInv, [Next]_vars
    PROVE  CInv'
<1>1. ASSUME NEW t \in Tasks, Step(t) PROVE CInv'
  <2>1. ASSUME NEW u \in Tasks, Clone(t, u) PROVE CInv'
    BY <2>1, CloneKeeps
  <2>2. ASSUME NEW k \in Keys, Insert(t, k) PROVE CInv'
    BY <2>2, InsertKeeps
  <2> QED
    BY <1>1, <2>1, <2>2, LoadKeeps, SaveKeeps, DropKeeps, ReleaseKeeps, OpenKeeps,
       CountShardKeeps, WriteCountKeeps, WriteShardKeeps, WriteDepthKeeps, RenameKeeps,
       SaveFailsKeeps DEF Step
<1>2. CASE UNCHANGED vars
  <2>1. /\ Typed' = Typed /\ OneSaver' = OneSaver /\ ClonesNeedProcess' = ClonesNeedProcess
        /\ FilesNeedPath' = FilesNeedPath /\ PersistedIsLast' = PersistedIsLast
        /\ DropSavesAlone' = DropSavesAlone
    BY <1>2 DEF vars, Typed, OneSaver, ClonesNeedProcess, FilesNeedPath, PersistedIsLast,
                DropSavesAlone, Busy
  <2>2. /\ SaverOwnsTmp' = SaverOwnsTmp /\ CountsMiss' = CountsMiss
        /\ WrittenSinceCall' = WrittenSinceCall /\ LastDropSaved' = LastDropSaved
    BY <1>2 DEF vars, SaverOwnsTmp, CountsMiss, Present, WrittenSinceCall, Fresh,
                LastDropSaved, Busy
  <2>3. SnapshotIsOld'
    <3>1. \A u \in Tasks : Busy(u)' = Busy(u)
      BY <1>2 DEF vars, Busy
    <3> QED
      BY <1>2, <3>1, SnapshotStays DEF vars, CInv, Typed
  <2> QED
    BY <2>1, <2>2, <2>3 DEF CInv
<1> QED
  BY <1>1, <1>2, CrashKeeps DEF Next

-----------------------------------------------------------------------------
(* What the cache promises of its snapshot. *)

\* What the runs check, of one state.
LEMMA CInvSuffices ==
    ASSUME CInv
    PROVE  SnapshotIsComplete /\ AcknowledgedSurvives /\ FinalDropSaves
<1>1. SnapshotIsComplete
  <2> SUFFICES ASSUME NEW i \in path
               PROVE  \E s \in Readable(content[i]) :
                         Entries(s) - Counted(s) <= Cardinality(grown[i])
    BY DEF SnapshotIsComplete
  <2>1. PICK s \in Seq(Items) : Sealed(content[i], grown[i], s) /\ Readable(content[i]) = {s}
    BY SnapshotReads
  <2>2. grown[i] \in SUBSET Keys
    BY SnapshotReads DEF CInv, Typed
  <2>3. Cardinality(grown[i]) \in Nat
    BY <2>2, KeySets
  <2>4. s # << >>
    BY <2>1, EmptySeq DEF Sealed, Ended
  <2>5. Counted(s) \in Nat /\ Len(s) \in Nat
    BY <2>4, PayloadNumbers
  <2>6. Entries(s) <= Counted(s) + Cardinality(grown[i]) /\ Entries(s) \in Int
    BY <2>1, <2>5 DEF Sealed, Entries
  <2>7. Entries(s) - Counted(s) <= Cardinality(grown[i])
    BY <2>3, <2>5, <2>6
  <2> QED
    BY <2>1, <2>7
<1>2. AcknowledgedSurvives
  <2> SUFFICES ASSUME NEW k \in Keys, durable[k] > 0
               PROVE  \E i \in path : Keeps(i, durable)
    BY DEF AcknowledgedSurvives
  <2>1. PICK i \in path : TRUE
    BY DEF CInv, SnapshotIsOld, Zero
  <2>2. PICK s \in Seq(Items) : Concedes(s, grown[i], durable) /\ Readable(content[i]) = {s}
    BY SnapshotReads
  <2> QED
    BY <2>2 DEF Keeps, Concedes
<1>3. FinalDropSaves
  <2>1. (process = "up" /\ PersistOnDrop /\ ~lost /\ \A t \in Tasks : phase[t] = "none") =>
           \E i \in path : \E s \in Readable(content[i]) : Restored(s) = mem
    BY DEF CInv, LastDropSaved
  <2>2. ASSUME NEW t \in Tasks, phase[t] = "dropSaving"
        PROVE  /\ \A u \in Tasks \ {t} : phase[u] = "none"
               /\ \A n \in 1 .. Len(out[t]) :
                     out[t][n].of \in Keys => out[t][n].value = mem[out[t][n].of]
    <3>1. /\ \A u \in Tasks \ {t} : phase[u] = "none"
          /\ atCall[t] = mem
      BY <2>2 DEF CInv, DropSavesAlone
    <3>2. Fresh(out[t], left[t], atCall[t]) /\ out[t] \in Seq(Items) /\ mem \in [Keys -> Nat]
      BY <2>2 DEF CInv, WrittenSinceCall, Typed, Busy
    <3>3. ASSUME NEW n \in 1 .. Len(out[t]), out[t][n].of \in Keys
          PROVE  out[t][n].value = mem[out[t][n].of]
      <4>1. n \in 2 .. Len(out[t])
        <5>1. n # 1
          <6>1. fd[t] # {}
            BY <2>2, <3>3, EmptySeq DEF CInv, SaverOwnsTmp, Busy
          <6>2. out[t] # << >> => out[t][1].of = "count"
            BY <6>1 DEF CInv, CountsMiss, Shaped
          <6>3. out[t] # << >>
            BY <3>2, <3>3, EmptySeq
          <6> QED
            BY <3>3, <6>2, <6>3, LocalCacheAssumption
        <5> QED
          BY <3>2, <5>1
      <4>2. PICK k \in Keys : k = out[t][n].of
        BY <3>3
      <4>3. mem[k] <= out[t][n].value /\ out[t][n].value <= mem[k]
        BY <3>1, <3>2, <3>3, <4>1, <4>2 DEF Fresh
      <4>4. mem[k] \in Nat /\ out[t][n].value \in Nat
        <5>1. out[t][n] \in Items
          BY <3>2
        <5> QED
          BY <3>2, <5>1 DEF Items
      <4>5. mem[k] = out[t][n].value
        BY <4>3, <4>4
      <4> QED
        BY <4>2, <4>5
    <3> QED
      BY <3>1, <3>3
  <2> QED
    BY <2>1, <2>2 DEF FinalDropSaves
<1> QED
  BY <1>1, <1>2, <1>3

\* Neither opening nor writing a file touches the snapshot.
LEMMA SnapshotUntouched ==
    ASSUME CInv, NEW t \in Tasks, Step(t), ~Rename(t)
    PROVE  path' = path /\ \A j \in path : content'[j] = content[j] /\ grown'[j] = grown[j]
<1>1. path \subseteq Inodes /\ tmp \cap path = {} /\ \A j \in path, u \in Tasks : j \notin fd[u]
  BY SnapshotReads DEF CInv, SaverOwnsTmp
<1>2. CASE Open(t)
  <2>1. PICK i \in Inodes : /\ IF tmp # {} THEN i \in tmp
                               ELSE i \notin path \cup UNION {fd[u] : u \in Tasks}
                            /\ content' = [content EXCEPT ![i] = Blank]
                            /\ grown' = [grown EXCEPT ![i] = {}]
    BY <1>2, Zenon DEF Open, OpenFile
  <2> QED
    BY <1>1, <1>2, <2>1 DEF CInv, Typed, Open
<1>3. ASSUME NEW item, Emit(t, item), path' = path, grown' = grown
      PROVE  path' = path /\ \A j \in path : content'[j] = content[j] /\ grown'[j] = grown[j]
  <2>1. PICK i \in fd[t] : content' = [content EXCEPT ![i][Len(out'[t])] = {out'[t]}]
    BY <1>3, Zenon DEF Emit
  <2>2. i \notin path
    BY <1>1, <2>1
  <2> QED
    BY <1>1, <1>3, <2>1, <2>2 DEF CInv, Typed
<1>4. CASE WriteCount(t) \/ WriteShard(t) \/ WriteDepth(t)
  BY <1>3, <1>4 DEF WriteCount, WriteShard, WriteDepth, history
<1>5. CASE \E k \in Keys : Insert(t, k)
  BY <1>1, <1>5 DEF Insert, disk, CInv, Typed
<1> QED
  BY <1>2, <1>4, <1>5
     DEF Step, LoadOrNew, Clone, Save, Drop, Release, CountShard, SaveFails, disk, history

LEMMA SnapshotAdvances ==
    ASSUME CInv, [Next]_vars, ~blind, NEW i \in path, NEW j \in path',
           NEW s \in Readable(content[i])
    PROVE  Keeps(j, Restored(s))'
<1>1. /\ path = {i} /\ i \in Inodes /\ Restored(s) \in [Keys -> Nat]
      /\ process = "up" => Behind(s)
  <2>1. PICK r \in Seq(Items) : /\ Restored(r) \in [Keys -> Nat] /\ Readable(content[i]) = {r}
                                /\ process = "up" /\ ~blind => Behind(r)
    BY SnapshotReads
  <2>2. s = r
    BY <2>1
  <2> QED
    BY <2>1, <2>2, SnapshotReads
<1>2. CASE \E t \in Tasks : Rename(t)
  <2>1. PICK t \in Tasks : Rename(t)
    BY <1>2
  <2>2. Busy(t) /\ Ended(out[t])
    BY <2>1 DEF Rename
  <2>3. PICK f \in Inodes : /\ tmp = {f} /\ f \notin path
                            /\ Sealed(content[f], grown[f], out[t])
                            /\ Fresh(out[t], {}, atCall[t])
    BY <2>2, RenamedFile
  <2>4. j = f /\ content'[f] = content[f] /\ grown'[f] = grown[f]
    BY <2>1, <2>3 DEF Rename
  <2>5. process = "up"
    BY <2>2, ClonesAreUp DEF Busy
  <2>6. \A k \in Keys : Restored(s)[k] <= atCall[t][k]
    BY <1>1, <2>2, <2>5 DEF Behind
  <2>7. Concedes(out[t], grown[f], Restored(s))
    BY <1>1, <2>2, <2>3, <2>6, FreshFile
  <2>8. Readable(content'[j]) = {out[t]}
    BY <2>3, <2>4, SealedIsRead
  <2> QED
    BY <2>4, <2>7, <2>8 DEF Keeps, Concedes
<1>3. CASE path' = path /\ \A f \in path : content'[f] = content[f] /\ grown'[f] = grown[f]
  <2>1. j = i /\ content'[j] = content[i] /\ grown'[j] = grown[i]
    BY <1>1, <1>3
  <2>2. grown[i] \in SUBSET Keys
    BY <1>1 DEF CInv, Typed
  <2>3. \A k \in Keys : ~(Restored(s)[k] < Restored(s)[k])
    BY <1>1
  <2>4. Concedes(s, grown[i], Restored(s))
    BY <2>2, <2>3, NoneMissed
  <2> QED
    BY <2>1, <2>4 DEF Keeps, Concedes
<1>4. \/ \E t \in Tasks : Rename(t)
      \/ path' = path /\ \A f \in path : content'[f] = content[f] /\ grown'[f] = grown[f]
  <2>1. CASE Next
    <3>1. CASE Crash
      BY <3>1 DEF Crash, disk
    <3>2. ASSUME NEW t \in Tasks, Step(t), ~Rename(t)
          PROVE  path' = path /\ \A f \in path : content'[f] = content[f] /\ grown'[f] = grown[f]
      BY <3>2, SnapshotUntouched
    <3> QED
      BY <2>1, <3>1, <3>2 DEF Next
  <2>2. CASE UNCHANGED vars
    BY <2>2 DEF vars
  <2> QED
    BY <2>1, <2>2
<1> QED
  BY <1>2, <1>3, <1>4

\* Writes are atomic (persist.rs:13): where callers save one at a time, the snapshot
\* file is at every moment, crashes included, one that load_or_new accepts; and it
\* falls short of its last entries only by as many as keys were added to the map while
\* it was written, because the count is taken first (persist.rs:88).
THEOREM SerialSnapshotsAreComplete ==
    ASSUME SerialSaves
    PROVE  Spec => []SnapshotIsComplete
<1>1. Init => CInv
  BY InitCInv
<1>2. CInv /\ [Next]_vars => CInv'
  BY NextCInv
<1>3. CInv => SnapshotIsComplete
  BY CInvSuffices
<1> QED
  BY <1>1, <1>2, <1>3, PTL DEF Spec

\* Guaranteed persistence (cache.rs:83-85): whatever crashes or failed saves follow a
\* save that returned Ok, a restart gives every key back at least as new as it was
\* when that save was called, but for as many as were added to the map while the
\* snapshot was written, which are missing altogether.
THEOREM AcknowledgedSavesSurvive ==
    ASSUME SerialSaves
    PROVE  Spec => []AcknowledgedSurvives
<1>1. Init => CInv
  BY InitCInv
<1>2. CInv /\ [Next]_vars => CInv'
  BY NextCInv
<1>3. CInv => AcknowledgedSurvives
  BY CInvSuffices
<1> QED
  BY <1>1, <1>2, <1>3, PTL DEF Spec

\* The final clone to drop (cache.rs:82) saves alone, and what it leaves behind is the
\* memory as it was, unless two drops overlapped or its save failed.
THEOREM TheLastDropSaves ==
    ASSUME SerialSaves
    PROVE  Spec => []FinalDropSaves
<1>1. Init => CInv
  BY InitCInv
<1>2. CInv /\ [Next]_vars => CInv'
  BY NextCInv
<1>3. CInv => FinalDropSaves
  BY CInvSuffices
<1> QED
  BY <1>1, <1>2, <1>3, PTL DEF Spec

\* write_payload (persist.rs:74-95) replaces the snapshot by one that takes no key back,
\* over restarts too, because load_or_new starts the next process from it: but for keys
\* lost to the count, and unless the process took the snapshot for no file (cache.rs:301).
THEOREM SerialSnapshotsAdvance ==
    ASSUME SerialSaves
    PROVE  Spec => SnapshotsAdvance
<1> DEFINE Advance == ~blind =>
              \A i \in path, j \in path' : \A s \in Readable(content[i]) : Keeps(j, Restored(s))'
<1>1. Init => CInv
  BY InitCInv
<1>2. CInv /\ [Next]_vars => CInv'
  BY NextCInv
<1>3. CInv /\ [Next]_vars => [Advance]_vars
  BY SnapshotAdvances
<1> QED
  BY <1>1, <1>2, <1>3, PTL DEF Spec, SnapshotsAdvance
=============================================================================
