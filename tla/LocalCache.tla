----------------------------- MODULE LocalCache -----------------------------
(***************************************************************************)
(* The life of a LocalCache: clones shared by tasks, explicit save(), the  *)
(* snapshot written when the final clone drops, process crashes and        *)
(* load_or_new (src/crates/storage/cache/src/{cache,persist}.rs).          *)
(*                                                                         *)
(* The persisted field (blockhashes, the only one not skipped) is          *)
(* abstracted to a version per key.  Its map is serialized behind the back *)
(* of inserts, which need only the shard they touch: DashMap first adds up *)
(* the lengths of its shards one by one, the encoder writes that number,   *)
(* and then the entries follow shard by shard, each as it is at that       *)
(* moment; the depth of the map comes last.  A key added in between is     *)
(* written but not counted.  Nothing ever removes a key of this map.       *)
(*                                                                         *)
(* Files are modelled by what two openers of one name can do to each       *)
(* other: a name is bound to an inode, File::create truncates the inode a  *)
(* name is bound to, and every opener writes at its own offset.  The bytes *)
(* of a compressed stream depend on all that was written before them, so   *)
(* the block a writer emits for its n-th item carries all items up to it.  *)
(***************************************************************************)
EXTENDS Naturals, Sequences, FiniteSets

CONSTANTS
  Tasks,          \* tasks that may hold a clone
  Keys,           \* keys of the persisted field, each in a shard of its own
  Inodes,         \* files the disk can hold
  PersistOnDrop,  \* whether persist_on_drop is configured
  SerialSaves,    \* whether callers never overlap two save() calls
  MaxVersion      \* bound: how often a key is written

ASSUME LocalCacheAssumption ==
  /\ IsFiniteSet(Tasks)
  /\ IsFiniteSet(Keys)
  /\ {"count", "depth"} \cap Keys = {}
  /\ PersistOnDrop \in BOOLEAN
  /\ SerialSaves \in BOOLEAN
  /\ MaxVersion \in Nat

VARIABLES
  process,   \* "up", "down", or "refused" after load_or_new returned an error
  mem,       \* the in-memory version of each key, 0 if absent
  phase,     \* phase[t]: what t is doing with its clone
  persisted, \* CacheMeta.persisted, FALSE while there is no process
  tmp, path, \* the inode each file name is bound to, {} if there is no file
  content,   \* content[i]: the blocks of inode i, {} where none was written
  fd,        \* fd[t]: the inode t is writing, {} before File::create
  left,      \* left[t]: the shards t has yet to visit, in one pass or the other
  count,     \* count[t]: the entries t has counted
  out,       \* out[t]: the items t has serialized so far
  atCall,    \* history: mem when t's running save began
  grown,     \* history: the keys added to the map while inode i was written
  durable,   \* history: the versions acknowledged saves vouch for
  blind,     \* history: this process took an existing snapshot for none
  lost       \* history: a drop overlapped another, or a drop's save failed

vars == <<process, mem, phase, persisted, tmp, path, content, fd, left, count,
          out, atCall, grown, durable, blind, lost>>

disk == <<tmp, path, content>>

writer == <<fd, left, count, out, atCall>>

history == <<grown, durable, blind, lost>>

Phases == {"none", "live", "saving", "dropSaving", "releasing"}

Positions == 1 .. (Cardinality(Keys) + 2)

Blank == [p \in Positions |-> {}]

Zero == [k \in Keys |-> 0]

Present == {k \in Keys : mem[k] > 0}

(* One item of the payload: the element count, an entry, or the depth.     *)
Item(of, value) == [of |-> of, value |-> value]

Ended(s) == Len(s) > 0 /\ s[Len(s)].of = "depth"

(* The payloads that a file of these blocks holds whole, each continuing   *)
(* the ones before it.  What lies behind the depth is never read.          *)
Streams(blocks) ==
  {s \in UNION {blocks[p] : p \in Positions} :
     Ended(s) /\ \A p \in 1 .. Len(s) : blocks[p] = {SubSeq(s, 1, p)}}

Counted(s) == s[1].value

Entries(s) == Len(s) - 2

(* read_payload runs off the end of a payload that has fewer entries than  *)
(* it counts.                                                              *)
Readable(blocks) == {s \in Streams(blocks) : Counted(s) <= Entries(s)}

(* It takes as many entries as are counted; of one more entry, the first   *)
(* bytes are taken for the depth of the map, and the rest is left unread.  *)
Restored(s) ==
  [k \in Keys |->
     LET at == {n \in 2 .. Counted(s) + 1 : s[n].of = k}
     IN  IF at = {} THEN 0 ELSE s[CHOOSE n \in at : TRUE].value]

Busy(t) == phase[t] \in {"saving", "dropSaving"}

(* Mutant of StrongCount: another Arc of the meta is alive somewhere.      *)
StrongCountPlusOne == Cardinality({t \in Tasks : phase[t] # "none"}) + 1

(* Arc::strong_count(&self.meta): a dropping clone counts until released.  *)
StrongCount == Cardinality({t \in Tasks : phase[t] # "none"})
-----------------------------------------------------------------------------
Init ==
  /\ process = "down"
  /\ mem = Zero
  /\ phase = [t \in Tasks |-> "none"]
  /\ persisted = FALSE
  /\ tmp = {}
  /\ path = {}
  /\ content = [i \in Inodes |-> Blank]
  /\ fd = [t \in Tasks |-> {}]
  /\ left = [t \in Tasks |-> {}]
  /\ count = [t \in Tasks |-> 0]
  /\ out = [t \in Tasks |-> << >>]
  /\ atCall = [t \in Tasks |-> Zero]
  /\ grown = [i \in Inodes |-> {}]
  /\ durable = Zero
  /\ blind = FALSE
  /\ lost = FALSE

(* What a start does not give back, no later one can. *)
VouchForLoaded ==
  durable' = [k \in Keys |-> IF durable[k] > mem'[k] THEN mem'[k] ELSE durable[k]]

StartEmpty(t) ==
  /\ process' = "up"
  /\ mem' = Zero
  /\ phase' = [phase EXCEPT ![t] = "live"]
  /\ VouchForLoaded

(* Mutant of LoadOrNew: the snapshot is not read. *)
AlwaysNew(t) ==
  /\ process = "down"
  /\ StartEmpty(t)
  /\ UNCHANGED <<persisted, disk, writer, grown, blind, lost>>

(* load_or_new: an empty cache if there is no path or no file, or if the   *)
(* stat behind exists() fails; an error if the file does not read back     *)
(* (one of opening or reading it changes nothing, and the process can be   *)
(* started again); its contents otherwise.                                 *)
LoadOrNew(t) ==
  /\ process = "down"
  /\ \/ /\ StartEmpty(t)
        /\ blind' = (path # {})
     \/ /\ PersistOnDrop
        /\ \E i \in path :
             \/ \E s \in Readable(content[i]) :
                  /\ process' = "up"
                  /\ mem' = Restored(s)
                  /\ phase' = [phase EXCEPT ![t] = "live"]
                  /\ VouchForLoaded
             \/ /\ Readable(content[i]) = {}
                /\ process' = "refused"
                /\ UNCHANGED <<mem, phase, durable>>
        /\ UNCHANGED blind
  /\ UNCHANGED <<persisted, disk, writer, grown, lost>>

Clone(t, u) ==
  /\ phase[t] = "live" /\ phase[u] = "none"
  /\ phase' = [phase EXCEPT ![u] = "live"]
  /\ UNCHANGED <<process, mem, persisted, disk, writer, history>>

(* An insert of a key the map has, or of a new one.                        *)
Insert(t, k) ==
  /\ phase[t] = "live"
  /\ mem[k] < MaxVersion
  /\ mem' = [mem EXCEPT ![k] = @ + 1]
  /\ grown' = [i \in Inodes |->
                 IF mem[k] = 0 /\ \E u \in Tasks : i \in fd[u]
                 THEN grown[i] \cup {k} ELSE grown[i]]
  /\ UNCHANGED <<process, phase, persisted, disk, writer, durable, blind, lost>>

BeginSave(t, as) ==
  /\ phase' = [phase EXCEPT ![t] = as]
  /\ fd' = [fd EXCEPT ![t] = {}]
  /\ left' = [left EXCEPT ![t] = Keys]
  /\ count' = [count EXCEPT ![t] = 0]
  /\ out' = [out EXCEPT ![t] = << >>]
  /\ atCall' = [atCall EXCEPT ![t] = mem]

(* save(): NoPersistPath without a path.                                   *)
Save(t) ==
  /\ phase[t] = "live"
  /\ PersistOnDrop
  /\ SerialSaves => ~\E u \in Tasks : Busy(u)
  /\ BeginSave(t, "saving")
  /\ UNCHANGED <<process, mem, persisted, disk, history>>

(* t is the last to drop, while the drop of another has yet to release.    *)
OverlapsDrop(t) ==
  /\ \E u \in Tasks \ {t} : phase[u] = "releasing"
  /\ \A u \in Tasks \ {t} : phase[u] \in {"none", "releasing"}

(* Drop::drop: only a clone that sees itself as the last one saves, and    *)
(* only once.  The Arcs are released after drop returns.                   *)
Drop(t) ==
  /\ phase[t] = "live"
  /\ LET saves == StrongCount = 1 /\ PersistOnDrop /\ ~persisted
     IN  \/ /\ saves
            /\ persisted' = TRUE
            /\ BeginSave(t, "dropSaving")
            /\ UNCHANGED lost
         \/ /\ ~saves
            /\ phase' = [phase EXCEPT ![t] = "releasing"]
            /\ lost' = (lost \/ OverlapsDrop(t))
            /\ UNCHANGED <<persisted, writer>>
  /\ UNCHANGED <<process, mem, disk, grown, durable, blind>>

Release(t) ==
  /\ phase[t] = "releasing"
  /\ phase' = [phase EXCEPT ![t] = "none"]
  /\ UNCHANGED <<process, mem, persisted, disk, writer, history>>
-----------------------------------------------------------------------------
(* Mutant of OpenFile: the temporary name is the snapshot's own. *)
OpenSnapshot(t) ==
  \E i \in Inodes :
    /\ IF path # {} THEN i \in path
       ELSE i \notin tmp \cup UNION {fd[u] : u \in Tasks}
    /\ tmp' = {i}
    /\ fd' = [fd EXCEPT ![t] = {i}]
    /\ content' = [content EXCEPT ![i] = Blank]
    /\ grown' = [grown EXCEPT ![i] = {}]

(* File::create(path + ".tmp").                                            *)
OpenFile(t) ==
  \E i \in Inodes :
    /\ IF tmp # {} THEN i \in tmp
       ELSE i \notin path \cup UNION {fd[u] : u \in Tasks}
    /\ tmp' = {i}
    /\ fd' = [fd EXCEPT ![t] = {i}]
    /\ content' = [content EXCEPT ![i] = Blank]
    /\ grown' = [grown EXCEPT ![i] = {}]

Open(t) ==
  /\ Busy(t) /\ fd[t] = {}
  /\ OpenFile(t)
  /\ UNCHANGED <<process, mem, phase, persisted, path, left, count, out, atCall,
                 durable, blind, lost>>

(* DashMap::len: the next shard is locked and its length added.            *)
CountShard(t) ==
  /\ Busy(t) /\ fd[t] # {} /\ out[t] = << >>
  /\ \E k \in left[t] :
       /\ left' = [left EXCEPT ![t] = @ \ {k}]
       /\ count' = [count EXCEPT ![t] = IF mem[k] > 0 THEN @ + 1 ELSE @]
  /\ UNCHANGED <<process, mem, phase, persisted, disk, fd, out, atCall, history>>

(* An item goes through the encoder to the file.                           *)
Emit(t, item) ==
  /\ out' = [out EXCEPT ![t] = Append(@, item)]
  /\ \E i \in fd[t] : content' = [content EXCEPT ![i][Len(out'[t])] = {out'[t]}]

(* serialize_map writes the number of entries counted.                     *)
WriteCount(t) ==
  /\ Busy(t) /\ out[t] = << >> /\ left[t] = {}
  /\ Emit(t, Item("count", count[t]))
  /\ left' = [left EXCEPT ![t] = Keys]
  /\ UNCHANGED <<process, mem, phase, persisted, tmp, path, fd, count, atCall, history>>

(* DashMap's iterator: the next shard is locked and its entry written, if  *)
(* it has one.                                                             *)
WriteShard(t) ==
  /\ Busy(t) /\ out[t] # << >>
  /\ \E k \in left[t] :
       /\ left' = [left EXCEPT ![t] = @ \ {k}]
       /\ \/ mem[k] > 0 /\ Emit(t, Item(k, mem[k]))
          \/ mem[k] = 0 /\ UNCHANGED <<out, content>>
  /\ UNCHANGED <<process, mem, phase, persisted, tmp, path, fd, count, atCall, history>>

(* The depth of the map, and the end of the compressed stream.             *)
WriteDepth(t) ==
  /\ Busy(t) /\ out[t] # << >> /\ left[t] = {} /\ ~Ended(out[t])
  /\ Emit(t, Item("depth", 0))
  /\ UNCHANGED <<process, mem, phase, persisted, tmp, path, fd, left, count, atCall,
                 history>>

(* write_payload is over: save returns to its caller, drop to the release. *)
EndSave(t) ==
  /\ phase' = [phase EXCEPT ![t] = IF phase[t] = "saving" THEN "live" ELSE "releasing"]
  /\ fd' = [fd EXCEPT ![t] = {}]
  /\ left' = [left EXCEPT ![t] = {}]
  /\ count' = [count EXCEPT ![t] = 0]
  /\ out' = [out EXCEPT ![t] = << >>]
  /\ atCall' = [atCall EXCEPT ![t] = Zero]

(* Ok vouches for every key as new as it was at the call. *)
VouchForSaved(t) ==
  durable' = [k \in Keys |-> IF durable[k] < atCall[t][k] THEN atCall[t][k] ELSE durable[k]]

(* Mutant of Rename: Ok without it. *)
Unrenamed(t) ==
  /\ Busy(t) /\ Ended(out[t])
  /\ tmp # {}
  /\ VouchForSaved(t)
  /\ EndSave(t)
  /\ UNCHANGED <<process, mem, persisted, tmp, path, content, grown, blind, lost>>

(* fs::rename(tmp, path), and Ok.  The file that had the name is gone.     *)
Rename(t) ==
  /\ Busy(t) /\ Ended(out[t])
  /\ tmp # {}
  /\ path' = tmp
  /\ tmp' = {}
  /\ content' = [i \in Inodes |-> IF i \in path \ tmp THEN Blank ELSE content[i]]
  /\ grown' = [i \in Inodes |-> IF i \in path \ tmp THEN {} ELSE grown[i]]
  /\ VouchForSaved(t)
  /\ blind' = FALSE
  /\ EndSave(t)
  /\ UNCHANGED <<process, mem, persisted, lost>>

(* Any i/o error, and a rename that finds no temporary file, end the save  *)
(* with Err; the temporary file stays.  Drop only logs the error.          *)
SaveFails(t) ==
  /\ Busy(t)
  /\ EndSave(t)
  /\ lost' = (lost \/ phase[t] = "dropSaving")
  /\ UNCHANGED <<process, mem, persisted, disk, grown, durable, blind>>

(* The process dies, at any point; what reached the files stays.  A        *)
(* process all of whose clones are gone ends the same way.                 *)
Crash ==
  /\ process = "up"
  /\ process' = "down"
  /\ mem' = Zero
  /\ phase' = [t \in Tasks |-> "none"]
  /\ fd' = [t \in Tasks |-> {}]
  /\ left' = [t \in Tasks |-> {}]
  /\ count' = [t \in Tasks |-> 0]
  /\ out' = [t \in Tasks |-> << >>]
  /\ atCall' = [t \in Tasks |-> Zero]
  /\ persisted' = FALSE
  /\ blind' = FALSE
  /\ lost' = FALSE
  /\ UNCHANGED <<disk, grown, durable>>

Step(t) ==
  \/ LoadOrNew(t)
  \/ \E u \in Tasks : Clone(t, u)
  \/ \E k \in Keys : Insert(t, k)
  \/ Save(t)
  \/ Drop(t)
  \/ Release(t)
  \/ Open(t)
  \/ CountShard(t)
  \/ WriteCount(t)
  \/ WriteShard(t)
  \/ WriteDepth(t)
  \/ Rename(t)
  \/ SaveFails(t)

Next == (\E t \in Tasks : Step(t)) \/ Crash

Spec == Init /\ [][Next]_vars
-----------------------------------------------------------------------------
(* "Writes are atomic (temp file + rename on the same directory)"          *)
(* (persist.rs:13): at no moment, crashes included, is the snapshot file   *)
(* one that load_or_new would refuse; and what it reads back stops short   *)
(* of the last entries, to take a piece of one for the depth, only by as   *)
(* many as keys were added to the map while the file was written.          *)
SnapshotIsComplete ==
  \A i \in path : \E s \in Readable(content[i]) :
     Entries(s) - Counted(s) <= Cardinality(grown[i])

(* The keys that the payload s does not give back as new as in versions.   *)
Missed(s, versions) == {k \in Keys : Restored(s)[k] < versions[k]}

(* Inode i gives back every key as new as it is in versions, but for at    *)
(* most as many as were added while it was written (persist.rs:88): such a *)
(* key is missing altogether, never an older version.                      *)
Keeps(i, versions) ==
  \E s \in Readable(content[i]) :
     /\ \A k \in Missed(s, versions) : Restored(s)[k] = 0
     /\ Cardinality(Missed(s, versions)) <= Cardinality(grown[i])

(* "Callers that want guaranteed persistence should also call save"        *)
(* (cache.rs:83-85): once a save has returned Ok, whatever crashes, failed *)
(* saves or overlapping inserts follow, a restart gives every key back at  *)
(* least as new as it was when that save was called, but for the keys that *)
(* Keeps concedes.                                                         *)
AcknowledgedSurvives ==
  (\E k \in Keys : durable[k] > 0) => \E i \in path : Keeps(i, durable)

(* "The final LocalCache clone to drop writes a snapshot" (cache.rs:82),   *)
(* with the race of cache.rs:374-378 set aside: when all clones are gone,  *)
(* no two drops overlapped and the save did not fail, the snapshot is the  *)
(* memory as it was left.  While a drop saves, nobody else can insert,     *)
(* save or clone, so that its snapshot is a consistent cut.                *)
FinalDropSaves ==
  /\ (process = "up" /\ PersistOnDrop /\ ~lost /\ \A t \in Tasks : phase[t] = "none") =>
        \E i \in path : \E s \in Readable(content[i]) : Restored(s) = mem
  /\ \A t \in Tasks : phase[t] = "dropSaving" =>
        /\ \A u \in Tasks \ {t} : phase[u] = "none"
        /\ \A n \in 1 .. Len(out[t]) :
              out[t][n].of \in Keys => out[t][n].value = mem[out[t][n].of]

(* persist.rs:74-95: a later snapshot takes no key back, but for the keys  *)
(* that Keeps concedes, and unless its process had taken the earlier one   *)
(* for no file at all (cache.rs:301).                                      *)
SnapshotsAdvance ==
  [][~blind =>
       \A i \in path, j \in path' : \A s \in Readable(content[i]) : Keeps(j, Restored(s))']_vars
=============================================================================
