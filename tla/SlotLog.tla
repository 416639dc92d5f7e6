------------------------------ MODULE SlotLog ------------------------------
(***************************************************************************)
(* What a slot-versioned keyspace promises, without saying how it is       *)
(* stored: the traits CacheGet / CacheInsert of                            *)
(* src/crates/storage/traits/src/access.rs.                                *)
(*                                                                         *)
(* For every key there is a set of observations, at most one per slot, of  *)
(* which the newest Depth + 1 are retained.  A write older than the newest *)
(* observation is refused, a write at its slot replaces it, a newer one is *)
(* added.  A read at a reference slot answers with the newest retained     *)
(* observation that is not after it.  Clearing the keyspace is not atomic: *)
(* each key is emptied at some moment between the call and its return.     *)
(***************************************************************************)
EXTENDS Naturals, FiniteSets

CONSTANTS Keys,    \* the keys of the keyspace (account addresses)
          Clearers,  \* callers that may be clearing the keyspace
          States,  \* the decoded states an observation can carry
          Slots,   \* the slots at which observations are made
          Depth    \* how many superseded observations a key retains

VARIABLES log,     \* log[k]: the retained observations of k, {} if k is absent
          reply,   \* what the last operation returned
          doomed   \* doomed[c]: the keys that c's clearing has yet to empty

vars == <<log, reply, doomed>>

Observation == [state : States, slot : Slots]

(* An Option<T> is a set of at most one element. *)
None == {}

NoOutcome == "-"

Outcomes == {"Inserted", "UpdatedSameSlot", "Advanced", "Stale"}

Replies == [outcome : Outcomes \cup {NoOutcome}, found : SUBSET Observation]

Returned(found) == [outcome |-> NoOutcome, found |-> found]

Reported(outcome) == [outcome |-> outcome, found |-> None]
-----------------------------------------------------------------------------
NewerThan(S, slot) == {o \in S : o.slot > slot}

Newest(S) == {o \in S : NewerThan(S, o.slot) = {}}

AtOrBefore(S, ref) == Newest({o \in S : o.slot <= ref})

Retained(S) == {o \in S : Cardinality(NewerThan(S, o.slot)) <= Depth}

OutcomeOf(S, slot) ==
  CASE S = {}                    -> "Inserted"
    [] NewerThan(S, slot) # {}   -> "Stale"
    [] NewerThan(S, slot) = {} /\ \E o \in S : o.slot = slot -> "UpdatedSameSlot"
    [] OTHER                     -> "Advanced"

Written(S, obs) ==
  IF NewerThan(S, obs.slot) # {}
  THEN S
  ELSE Retained({o \in S : o.slot # obs.slot} \cup {obs})
-----------------------------------------------------------------------------
Init ==
  /\ log = [k \in Keys |-> {}]
  /\ reply = Returned(None)
  /\ doomed = [c \in {} |-> {}]

Insert(k, obs) ==
  /\ log' = [log EXCEPT ![k] = Written(@, obs)]
  /\ reply' = Reported(OutcomeOf(log[k], obs.slot))
  /\ UNCHANGED doomed

Read(k) ==
  /\ reply' = Returned(Newest(log[k]))
  /\ UNCHANGED <<log, doomed>>

ReadAtSlot(k, ref) ==
  /\ reply' = Returned(AtOrBefore(log[k], ref))
  /\ UNCHANGED <<log, doomed>>

Remove(k) ==
  /\ reply' = Returned(Newest(log[k]))
  /\ log' = [log EXCEPT ![k] = {}]
  /\ UNCHANGED doomed

BeginClear(c) ==
  /\ c \notin DOMAIN doomed
  /\ doomed' = [x \in DOMAIN doomed \cup {c} |-> IF x = c THEN Keys ELSE doomed[x]]
  /\ UNCHANGED <<log, reply>>

Empty(c, S) ==
  /\ log' = [k \in Keys |-> IF k \in S THEN {} ELSE log[k]]
  /\ doomed' = [doomed EXCEPT ![c] = @ \ S]
  /\ UNCHANGED reply

EndClear(c) ==
  /\ doomed[c] = {}
  /\ doomed' = [x \in DOMAIN doomed \ {c} |-> doomed[x]]
  /\ reply' = Returned(None)
  /\ UNCHANGED log

Clear ==
  \/ \E c \in Clearers : BeginClear(c)
  \/ \E c \in DOMAIN doomed :
       \/ \E S \in (SUBSET doomed[c]) \ {{}} : Empty(c, S)
       \/ EndClear(c)

Next ==
  \/ \E k \in Keys, obs \in Observation : Insert(k, obs)
  \/ \E k \in Keys : Read(k) \/ Remove(k)
  \/ \E k \in Keys, ref \in Slots : ReadAtSlot(k, ref)
  \/ Clear

Spec == Init /\ [][Next]_vars
=============================================================================
