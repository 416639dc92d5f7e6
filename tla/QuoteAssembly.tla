--------------------------- MODULE QuoteAssembly ---------------------------
(***************************************************************************)
(* From the stream to a quote: account updates land in the cache while a   *)
(* quoter assembles a bundle of accounts as of a reference slot            *)
(* (QuoteState::assemble of src/crates/solana/protocols/src/quote.rs and   *)
(* the code derive(QuoteState) generates in                                *)
(* src/crates/solana/protocols-macros/src/quote_state.rs).                 *)
(*                                                                         *)
(* The chain is external: a transaction writes several accounts at once in *)
(* the current slot, and the state of an account is the number of writes   *)
(* to it.  The geyser stream carries one update per written account, each  *)
(* account on its own; nothing orders the updates of different accounts.   *)
(* Handlers put keyed accounts into versioned maps; the fee config is a    *)
(* singleton, written over by whatever arrives, from the stream or from    *)
(* the resolver's RPC fetch.  A quoter takes no lock across its reads.     *)
(***************************************************************************)
EXTENDS VersionedState, SequencesExt

CONSTANTS
  Fields,        \* the keyed accounts of a bundle, in the order assemble reads them
  Config,        \* the singleton's account
  Transactions,  \* the sets of accounts one transaction writes
  MaxWrites,     \* bound: MaxWrites[a], how often a is written
  InOrder        \* whether the stream keeps the order of one account's updates

Keyed == Range(Fields)

Accounts == Keyed \cup {Config}

Never == 0   \* the state of an account before its first write

LastSlot == CHOOSE s \in Slots : \A r \in Slots : r <= s

ASSUME QuoteAssemblyAssumption ==
  /\ Fields \in Seq(Keyed)
  /\ Config \notin Keyed
  /\ Transactions \subseteq SUBSET Accounts
  /\ MaxWrites \in [Accounts -> Nat]
  /\ \A a \in Accounts : 1 .. MaxWrites[a] \subseteq States
  /\ InOrder \in BOOLEAN
  /\ 0 \notin Slots

VARIABLES
  now,        \* the chain's slot
  ledger,     \* ledger[s][a]: the state of a when slot s ended (or now, in s)
  stream,     \* stream[a]: updates of a on their way
  rpc,        \* answers to fetches of the config on their way
  keyed,      \* partial function: the versioned entries of the keyed accounts
  arrived,    \* history: arrived[a], the slots of the updates of a applied
  singleton,  \* the config held, {} if none (its slot is history: not stored)
  phase,      \* where the quoter is
  ref,        \* the slot it assembles at
  bundle,     \* what it has read so far
  settled     \* history: when it began, slot ref was over and delivered

chainVars == <<now, ledger, stream, rpc>>
cacheVars == <<keyed, arrived, singleton>>
quoteVars == <<phase, ref, bundle, settled>>

vars == <<chainVars, cacheVars, quoteVars>>

Phases == {"idle", "assembling", "assembled", "Incomplete"}
-----------------------------------------------------------------------------
(* The chain and its node (external). *)

Write(tx) ==
  /\ \A a \in tx : ledger[now][a] < MaxWrites[a]
  /\ ledger' = [ledger EXCEPT ![now] = [a \in Accounts |-> IF a \in tx THEN @[a] + 1 ELSE @[a]]]
  /\ stream' = [a \in Accounts |->
                  IF a \in tx
                  THEN Append(stream[a], [state |-> ledger[now][a] + 1, slot |-> now])
                  ELSE stream[a]]
  /\ UNCHANGED <<now, rpc, cacheVars, quoteVars>>

Tick ==
  /\ now # LastSlot
  /\ now' \in {s \in Slots : s > now}
  /\ ledger' = [s \in Slots |-> IF s > now THEN ledger[now] ELSE ledger[s]]
  /\ UNCHANGED <<stream, rpc, cacheVars, quoteVars>>

(* The node reads the config for a fetch; the answer takes its time. *)
RpcReads ==
  /\ rpc = {}
  /\ ledger[now][Config] # Never
  /\ rpc' = {[state |-> ledger[now][Config], slot |-> now]}
  /\ UNCHANGED <<now, ledger, stream, cacheVars, quoteVars>>
-----------------------------------------------------------------------------
(* The handlers. *)

Arrivals(a) == {i \in DOMAIN stream[a] : InOrder => i = 1}

(* A keyed account's handler: cache.insert(pubkey, state, slot). *)
Store(a, obs) ==
  LET entry == IF a \in DOMAIN keyed THEN AfterInsert(keyed[a], obs)
                                     ELSE NewVersionedState(obs)
  IN  keyed' = [x \in DOMAIN keyed \cup {a} |-> IF x = a THEN entry ELSE keyed[x]]

ApplyKeyed(a) ==
  \E i \in Arrivals(a) :
    /\ Store(a, stream[a][i])
    /\ stream' = [stream EXCEPT ![a] = RemoveAt(@, i)]
    /\ arrived' = [arrived EXCEPT ![a] = @ \cup {stream[a][i].slot}]
    /\ UNCHANGED <<now, ledger, rpc, singleton, quoteVars>>

(* The config's handler: cache.set(state), whatever the slot. *)
SetSingleton(obs) == singleton' = {obs}

ApplyConfig ==
  \E i \in Arrivals(Config) :
    /\ SetSingleton(stream[Config][i])
    /\ stream' = [stream EXCEPT ![Config] = RemoveAt(@, i)]
    /\ UNCHANGED <<now, ledger, rpc, keyed, arrived, quoteVars>>

ApplyFetched ==
  \E obs \in rpc :
    /\ SetSingleton(obs)
    /\ rpc' = {}
    /\ UNCHANGED <<now, ledger, stream, keyed, arrived, quoteVars>>
-----------------------------------------------------------------------------
(* The quoter. *)

Settled(slot) ==
  /\ slot < now
  /\ \A a \in Keyed : \A i \in DOMAIN stream[a] : stream[a][i].slot > slot

Begin(slot) ==
  /\ phase # "assembling"
  /\ slot <= now
  /\ phase' = "assembling"
  /\ ref' = slot
  /\ bundle' = << >>
  /\ settled' = Settled(slot)
  /\ UNCHANGED <<chainVars, cacheVars>>

(* `?': the first field that is not there ends the assembly. *)
Take(found) ==
  IF found = {}
  THEN phase' = "Incomplete" /\ UNCHANGED bundle
  ELSE \E obs \in found : bundle' = Append(bundle, obs)

NextField == Fields[Len(bundle) + 1]

(* Mutant of CachedAt: get for get_at_slot. *)
CachedNow(a, slot) == IF a \in DOMAIN keyed THEN {keyed[a].current} ELSE {}

CachedAt(a, slot) == IF a \in DOMAIN keyed THEN Lookup(keyed[a], slot) ELSE {}

ReadKeyed ==
  /\ phase = "assembling"
  /\ Len(bundle) < Len(Fields)
  /\ LET found == CachedAt(NextField, ref)
     IN  Take(found) /\ (found # {} => UNCHANGED phase)
  /\ UNCHANGED <<ref, settled, chainVars, cacheVars>>

(* The singleton is read last, at no slot; with it the bundle is complete. *)
ReadSingleton ==
  /\ phase = "assembling"
  /\ Len(bundle) = Len(Fields)
  /\ Take(singleton) /\ (singleton # {} => phase' = "assembled")
  /\ UNCHANGED <<ref, settled, chainVars, cacheVars>>
-----------------------------------------------------------------------------
Init ==
  /\ now \in {s \in Slots : \A r \in Slots : s <= r}
  /\ ledger = [s \in Slots |-> [a \in Accounts |-> Never]]
  /\ stream = [a \in Accounts |-> << >>]
  /\ rpc = {}
  /\ keyed = [a \in {} |-> NewVersionedState(a)]
  /\ arrived = [a \in Keyed |-> {}]
  /\ singleton = {}
  /\ phase = "idle"
  /\ ref = now
  /\ bundle = << >>
  /\ settled = FALSE

Chain == (\E tx \in Transactions : Write(tx)) \/ Tick \/ RpcReads

Handlers == (\E a \in Keyed : ApplyKeyed(a)) \/ ApplyConfig \/ ApplyFetched

Quoter == (\E slot \in Slots : Begin(slot)) \/ ReadKeyed \/ ReadSingleton

Next == Chain \/ Handlers \/ Quoter

Spec == Init /\ [][Next]_vars
-----------------------------------------------------------------------------
(* "a bounded history per key lets readers reconstruct state as of a       *)
(* chosen reference slot (needed for cross-account consistency when        *)
(* different accounts update at different rates)" (versioned_map.rs:3-7):  *)
(* a bundle assembled at a slot that was over and delivered when assembly  *)
(* began consists of exactly the states the accounts had at the end of     *)
(* that slot, although the reads take no lock and newer updates land       *)
(* between any two of them.                                                *)
BundleIsAsOfSlot ==
  phase = "assembled" /\ settled =>
    \A i \in DOMAIN Fields : bundle[i].state = ledger[ref][Fields[i]]

(* A refusal is honest (quote.rs:49-51, "an account it reads was absent    *)
(* from the cache at the requested slot"): the account whose read failed   *)
(* never arrived at or before the slot, or more newer slots of it arrived  *)
(* than the history is deep.                                               *)
Superseding(a) == {s \in arrived[a] : s > ref}

RefusalIsHonest ==
  [][phase' = "Incomplete" /\ phase # "Incomplete" /\ Len(bundle) < Len(Fields) =>
       \/ arrived[NextField] = Superseding(NextField)
       \/ Cardinality(Superseding(NextField)) > Depth]_vars
=============================================================================
