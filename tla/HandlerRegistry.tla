-------------------------- MODULE HandlerRegistry --------------------------
(***************************************************************************)
(* The registry that routes an account update to a protocol handler        *)
(* (crates/storage/traits/src/handler/registry.rs).                        *)
(*                                                                         *)
(* A handler whose declared discriminator has the full width (8 bytes in   *)
(* the code, DiscWidth here) is stored under its program and discriminator *)
(* and needs no further test.  Every other handler goes to the program's   *)
(* fallback list, which lookup walks in registration order.                *)
(*                                                                         *)
(* Account data is a short sequence of bytes.  A handler is a record:      *)
(*   program        the owner of its accounts                              *)
(*   discriminator  the declared leading bytes; None is <<>>, which the    *)
(*                  code treats alike, since every data starts with it     *)
(*   accepts        the data its matches_account says yes to               *)
(*   wholesale      what subscribe_program_accounts answers                *)
(* A duplicate on the keyed path panics after the map has been changed; a  *)
(* panic there is the end of the process, which registers at start.        *)
(***************************************************************************)
EXTENDS Naturals, Sequences, SequencesExt, FiniteSetsExt

CONSTANTS
    Handlers,       \* the handler values that may be registered
    Programs,       \* the owners of accounts
    Accounts,       \* the account data that may be looked up
    DiscWidth,      \* the width of a keyed discriminator
    MaxRegistered,  \* bound: registrations in one run of the process
    NoHandler       \* what lookup answers when nothing matches

ASSUME DiscWidthAssumption == DiscWidth \in Nat \ {0}
ASSUME BoundAssumption == MaxRegistered \in Nat
ASSUME HandlersAssumption ==
    \A h \in Handlers : h.program \in Programs /\ h.discriminator \in Seq(Nat)
ASSUME AccountsAssumption == \A data \in Accounts : data \in Seq(Nat)

VARIABLES
    by_discriminator,  \* the keyed handlers, under <<program, discriminator>>
    fallback,          \* per program with fallback handlers, their list
    program_ids,       \* every program with a handler
    subscribable,      \* the programs to subscribe to wholesale
    registered,        \* history: the handlers registered, in order
    panicked           \* register has met a duplicate

vars == <<by_discriminator, fallback, program_ids, subscribable, registered, panicked>>

Keyed(h) == Len(h.discriminator) = DiscWidth
Key(h) == <<h.program, h.discriminator>>

Init ==
    /\ by_discriminator = << >>
    /\ fallback = << >>
    /\ program_ids = {}
    /\ subscribable = {}
    /\ registered = <<>>
    /\ panicked = FALSE

-----------------------------------------------------------------------------
(* register. *)

Subscribed(h) == IF h.wholesale THEN subscribable \cup {h.program} ELSE subscribable

\* HashMap::insert: binds k to v, over whatever was there.
Bound(f, k, v) == [x \in DOMAIN f \cup {k} |-> IF x = k THEN v ELSE f[x]]

ListOf(p) == IF p \in DOMAIN fallback THEN fallback[p] ELSE <<>>

\* Mutant: the newest fallback handler is tried first.
EnlistedFirst(h) == <<h>> \o ListOf(h.program)

Enlisted(h) == Append(ListOf(h.program), h)

RegisterKeyed(h) ==
    /\ Keyed(h)
    /\ by_discriminator' = Bound(by_discriminator, Key(h), h)
    /\ panicked' = (Key(h) \in DOMAIN by_discriminator)
    /\ UNCHANGED fallback

RegisterFallback(h) ==
    /\ ~Keyed(h)
    /\ fallback' = Bound(fallback, h.program, Enlisted(h))
    /\ UNCHANGED <<by_discriminator, panicked>>

Register(h) ==
    /\ ~panicked
    /\ Len(registered) < MaxRegistered
    /\ program_ids' = program_ids \cup {h.program}
    /\ subscribable' = Subscribed(h)
    /\ registered' = Append(registered, h)
    /\ RegisterKeyed(h) \/ RegisterFallback(h)

Next == \E h \in Handlers : Register(h)

Spec == Init /\ [][Next]_vars

-----------------------------------------------------------------------------
(* lookup. *)

FirstEight(data) == SubSeq(data, 1, DiscWidth)

HasKey(owner, data) ==
    Len(data) >= DiscWidth /\ <<owner, FirstEight(data)>> \in DOMAIN by_discriminator

\* Mutant: the declared prefix is not compared on the fallback path.
ClaimsByPredicate(h, data) == data \in h.accepts

Claims(h, data) == IsPrefix(h.discriminator, data) /\ data \in h.accepts

FirstOf(list, data) ==
    LET hits == {i \in DOMAIN list : Claims(list[i], data)}
    IN  IF hits = {} THEN NoHandler
        ELSE list[Min(hits)]

Lookup(owner, data) ==
    IF HasKey(owner, data) THEN by_discriminator[<<owner, FirstEight(data)>>]
    ELSE FirstOf(ListOf(owner), data)

-----------------------------------------------------------------------------
(* Properties. *)

\* The registrations that answer for an account: a keyed handler by its
\* discriminator alone, any other by its declared prefix and its predicate.
For(i, owner, data) ==
    registered[i].program = owner /\ IsPrefix(registered[i].discriminator, data)

KeyedClaimants(owner, data) ==
    {i \in DOMAIN registered : Keyed(registered[i]) /\ For(i, owner, data)}

ListedClaimants(owner, data) ==
    {i \in DOMAIN registered :
        ~Keyed(registered[i]) /\ For(i, owner, data) /\ data \in registered[i].accepts}

\* What register and lookup promise together, stated over the order of
\* registration alone: an account goes to the keyed handler of its program and
\* leading bytes if there is one, else to the first registered handler of its
\* program that claims it, else to none.  Data shorter than a discriminator and
\* declared prefixes of every length are included.
LookupIsFirstClaimant ==
    ~panicked => \A owner \in Programs, data \in Accounts :
        LET keyed == KeyedClaimants(owner, data)
            hits  == IF keyed # {} THEN keyed ELSE ListedClaimants(owner, data)
        IN  Lookup(owner, data) =
                IF hits = {} THEN NoHandler
                ELSE registered[Min(hits)]

\* A later registration takes an account from the handler that had it only if
\* the newcomer is keyed and the handler that had it is not: register never
\* changes who wins on one path, and only the keyed path overrides the other.
RegistrationNeverSteals ==
    [][~panicked' => \A owner \in Programs, data \in Accounts :
          LET before == Lookup(owner, data)
              after  == Lookup(owner, data)'
          IN  before \notin {NoHandler, after} => Keyed(after) /\ ~Keyed(before)]_vars
=============================================================================
