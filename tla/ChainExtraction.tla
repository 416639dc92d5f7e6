--------------------------- MODULE ChainExtraction --------------------------
(***************************************************************************)
(* extract_transaction (chain/extract) over the parsed instructions of one *)
(* transaction, the four protocol extractors it dispatches to, and pool    *)
(* discovery (chain/discovery.rs), which reads the accounts alone.         *)
(*                                                                         *)
(* A venue instruction says what moved in an event.  Newer builds emit it  *)
(* as a call of the program to itself, an instruction below their own; old *)
(* builds wrote it to the log.  The first way depends on the parents that  *)
(* parse_instructions rebuilt, the second on the lines that attach_logs    *)
(* handed out, so this module extends LogAttribution.                      *)
(*                                                                         *)
(* The data of an instruction is [op, pool, event, good]: what its         *)
(* discriminator says, the pool that its account list (or, for an event,   *)
(* the body) names, NoPool when the list is too short to say, the event's  *)
(* name, and whether the body decodes.                                     *)
(***************************************************************************)
EXTENDS LogAttribution

VARIABLES
    read,     \* extract_transaction: the instructions dispatched so far
    tape,     \* ParsedTransaction.events: [ix, kind, of, source, completed]
    reports,  \* report_extract_failure: [ix, error]
    unread,   \* undecoded::report: the instructions no decoder accepted
    edges     \* PoolGraph: the pools discovered

evars == <<read, tape, reports, unread, edges>>
vars  == <<lvars, evars>>

NoPool == 0

Data(i) == list[i].work
IsEvent(i) == Data(i).op = "event"
Program(i) == parsed[i].program

-----------------------------------------------------------------------------
(* traits.rs: child_event, optional_child_event.                           *)

\* Mutant: whatever lies below the instruction, at any depth, or beside it.
CarriersAfter(i, event) ==
    {c \in DOMAIN parsed : /\ c > i /\ Program(c) = Program(i)
                           /\ IsEvent(c) /\ Data(c).event = event}

\* The direct children that carry the event, of the same program.
Carriers(i, event) ==
    {c \in DOMAIN parsed : /\ parsed[c].parent = i /\ Program(c) = Program(i)
                           /\ IsEvent(c) /\ Data(c).event = event}

\* The entries of the instruction's own slice that hold the event.
Logged(i, event) ==
    {k \in DOMAIN Slice(i) : /\ Slice(i)[k] # Marker
                             /\ stream[Slice(i)[k]].note.tag = "data"
                             /\ stream[Slice(i)[k]].note.event = event}

Found(body, via, where) ==
    [is |-> IF body.good THEN "decoded" ELSE "undecodable",
     pool |-> body.pool, source |-> [via |-> via, at |-> where]]

Missing == [is |-> "missing", pool |-> NoPool, source |-> [via |-> "none", at |-> None]]

\* Mutant: the log is searched first, and a marked slice stops the search.
ChildEventFromLogs(i, event) ==
    CASE Marker \in ToSet(Slice(i)) \/ Slice(i) = <<>> -> Missing
      [] Logged(i, event) # {} ->
            LET k == Slice(i)[Min(Logged(i, event))] IN Found(stream[k].note, "log", k)
      [] Carriers(i, event) # {} ->
            LET c == Min(Carriers(i, event)) IN Found(Data(c), "cpi", c)
      [] OTHER -> Missing

\* The first carrier decides, then the log, then it is missing.
ChildEvent(i, event) ==
    IF Carriers(i, event) # {}
    THEN LET c == Min(Carriers(i, event)) IN Found(Data(c), "cpi", c)
    ELSE IF Logged(i, event) # {}
    THEN LET k == Slice(i)[Min(Logged(i, event))] IN Found(stream[k].note, "log", k)
    ELSE Missing

-----------------------------------------------------------------------------
(* The extractors.  Each returns a row, an error, or nothing.              *)

Nothing == [is |-> "nothing"]
Undecoded == [is |-> "undecoded"]
Refused(error) == [is |-> "refused", error |-> error]
Row(i, kind, of, source, completed) ==
    [is |-> "row",
     row |-> [ix |-> i, kind |-> kind, of |-> of, source |-> source, completed |-> completed]]

\* What an instruction becomes, from which event, whether it can do without,
\* whether the accounts and the event must agree, and whether it may be the trade
\* that fills the curve.
Recipe(kind, event, required, checked, fills) ==
    [kind |-> kind, event |-> event, required |-> required, checked |-> checked, fills |-> fills]

\* Each op stands for the instructions that are treated alike: buy for every
\* swap, deposit for deposit and withdraw, collect for the four fee collectors.
PumpfunRecipes ==
    [buy     |-> Recipe("Swap", "Trade", TRUE, TRUE, TRUE),
     create  |-> Recipe("TokenCreation", "Create", FALSE, FALSE, FALSE),
     migrate |-> Recipe("Migration", "CompleteMigration", TRUE, TRUE, FALSE),
     collect |-> Recipe("CreatorFee", "CollectFee", TRUE, FALSE, FALSE)]

PumpSwapRecipes ==
    [buy         |-> Recipe("Swap", "Buy", TRUE, TRUE, FALSE),
     create_pool |-> Recipe("Migration", "CreatePool", TRUE, FALSE, FALSE),
     collect     |-> Recipe("CreatorFee", "CollectFee", TRUE, FALSE, FALSE),
     deposit     |-> Recipe("Liquidity", "Deposit", TRUE, TRUE, FALSE)]

Recipes == [pumpfun |-> PumpfunRecipes, pumpswap |-> PumpSwapRecipes]

\* from_account_keys refuses a list too short to name its accounts; pumpfun's
\* collectors are built from the event alone and read none.
LayoutFails(i) == Data(i).pool = NoPool /\ ~(Program(i) = "pumpfun" /\ Data(i).op = "collect")

\* corroborate: the event and the account list name different pools (or mints).
Disagree(i, event) == event.pool # Data(i).pool

\* try_extract's refusals, in the order the code comes to them.
Refusals(i) ==
    LET recipe   == Recipes[Program(i)][Data(i).op]
        event    == ChildEvent(i, recipe.event)
        complete == ChildEvent(i, "Complete")
    IN  <<[error |-> "event_missing",     holds |-> recipe.required /\ event.is = "missing"],
          [error |-> "event_undecodable", holds |-> event.is = "undecodable"],
          [error |-> "account_layout",    holds |-> LayoutFails(i)],
          [error |-> "corroboration",     holds |-> recipe.checked /\ Disagree(i, event)],
          [error |-> "event_undecodable", holds |-> recipe.fills /\ complete.is = "undecodable"]>>

\* The first that holds, if any does, is what try_extract returns.
Holding(i) == {n \in DOMAIN Refusals(i) : Refusals(i)[n].holds}
FirstError(i) == Refusals(i)[Min(Holding(i))].error

RowFrom(i, event, completed) ==
    Row(i, Recipes[Program(i)][Data(i).op].kind, i, event.source, completed)

\* Mutant: an event not found is swallowed like an event not emitted.
ExtractPumpSwallowing(i) ==
    LET recipe == Recipes[Program(i)][Data(i).op]
    IN  CASE IsEvent(i) -> Nothing
          [] ~IsEvent(i) /\ Data(i).op \notin DOMAIN Recipes[Program(i)] -> Undecoded
          [] OTHER ->
             IF Holding(i) # {}
             THEN IF FirstError(i) = "event_missing" THEN Nothing ELSE Refused(FirstError(i))
             ELSE RowFrom(i, ChildEvent(i, recipe.event),
                          recipe.fills /\ ChildEvent(i, "Complete").is = "decoded")

\* Mutant: a completion anywhere in the transaction marks the trade.
ExtractPumpAnyCompletion(i) ==
    LET recipe == Recipes[Program(i)][Data(i).op]
    IN  CASE IsEvent(i) -> Nothing
          [] ~IsEvent(i) /\ Data(i).op \notin DOMAIN Recipes[Program(i)] -> Undecoded
          [] OTHER ->
             IF Holding(i) # {} THEN Refused(FirstError(i))
             ELSE RowFrom(i, ChildEvent(i, recipe.event),
                          recipe.fills /\ \E c \in DOMAIN parsed :
                              IsEvent(c) /\ Data(c).event = "Complete")

\* PumpfunExtractor and PumpSwapExtractor: try_extract.
ExtractPump(i) ==
    LET recipe == Recipes[Program(i)][Data(i).op]
    IN  CASE IsEvent(i) -> Nothing
          [] ~IsEvent(i) /\ Data(i).op \notin DOMAIN Recipes[Program(i)] -> Undecoded
          [] OTHER ->
             IF Holding(i) # {} THEN Refused(FirstError(i))
             ELSE RowFrom(i, ChildEvent(i, recipe.event),
                          recipe.fills /\ ChildEvent(i, "Complete").is = "decoded")

\* MeteoraDlmmExtractor: find_event_body takes the first carrier; a body that
\* does not decode, or names another pool, is dropped without a report.
ExtractDlmm(i) ==
    LET carriers == Carriers(i, "Swap")
        body     == Data(Min(carriers))
    IN  CASE IsEvent(i) -> Nothing
          [] ~IsEvent(i) /\ (Data(i).op = "unknown" \/ Data(i).pool = NoPool) -> Undecoded
          [] OTHER ->
             IF Data(i).op = "swap" /\ carriers # {} /\ body.good /\ body.pool = Data(i).pool
             THEN Row(i, "Swap", i, [via |-> "cpi", at |-> Min(carriers)], FALSE)
             ELSE Nothing

\* resolve_outer_swap: the nearest instruction above that is the program's own
\* and no event.
OuterSwap(i) ==
    LET outer[j \in 0 .. Len(parsed)] ==
            IF j = None THEN None
            ELSE IF Program(j) = "damm" /\ ~IsEvent(j) THEN j ELSE outer[parsed[j].parent]
    IN  outer[parsed[i].parent]

\* MeteoraDammV2Extractor: the row is made on the event's own instruction.
ExtractDamm(i) ==
    IF /\ IsEvent(i) /\ Data(i).event = "EvtSwap2" /\ Data(i).good
       /\ OuterSwap(i) # None
       /\ Data(OuterSwap(i)).pool # NoPool /\ Data(OuterSwap(i)).pool = Data(i).pool
    THEN Row(i, "Swap", OuterSwap(i), [via |-> "cpi", at |-> i], FALSE)
    ELSE Nothing

\* ExtractorRegistry::extract: dispatch by program.
Extract(i) ==
    CASE Program(i) \in {"pumpfun", "pumpswap"} -> ExtractPump(i)
      [] Program(i) = "dlmm" -> ExtractDlmm(i)
      [] Program(i) = "damm" -> ExtractDamm(i)
      [] OTHER -> Nothing

-----------------------------------------------------------------------------
(* discovery.rs, and the steps.                                            *)

\* discover: only the swaps of the two pump programs are catalogued; a list
\* that is too short names no pool.
Discover(i) ==
    IF Program(i) \in {"pumpfun", "pumpswap"} /\ Data(i).op = "buy" /\ Data(i).pool # NoPool
    THEN {Data(i).pool} ELSE {}

EInit == LInit /\ read = 0 /\ tape = <<>> /\ reports = <<>> /\ unread = {} /\ edges = {}

\* Pool discovery looks at every instruction, the extraction only at those of a
\* transaction that succeeded.
ReadInstruction ==
    /\ phase = "attached" /\ read < Len(parsed)
    /\ read' = read + 1
    /\ edges' = edges \cup Discover(read + 1)
    /\ \E result \in {IF run.ok THEN Extract(read + 1) ELSE Nothing} :
          /\ tape' = IF result.is = "row" THEN Append(tape, result.row) ELSE tape
          /\ reports' = IF result.is = "refused"
                        THEN Append(reports, [ix |-> read + 1, error |-> result.error]) ELSE reports
          /\ unread' = IF result.is = "undecoded" THEN unread \cup {read + 1} ELSE unread
    /\ UNCHANGED lvars

ENext ==
    \/ LNext /\ UNCHANGED evars
    \/ ReadInstruction

ESpec == EInit /\ [][ENext]_vars

-----------------------------------------------------------------------------
(* Properties.                                                             *)

Rows == ToSet(tape)
Done == phase = "attached" /\ read = Len(parsed)

\* Who emitted the event a row was made from.
Emitter(source) ==
    IF source.via = "cpi" THEN list[source.at].caller ELSE stream[source.at].by

\* child_event, find_event_body, resolve_outer_swap: whatever became of the log
\* stream, a row's amounts are those of an event that the instruction it is
\* attributed to emitted itself, and no event is recorded twice.
EventsAreOwn ==
    /\ \A r \in Rows : r.source.via # "none" => Emitter(r.source) = r.of
    /\ \A m, n \in DOMAIN tape :
           m # n /\ tape[m].source.via # "none" => tape[m].source # tape[n].source

\* An instruction whose event came by a call, and that emitted, by a call or in a
\* line, none that does not decode or does not agree with the accounts.
SoundSwap(i) ==
    /\ Program(i) \in {"pumpfun", "pumpswap"} /\ Data(i).op = "buy" /\ Data(i).pool # NoPool
    /\ \A c \in DOMAIN list : list[c].caller = i /\ IsEvent(c) =>
           Data(c).good /\ Data(c).pool = Data(i).pool
    /\ \A k \in DOMAIN stream : stream[k].by = i /\ stream[k].note.tag = "data" =>
           stream[k].note.good
    /\ \E c \in DOMAIN list : list[c].caller = i /\ IsEvent(c)
           /\ Data(c).event = Recipes[Program(i)].buy.event

\* child_event, discover: a swap whose event was emitted by a call reaches the
\* tape however much of the log was cut, suppressed or out of step, and its pool
\* is discovered even when the transaction failed and extraction looks away.
CallsSurviveTheStream ==
    Done /\ run.heights =>
        \A i \in DOMAIN parsed : SoundSwap(i) =>
            /\ Data(i).pool \in edges
            /\ run.ok => \E r \in Rows : r.ix = i

\* try_extract's promise, "reported, never swallowed": each instruction of the
\* pump programs that is no event ends up in exactly one of the three places.
NothingIsSwallowed ==
    Done /\ run.ok =>
        \A i \in DOMAIN parsed : Program(i) \in {"pumpfun", "pumpswap"} /\ ~IsEvent(i) =>
            Cardinality({r \in Rows : r.of = i}) + Cardinality({f \in ToSet(reports) : f.ix = i})
              + (IF i \in unread THEN 1 ELSE 0) = 1

\* The completions that an instruction emitted, by a call or in a line that
\* attach_logs gave to it.
Completions(i) ==
    {c \in DOMAIN list : run.heights /\ IsEvent(c) /\ Data(c).event = "Complete" /\ list[c].caller = i}
    \cup {k \in ToSet(Slice(i)) \ {Marker} :
             stream[k].note.tag = "data" /\ stream[k].note.event = "Complete"}

\* swap_via: a trade is said to have filled the curve exactly when it emitted
\* the completion itself, as far as the stream still shows it.
CompletionIsOwn ==
    \A r \in Rows : Program(r.ix) = "pumpfun" /\ r.kind = "Swap" =>
        (r.completed <=> Completions(r.ix) # {})
=============================================================================
