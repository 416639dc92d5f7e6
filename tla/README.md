# A TLA+ model of solana-protocols

The repository decodes Solana DEX accounts and transactions, mirrors account
state in memory and prices swaps from the mirror.  Most of it is straight-line
decoding of external byte layouts.  What is hard to get right, and hard to test,
is the path an account update takes: many tasks dispatch updates into a shared,
slot-versioned cache, a resolver fetches what a handler found missing, quoters
read bundles of accounts without a lock, and the cache is saved and restored
around crashes.  This directory models that path first; of the swap math the
Pumpfun bonding curve, the constant-product pools of five venues and the Meteora
DLMM quoter, whose loops walk bins and bitmaps; and of the decoding the one part that depends on order and on what is
missing, the way from a transaction's log stream to the rows extracted from it.

## Inventory

| Part | State | Operations | Hard behaviour |
| --- | --- | --- | --- |
| `VersionedStateMap` (storage/cache/versioned_map.rs) | per key: current observation, bounded history | `insert`, `get`, `get_with_slot`, `get_at_slot`, `remove`, `clear` | arrival order, eviction, reads of the past, a clear that is not atomic |
| storage traits (storage/traits/access.rs) | - | `CacheGet`, `CacheInsert`, `CacheSingleton`, `CacheSlot` | the contract the cache has to keep |
| `HandlerRegistry` (storage/traits/handler/registry.rs) | handlers by program and discriminator, fallbacks | `register`, `lookup`, `dispatch` | shadowing, duplicate registration |
| `Ingest`, `DepResolver` (storage/ingest/ingest.rs) | bounded queue, drop counter, `seen` | `apply`, `run`, `drain`, `resolve` | interleaving, full queue, failed and cancelled fetches, termination |
| account fetcher (storage/ingest/rpc.rs) | - | `fetch` | answers late, fails, misses |
| `LocalCache` (storage/cache/cache.rs, persist.rs) | maps, singletons, slot clock, snapshot file | clones, `save`, drop, `load_or_new` | last handle, maps that grow while they are written, shared temporary file, crashes, i/o errors |
| handlers (protocols/*/handler.rs, token_handler.rs) | - | `apply` of one account kind | slot ignored by singletons |
| quote assembly (quote.rs, protocols-macros/quote_state.rs) | - | `assemble`, `dependent_accounts` | reads that are not atomic, ageing of history |
| swap math (protocols/pumpfun, pumpswap, meteora_dlmm, raydium_*, meteora_dbc) | - | quotes in and out, fee tiers, bin walk | rounding, overflow, loops |
| instruction and log parsing (parsing/instruction.rs, log.rs) | stack of parents, open frames, cursor over the instructions | `parse_instructions`, `attach_logs`, `audit_log_slice` | log streams cut, suppressed, forged, or without the invokes of some programs |
| chain extraction (chain/*) | rows, reports, undecoded instructions, swap graph | `try_extract` of four protocols, `discover` | two places to find an event, each of which may lack it; refusals |
| classification (parsing/registry.rs) | - | names of instructions and accounts | none over time |
| layouts, builders, tables (the rest) | - | encode, decode, look up | none over time |

Interaction: a stream task calls `Ingest::apply`, which calls
`HandlerRegistry::dispatch`, which calls a handler, which inserts into a
`LocalCache` map (or sets a singleton) and returns dependencies; `apply` offers
the infrequent ones to the resolver's queue; the resolver fetches them and calls
`apply` itself.  A quoter calls `QuoteState::assemble`, which reads the maps at a
slot and the singletons as they are, and prices a swap from the bundle.  All of
them hold clones of one `LocalCache`; the last to go writes the snapshot the next
start loads.  Apart from that, transactions arrive whole: `parse_instructions`
rebuilds who called whom, `attach_logs` hands out the log lines,
`extract_transaction` calls the extractor of each instruction's program, and
`discover` adds the pools it sees to the graph.

What makes each part correct: the map keeps the newest observations of a key in
order and answers about a slot with the nearest one, and its past is stable;
ingestion never waits, fetches an account once, and loses nothing silently; a
snapshot file can always be loaded, and an acknowledged save survives but for what
grew beside it; a bundle
is the state of its accounts at one slot, and a refusal is honest; an account
reaches the handler registration order promises; a quote never rounds in
favour of the trader, and the two directions of a quoter agree; a log line is
given to the call that wrote it or to none; a row carries the amounts of the
instruction it is attributed to, and what cannot be extracted is reported.

## Modules

| Module | Models | Correspondence |
| --- | --- | --- |
| `SlotLog` | the contract of the storage traits | `log[k]` is the set of retained observations of a key; a write keeps the newest `Depth + 1`; a clearing empties each key at some moment of the call |
| `VersionedState` | one occupied entry | pure operators: `AfterInsert` is the occupied arm of `insert`, `Lookup` is the walk of `get_at_slot` |
| `VersionedMap` | `VersionedStateMap` | one action per operation (each runs under one DashMap shard lock), but three for `clear`, which takes the lock of one shard after the other: `doomed` is what each running clear has yet to empty, and a shard is any part of that; `inner` is the DashMap, `reply` what the last call returned, `delivered` a history variable |
| `Ingest` | `Ingest` and `DepResolver` | `targets[t]` is the rest of the iterator `apply` is looping over, `queue` the channel, `seen` and `depsDropped` the fields, `mode` and `fetching` where the resolver's future stands |
| `LocalCache` | clones, saving, restart | one step per file operation and per shard visited: `CountShard` is a shard's part of `DashMap::len`, `WriteCount` the number serde writes before the entries, `WriteShard` a shard's turn of the iterator (each key has a shard of its own), `WriteDepth` the end of the stream; `Readable` and `Restored` are what `read_payload` makes of a file; files are inodes bound to names, so two writers of one name do to each other what they do on disk |
| `QuoteAssembly` | updates against a quoter | the chain, stream and node are external; handlers apply one update per step (with the operators of `VersionedState`), the quoter reads one field per step |
| `HandlerRegistry` | `HandlerRegistry` | `by_discriminator`, `fallback`, `program_ids` and `subscribable` are the fields; `Register` is one call of `register`, both paths; `Lookup` is `lookup`; `registered` is a history variable |
| `PumpfunCurve` | Pumpfun quotes and fee tiers, and a curve traded by them | `CalculateBuy` and its three siblings are the functions of math.rs, `CalculateFeeTier` and `MarketCap` those of fee_config.rs, `Quote` the `SwapMath` of an assembled bundle; the trading program is external and moves the curve to the reserves the quote computed |
| `PoolQuotes` | the quotes of PumpSwap, Raydium V4, CPMM and Launchpad and Meteora DBC, and a pool traded by them | extends `PumpfunCurve`, whose fee tier lookup PumpSwap shares; one operator per `calculate_*_swap`, `PoolSwap` the `SwapMath` of the pool's venue; `owed` is the sum of a CPMM pool's fee fields; the trading program is external, as for the curve |
| `DlmmQuoter` | Meteora DLMM `quote_exact_in`, `quote_exact_out` | `FindArray` is a turn of the outer loop, `CrossBin` of the inner one, `walk` their local variables; `ArraysForSwap` is the bitmap search over the pool's word and the extension; `Replay` is a caller who puts a quoted input through the other quoter |
| `LogAttribution` | a transaction in the runtime (external), `parse_instructions`, `attach_logs`, `audit_log_slice` | `ParseInstruction` is one turn of the parser's loop and `stack` its stack; `AttachLine` one turn of the loop over the lines, `frames` and `cursor` its variables, `Exit` the counter it leaves in; `calls`, `lost` and the ghost fields of a line record what really happened |
| `ChainExtraction` | `extract_transaction`, four extractors, `discover` | extends `LogAttribution`; `ReadInstruction` is one turn of the loop over instructions, `ChildEvent` the search for an event, `Refusals` the errors of `try_extract` in their order |
| `VersionedMapProofs`, `IngestProofs`, `LocalCacheProofs`, `QuoteAssemblyProofs`, `MarketProofs`, `DlmmQuoterProofs`, `TransactionProofs`, `HandlerRegistryProofs` | proofs | see below |

`MC*` modules give the constants values; each `.cfg` is one run.  Operators
whose comment begins with "Mutant" are wrong variants of the definition that
follows: the mutants of PROJECT.json put them in its place to show that the
property notices.

## Runs

All bounds are constants of the runs.

- `VersionedMap_all`: slots 1 to 4, two states, history of two, two keys, two threads
  that clear.  Four slots and depth two are the least at which an entry can be full, skip
  a slot and evict; the second key is observed at slot 1 only (`CONSTRAINT`), which is
  enough for insert, remove and a clear to act on one key between the two shards that
  another clear empties.  The last reply is left out of the fingerprint (`VIEW`): no
  guard, invariant or next value reads it, and TLC checks the replies on every step it
  takes, new state or not.  Latest observation current, reads exact, past stable, and
  the map implements `SlotLog` through every operation, replies included.
- `Ingest_safety`: two stream tasks, three accounts whose dependencies form a
  cycle, a queue of two (so that it fills), every fetch outcome, the resolver
  dropped or its drain cancelled anywhere.  The drop counter is counted to 2,
  successful fetches to 2.  Only the stream tasks are fair in the specification:
  `apply` returns even if the resolver never moves.  The two properties about the
  resolver (a failed fetch can be retried, a drain returns) take its fairness as
  their antecedent, `ResolverFairness`.
- `LocalCache_serial`: two tasks, two keys, versions to 2, two inodes (the snapshot and
  the temporary file), crashes and i/o errors anywhere.  Two keys are the least at which
  one is in the map and counted when the other is added, and the second is written
  first; two versions, for a restart to tell an older entry from a missing one.  Callers do
  not overlap two `save` calls; drops overlap freely.
- `QuoteAssembly_ordered`: the PumpSwap bundle (pool, two vaults written by one
  transaction, fee config), three slots, depth 1, per-account order kept.
- `HandlerRegistry_routing`: eight handlers (two with one key, one of another
  program, discriminators of one and three bytes, none; predicates by size), four
  registrations, account data of up to three bytes where a key has two, so that
  data shorter than, as long as and longer than a key and a prefix all occur.
- `Markets_trading`: one market at a time (`MCMarkets`: they share only the FeeConfig).
  A curve with reserves of 10 against 25, or a pool of each venue with 14 against 11
  and traders who hold 7 and 5, at trade fee rates of 0 and 30 in a hundred; amounts
  to 22; schedules of none, one and three tiers (whose thresholds both the market
  cap of the curve and the quote reserve of the pool cross).  Small reserves make
  rounding as large as it can be relative to the amounts; the widths are scaled to
  2^15 and 2^30, so that 22 times 10000 still overflows the narrow one and TLC's
  integers hold the wide one.
- `DlmmQuoter_walk`: pools of twelve bins in six arrays of two, the active bin on
  either side of zero, of an array's border and of the seam between the bitmaps,
  with and without gaps, with parts of the snapshot missing or a volatility that overflows, at three clocks (the
  reference kept, decayed, dropped); amounts to 24, enough to empty the pool and to
  run out of it.  The pool's word flags two arrays and the extension four pages
  on either side, so that a search hops between them; the walk never comes to the
  extension's last index, which bins of this range do not reach.
- `Transaction_pipeline`: every transaction of three instructions that each of
  three casts can produce (each pump program beside a precompile that logs nothing
  and calling itself with its event; a router above the two Meteora programs;
  nested to a depth of three), with two lines of their own, failing, cut,
  suppressed or with a forged cut anywhere, with and without reported heights.
  Three instructions are the least at which an event can lie below a venue below a
  router, and at which a precompile can stand between two calls; legacy events in
  the log occur with `pumpfun` only, a logged completion that does not decode among
  them, and `create`, `migrate` and `collect` of `pumpfun` not at all (they go
  through the same recipe as the others).

Four runs end in a violation; each is a disagreement between a comment or the
README of a crate and the code:

- `Ingest_exit`: `run` never returns, because the resolver owns a sender of its
  own channel (ingest.rs:143, 158).  A consequence: the clone of the cache inside
  `Ingest` is never dropped, so nothing is persisted on drop.
- `LocalCache_overlap`: two overlapping `save` calls can leave a snapshot that
  does not load (persist.rs:13).  Three inodes: one writer may still hold the file
  that another has renamed and a third has replaced.
- `PumpfunCurve_overflow`: a purchase of one lamport, whose two fees are rounded
  up to a lamport each, underflows at math.rs:110 although the arithmetic is "in
  u128 to prevent overflow".  The release profile has no overflow checks: the
  quote wraps and promises more than the reserve.  With checks it panics; the
  other run takes that build.
- `DlmmQuoter_gap`: where an array without liquidity lies between the active bin
  and the next that has some, the walk finds the array, does not move its active
  bin there, leaves the array at once and finds it again: the quote never returns,
  on the word of quote.rs:3-5 that it walks "until the user-supplied amount is
  satisfied or the requested output is delivered".  `QuoteWithoutGapEnds` says that
  this is the only way not to return.

### Divergences without a run of their own

A snapshot loses keys when its map grows under the save (persist.rs:88, versioned_map.rs:52).
Serializing the DashMap writes its length and then the entries that are there when the
iterator comes by.  A key added in between, to a shard already counted and not yet
visited, makes one entry more than the count: say `k1` is in the map, a `save` counts one
entry, `k2` is inserted, its shard is written first and that of `k1` second, and `save`
returns Ok.  `read_payload` then takes one entry, `k2`, and the first eight bytes of the
next, a piece of the key `k1`, for the depth of the map; what is left in the stream is not
looked at.  So the file loads, `k1`, which was there before the call, is gone, and
the history depth of the restored map is arbitrary, whereas cache.rs:83-85 sends
"callers that want guaranteed persistence" to `save`.  No concurrent second save is
needed.  A count that is too high, which would make the file unreadable, cannot happen:
nothing removes a key of the one map that is persisted.  `SnapshotIsComplete`,
`AcknowledgedSurvives` and `SnapshotsAdvance` concede just this: a snapshot may fail to
give back as many keys as were added while it was written (`grown`), those only, and never
an older version.  On a drop nobody can insert any more, and `FinalDropSaves` concedes nothing.

`load_or_new` asks `p.exists()` (cache.rs:301), which is false also where the stat fails,
although its comment promises that any error but a missing file is returned.  The process then starts
empty and its next save replaces the snapshot: the variable `blind`, the exception in
`SnapshotsAdvance`.

`audit_log_slice` says Empty of an instruction that a failure left unexecuted: it is in
the list and has no lines, though the stream was recorded whole.  log_fixture.rs:165-167
calls Empty "legitimate only when the whole stream was suppressed; otherwise the walk
consumed this instruction's window into a sibling", and `deep_audit` counts it among the
imperfect (lines 310-317), while the walk itself leaves in the counter "complete".
Nothing went into a sibling: `LogsAreOwn` and `SoundStreamIsAttributed`, which speaks of
the instructions that ran, hold of such a stream.

A `drain` future dropped at its await leaves an account in
`seen` that was never answered (ingest.rs:177 marks it before the await): that is
the variable `abandoned`, the one exception in `SeenIsFetched` and `NoSilentGap`.
And `register` accepts a second handler with the same discriminator without the
panic its comment promises (registry.rs:107) when that discriminator is not eight
bytes wide: `LookupIsFirstClaimant` says that the second is never reached.

Smaller ones, which the model reproduces:

- instruction.rs:357 says of a walk that ends in the counter "complete" that every
  instruction received its own invoke.  A transaction that ends in programs that log
  nothing, or that failed before its last instructions, ends so too, and those have no lines.
- discovery.rs:16 says that discovery covers strictly more than extraction.  It
  does for the pump programs; swaps of the Meteora programs are extracted and not
  discovered.
- a trade that fills the curve and is known from an old-style log loses its
  completion when the cut falls between its two lines.  `CompletionIsOwn` therefore
  speaks of what the stream still shows.
- the exit of `attach_logs` for more invokes than instructions is out of reach in
  the model: the list always holds the inner instructions.

- traits.rs:60 and 168 describe `SwapAmount::ExactOut`; the quotes of Raydium and DBC
  take its amount for the input.  `Trade` therefore asks that the amount the quote
  names is the one asked.  PumpSwap's answer to more than the reserve is a successful
  quote of zeros, and its price near an empty reserve is cut to a u64 (math.rs:338).
- traits.rs:24 documents `Buy` as base in, quote out; every quote does the opposite.

### Hazards without a property

Six hazards have none, because what they describe does happen:

- a singleton config may go back: it is written twice, the fetch of the first value
  is answered late, and the answer is applied after the stream's update of the
  second (cache.rs:431; the cache README says that arrival order cannot corrupt the
  cache).  In `QuoteAssembly` the writes of the config are bounded to one, and
  the trace needs two.
- updates of one account that change places on the way: of two for one slot the cache
  keeps the one that comes last, which may be the older (versioned_map.rs:103), and one
  for an earlier slot is refused rather than filed into the history
  (versioned_map.rs:101).  `BundleIsAsOfSlot` and `RefusalIsHonest` therefore speak of
  ordered delivery only (`InOrder`).
- a restored snapshot answers for later slots until the stream has caught up
  (cache.rs:314); the code has no notion of a stale snapshot.
- a DBC quote multiplies amount and rate in a u64 and takes an overflow for no fee
  (meteora_dbc/math.rs:87).  At the default rate that is every sell of more than
  1.84e12 units, 1.84 million tokens of six decimals, from a pool whose tests hold 800
  million; at five times the rate it is a fifth of that, and the dearer pool then
  quotes more than the cheaper one, where the test `higher_fee_less_output` (line 281)
  asserts less.  The sibling venues multiply in u128.  `DbcFee` models it; the
  amounts of the run stay below the overflow, and `NoPoolIsBeaten` holds beyond it
  (such a trade still does not beat the pool, it just pays no fee).
- a bitmap search that comes to the first index of the extension on its way to the
  pool's word, while that index is not flagged, has start equal to end and is walked
  upwards (bitmap.rs:169).  It comes there if it starts there, or from further out after
  a hit on the index above.  `ArraysAreNearestFirst` and `QuoteWithoutGapEnds` exclude
  those starts (`AtWordEdge`).

### Fairness

`Ingest_safety` assumes only that a task inside `apply` keeps running: `apply` is
synchronous.  `ResolverFairness` adds: the caller spawns or drains the resolver it was
handed (the constructor returns it for that), the runtime polls a ready future, a
fetch returns (with an error if need be), and a backend asked again and again
does not fail every time (strong fairness of an answer per account).  Streams are
not assumed to deliver anything; the liveness properties name what they need
("keeps reaching the queue", "the stream goes quiet").

`CHECK_DEADLOCK FALSE` stands where the system may stop: every handle and the
resolver dropped (`Ingest`), every bounded write made (`QuoteAssembly`), every
handler registered (`HandlerRegistry`), tokens or SOL used up (`MCMarkets`),
the quote and its replay returned (`DlmmQuoter`), the transaction read
(`ChainExtraction`).

A DLMM quote is a plain loop of one thread; weak fairness of its turns (`Step`) says
that the loop goes on.  Making a quote is not fair.

## Proofs

TLAPS checks, for every value of the constants allowed by the assumptions
`VersionedStateAssumption` (slots are naturals, the depth is a natural),
`IngestAssumption` (a capacity of at least one, well-formed handler results),
`LocalCacheAssumption` (finitely many tasks and keys), `ProgramAssumption` (the silent programs and the casts are of the programs, the
bounds naturals), three of the four of `HandlerRegistry`, the four of
`PumpfunCurve`, `PoolAssumption` of `PoolQuotes` (rates are at most the whole, the reserves
start above zero and all there is of a side fits a u64), and the three of `DlmmQuoter`:
`FeeAssumption` (a rate is capped below the whole), `BinAssumption` (every bin has a
positive price; nothing says how prices grow) and `SnapshotAssumption` (what accounts and
clock hold is unsigned, flagged arrays hold bins, and bins end before the bitmaps do: array
6338 of 6655).  Each module states the facts about numbers and
sequences it needs that the solver does not find (least elements, products, quotients):

- `VersionedMapProofs`: type correctness and the depth bound
  (`TypeCorrect`), newest-first order (`HistoryAlwaysDescends`), exact reads
  (`ReadsAlwaysNearest`), latest wins (`LatestAlwaysWins`), stable past
  (`PastAlwaysFrozen`).  The lemmas about one entry
  distinguish the three arms of `insert` (`InsertCases`) and describe the pushed deque element by element
  (`PushFacts`).  The order of the history is inductive together with the type
  invariant; exact reads follow from the order alone (`FirstHitIsNearest`), which
  is the argument the first-hit walk in the code relies on.
  The same module shows that the map implements `SlotLog` (`MapImplementsSlotLog`).  An entry
  read as one sequence descends (`EntryAsSequence`), so the observations newer than
  its nth are the n - 1 before it (`NewerComeBefore`), and "the newest `Depth + 1`" of
  the keyspace is a prefix of the sequence (`RetainedIsPrefix`); what a push leaves
  of the deque is that prefix (`InsertIsWritten`).  A read agrees by
  `FirstHitIsNearest`.  A clear that has shards left to empty changes nothing of this:
  each shard is a step of its own in both modules.
- `IngestProofs`: the queue bound and single fetch (`TypeCorrect`), one
  successful fetch per account (`AlwaysResolvedOnce`), `seen` is fetched
  (`SeenAlwaysFetched`) and no silent gap (`NeverASilentGap`).  "At most one
  successful fetch" is not inductive: it needs `FetchBookkeeping` (an account
  being fetched is seen and not yet answered; an answered account stays seen
  while there is a resolver).  "No silent gap" needs that a seen account is
  cached, being fetched, missed or abandoned (`SeenIsAccountedFor`), because taking a seen
  account off the queue drops it.  Both name the accounts a cancelled drain
  abandoned as the only exception, so they hold with cancellation as without.
- `LocalCacheProofs`: where callers save one at a time (`SerialSaves`, an assumption of
  each theorem: `LocalCache_overlap` shows what happens otherwise), for any number of
  tasks, keys and files the snapshot loads (`SerialSnapshotsAreComplete`), keeps what
  was acknowledged (`AcknowledgedSavesSurvive`) and never takes a key back
  (`SerialSnapshotsAdvance`), each but for as many keys as were added while it was
  written, and the last drop saves the memory as it was left (`TheLastDropSaves`).
  None is inductive alone.  The invariant (`CInv`) says three kinds of things.
  Who writes: nobody saves beside another, a drop that saves included (`OneSaver`); the
  file being written is the temporary one, holds a prefix of what its writer serialized,
  and is not the snapshot (`SaverOwnsTmp`); once a drop has saved nobody can use
  the cache (`PersistedIsLast`, `DropSavesAlone`, `LastDropSaved`).
  How many: the keys counted are those there when the file was opened and perhaps some
  added since, and the entries written are those counted and some added since
  (`CountsMiss`), so that the count is at most the entries, and with the keys added at
  least as many; hence the file loads and what it drops is bounded (`Sealed`).
  How new: versions only go forward, from what was acknowledged over the snapshot and
  the call of a running save to the entries written and the memory (`SnapshotIsOld`,
  `WrittenSinceCall`), so that an entry that is read back is never too old and a
  key that is missed is one of those dropped (`FreshConcedes`).  The rename is the step
  where they meet (`RenamedFile`).  That snapshots load is also why `load_or_new` never
  refuses, and so why a restart starts from the snapshot and not behind it.
- `QuoteAssemblyProofs`: over a stream that keeps the order of one account's updates
  (`InOrder`, the antecedent of both theorems: without it the cache keeps the older of
  two updates for one slot), for any chain, fields, config and depth, a bundle
  assembled at a settled slot is of that slot (`BundleAlwaysAsOfSlot`), and a refusal has
  one of its two reasons (`RefusalAlwaysHonest`).  The reads of a bundle take no lock, so
  the invariant (`IInv`) is about every slot at once, not about the one being read: the last
  update of an account made by a slot carries the state at its end (`StreamIsTrue`),
  nothing still on its way is older than what is held (`HeldIsOlder`), and hence what
  the cache answers at a slot with no update on its way is true
  (`CacheIsTrue`).  A step of the stream or a handler keeps the answer of such a slot
  (`StoreFacts`), so each read adds a state that stays right until the last read is made
  (`QuoterInv`).  For refusals, what an entry retains is what arrived until the history is
  full (`ArrivalsInv`), and a full history whose every slot is newer than the
  reference has `Depth + 1` slots that displaced the older ones (`RetainedSlotsCount`).
  The facts about one entry are those of `VersionedMapProofs`, instantiated.
- `MarketProofs`: of a curve, the reserves stay those of a curve (`TypeCorrect`), the
  holders never profit (`NobodyProfits`) and no trade lowers the product of the
  reserves (`ProductNeverLowered`), for every width, amount, schedule and
  starting reserve, in a build with overflow checks.  The argument: each of the
  three trades the program offers moves a product of reserves upwards
  (`BuyMoves`, `SellMoves`, `BuyExactOutMoves`), because the division goes
  against the trader; holders can sell only tokens they bought, so the token
  reserve never exceeds the one the curve began with, and a product at least the
  first keeps the quote reserve at least the first (`ProductBoundsQuote`).  Then
  neither a reserve nor a u64 overflows, which is what makes the next quote
  exact: type, profit and product (`IInv`) are inductive only together.
  `PriceAssumption` says that the dearest purchase the real reserve allows has a
  price within a u64; it holds for live curves, which sell 793e12 of 1073e12
  tokens, even against all the SOL there is, and TLC evaluates it on the small
  ones.
  The rates of a quote are those of the one tier whose range holds the market cap
  (`FeesAlwaysOfTheTier`), since thresholds ascend.  The two kinds of quote agree
  (`ExactOutAlwaysAgrees`): a buy quoted back for what it gave costs no more, because the
  exact-out formula takes the least price that suffices; a sell quoted for an exact output
  falls short by at most the lamport by which the fees, rounded one by one, can exceed
  their sum rounded once.  The second half speaks of quotes that were not cut to a u64:
  the code casts the token amount down, and a cut quote asks for less than it should.
  Of a pool, whatever its venue, rates and reserves, no sequence of trades,
  collections and schedule changes leaves the traders ahead (`NoPoolIsBeaten`).
  The invariant (`PoolInv`) is a sum and a product: of each side, what the traders
  hold and what the pool has in reserve is never more than at the start, and the
  product of the reserves never less.  A trader with more of one side and no less
  of the other would then hold the pool to smaller factors of no smaller a product
  (`SameFactors`).  Each formula has one lemma (`PumpSwapExactInSound`,
  `PumpSwapExactOutSound`, `RaydiumSound`, `DbcSound`); of PumpSwap's exact-out quotes
  it needs that the price is not cut to a u64, which `Trade` asks for.  PumpSwap's quotes
  agree like the curve's (`PoolExactOutAlwaysAgrees`), to two units, or the amount
  is dust.
- `DlmmQuoterProofs`, of the search: for any word, number of pages and flags, the arrays
  named are the flagged ones ahead, nearest first (`ArraysAlwaysNearestFirst`).  A search in one
  layer answers with the first flag ahead, ends, or hops to the other layer's border without
  passing a flag (`OutwardFacts`, `FromWordFacts`, `UpToWord`), at most twice in a row
  (`NextFromFacts`).  The hits then follow one another with no flag between
  (`HitsAreNearest`), so before the nth lie n - 1 (`AheadCounts`).
- `DlmmQuoterProofs`, of the walk: what a quote has delivered is the reserves of the bins
  behind it and a part of the active one's (`AlwaysNearestBinsFirst`).  The invariant
  (`WalkInv`) gives all four accumulators as sums along the way: while something is left,
  every bin behind was emptied (`Underway`), each at the price and the volatility it has by
  its distance from the start; when nothing is left, the last bin gave or took the rest
  (`Spent`).  It also says that each bin behind lies in the array a search from it
  finds, and that array is cached (`Passable`).
- `DlmmQuoterProofs`, of the promise: the quoters agree (`ExactOutAlwaysHonoured`,
  `ExactOutAlwaysMinimal`), for any prices, fees and amounts.  What an exact-out quote asks
  is the cost in full of the bins it emptied and of a part of one more (`Bought`).  Put through
  the exact-in quoter (`PromiseInv`), that input empties the same bins, because it exceeds what they take until the last
  (`PromisedSpend`).  In the last bin the fee put on top of an input is exactly the fee found within the
  sum (`FeeRoundTrip`), and the price, rounded up, is the least that buys the rest
  (`PriceFacts`).  One unit less leaves the fee at least as high and the
  input lower, so the last bin gives less; or it does not empty the bin before, and ends
  there.  The second walk finds the arrays of the first, since each bin is `Passable` and the
  pool has not changed (`PromiseAhead`).  A replayed quote may still end in "Overflow",
  where a bin's inbound reserve would grow beyond a u64: the exact-out quoter does not
  check that of a bin it empties.
- `TransactionProofs`, of the attribution: whatever programs there are, silent ones among them, and
  however long and deep a transaction is, a line handed to an instruction is its own
  (`LogsAlwaysOwn`), the rebuilt parent is the caller (`ParentAlwaysCaller`), every
  instruction that lost a line to the cut is marked (`TruncationAlwaysMarked`), and
  what the parser indexes by is there (`TypeCorrect`).  The code trusts facts about
  the runtime that it cannot see, and the invariant (`LInv`) states them.  Of the
  run: the open calls are a path in the list (`CallsAreNested`), a caller is the last
  lower instruction before its callee (`CallersAreBelow`), invokes come in the order
  of the list with only silent programs left out (`InvokesAreOrdered`), and the calls
  open after a line follow from those open before it (`OpensFollow`).  Of the
  parser: its stack holds exactly the instructions after which all are higher
  (`StackIsPath`), so what the pops leave on top is the caller; and the frames are
  the calls open after the last line read, the cursor the last one opened
  (`FramesAreOpenCalls`).  The step that needs it all is `InvokeIsNext`: an invoke
  that names the program of the next instruction cannot be a later one's, because
  the skipped ones are silent and the next is not.
  Truncation adds two facts (`CutInv`): an instruction that lost a line was open at
  the end of the stream or comes after every invoke (`LossesAreCutOff`), and a call
  open at the end of the stream was open after any earlier line or was invoked since
  (`StillOpen`); so it is open where the walk stops, or comes after the cursor, even
  when the line that stops it is a program's own.
  A slice the audit passes is whole (`AuditOkAlwaysMeansWhole`): an Ok says that the slice
  opens with an invoke and ends with a terminator, and what lies between is read off
  the invariant `Slices`: a slice lists, in order and once each, exactly the
  instruction's lines up to some point of the walk (`UpTo`); a terminator is the last line
  of its call (`ClosedForGood`), so that point is past them all.  And from a stream
  recorded whole every instruction that ran passes (`SoundStreamAlwaysAttributed`): with nothing
  silent no invoke names another instruction than the next (`NextIsNamed`), so the walk
  never stops short (`SoundIsRead`), and every call that was opened is closed by a line
  (`EndsClosed`).
- `TransactionProofs`, of the extraction: every row is made from an event its instruction
  emitted (`EventsAlwaysOwn`), a swap reported by a call survives any loss of the log
  (`CallsAlwaysSurviveTheStream`), each instruction of the pump programs ends in exactly
  one place (`NothingIsEverSwallowed`), and a completion belongs to its trade
  (`CompletionAlwaysOwn`).  The extraction leaves the attribution alone
  (`ExtractionIsAttribution`), so everything above holds of it (`Family`); what it adds is
  that an event's caller is the program itself and no event (`CallersEmit`), that without heights there are no
  parents (`NoHeightsNoParents`) and that a slice holds lines that exist
  (`EntriesAreLines`).  From these, children that carry an event and lines that hold it
  were emitted by the instruction (`CarrierFacts`, `LoggedFacts`); the climb of
  `resolve_outer_swap` ends because parents come before their children (`ClimbExists`), and
  for an event it ends at its caller (`OuterSwapFacts`).  What a row says of its event then
  depends on its instruction alone (`RowIsOwn`), and two instructions have different
  events.  The invariant of the loop (`Reading`) says that the tape, the reports, the
  undecoded and the pools are what `Extract` and `Discover` say of the instructions read so
  far, each once and in order.

- `HandlerRegistryProofs`: for any handlers, any width of a keyed discriminator and
  any number of registrations, lookup answers with the first claimant
  (`LookupAlwaysFirstClaimant`) and no registration steals an account
  (`NeverSteals`), from `HandlersAssumption`, `AccountsAssumption` and
  `DiscWidthAssumption`.  The invariant (`RInv`) says what the code's two structures
  owe to the order of registration: while nothing has panicked, the map holds
  exactly the keyed handlers (`MapHoldsTheKeyed`), and each program's list is an
  increasing selection of the registrations (`ListsAreInOrder`).  The claimants of
  an account then only grow at the end, so the first stays the first
  (`FirstStays`).

Only model-checked: what overlapping saves do to the snapshot, and liveness, which the
prover does not reach, that of a DLMM quote over arrays without gaps
(`QuoteWithoutGapEnds`) included.
`HistoryAlwaysDescends`, and `TypeCorrect` of `VersionedMap` and of `LogAttribution`,
are theorems without a run of their own: other properties of the runs fail first.

## Abstractions

Account states are version numbers or model values; decoding is not modelled.
`HandleResult` is a constant per account.  A snapshot is a block for the
count, for each entry and for the depth, each
carrying what the stream compressed before it, so a file that mixes two writers
does not read back.  The depth a snapshot restores is left out, also where a piece of a
key is taken for it: what `VersionedMap` is shown to do it does at every depth.  Prices and price impact are left out of the swap math: they are
floating point, reported, and decide nothing.  The price of a DLMM bin is a table that grows with
its id, its fixed-point scale and the fee's are constants of the run; integers of
128 bits are unbounded.  The amounts of an extracted row are left out: which
instruction they are read from is what the properties are about.  Disk contents survive a crash as written: what a file system
loses in a power failure (there is no `fsync`) is outside the code.

## Plan

What remains, in this order: `QuoteAssembly` with restarts and gaps in the stream;
the quote of a Raydium CLMM, once its powers are tables as the DLMM bins are.  Theorems
wanted: that a DLMM quote over arrays without gaps never finds an array it cannot enter, the
safety half of `QuoteWithoutGapEnds`.

## Not modelled

- Raydium CLMM swap math: sqrt prices are fixed-point powers that go through floating
  point, which TLC does not have.  Read, not checked: a sell from a price that is, by
  that arithmetic, exactly on an initialized tick ends at once with nothing
  (raydium_clmm/math.rs:249), and a walk ends, without an error, where a tick range
  without liquidity begins (line 238).  The repository has no
  quote for Meteora DAMM.
- the fee ladder compiled into pumpswap/math.rs for a pool account without its config;
  pools and curves that are migrated or not yet live, which are refused before any
  arithmetic.
- classification of instructions and accounts (parsing/registry.rs): a table from
  discriminators to names, recorded in fixtures.
- byte layouts, decoders and instruction builders: external formats, covered by the
  recorded fixtures of the repository; the derive macros other than `QuoteState`.
- constant tables, token metadata, error texts, the fixture tooling around
  `audit_log_slice`.
