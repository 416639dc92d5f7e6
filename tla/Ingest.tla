------------------------------- MODULE Ingest -------------------------------
(***************************************************************************)
(* Account ingestion and background dependency resolution                  *)
(* (src/crates/storage/ingest/src/ingest.rs).                              *)
(*                                                                         *)
(* Stream tasks hold Ingest handles and call apply, which dispatches an    *)
(* update to its handler and then offers the Infrequent dependencies the   *)
(* handler reported, one try_send each, to a bounded channel.  One         *)
(* resolver takes them off the channel, fetches each account once, and     *)
(* feeds what it fetched back through apply.  Tasks run concurrently: the  *)
(* dispatch and every single try_send is a step of its own, and so are the *)
(* two ends of the fetch the resolver awaits.                              *)
(*                                                                         *)
(* What a handler decodes and stores is abstracted to the set of accounts  *)
(* that have been applied; the slots of the updates are the subject of     *)
(* QuoteAssembly.                                                          *)
(***************************************************************************)
EXTENDS Naturals, Sequences, SequencesExt

CONSTANTS
  Accounts,      \* account addresses
  Tasks,         \* tasks that may hold an Ingest handle
  Resolver,      \* the resolver's own task
  HandleResult,  \* HandleResult[a]: the dependencies the handler of a reports
  DEP_QUEUE_CAPACITY,
  MaxDropped     \* bound: deps_dropped is only counted this far

Expectations == {"Infrequent", "Frequent", "Dynamic"}

Dependency == [pubkey : Accounts, expectation : Expectations]

ASSUME IngestAssumption ==
  /\ Resolver \notin Tasks
  /\ DEP_QUEUE_CAPACITY \in Nat \ {0}
  /\ MaxDropped \in Nat \ {0}
  /\ HandleResult \in [Accounts -> [accounts_to_fetch     : Seq(Dependency),
                                    accounts_to_subscribe : Seq(Dependency)]]

VARIABLES
  handles,     \* tasks that hold a handle
  targets,     \* targets[t]: the dependencies t's running apply has yet to go through
  queue,       \* the channel between deps_tx and deps_rx
  depsDropped, \* Ingest.deps_dropped
  mode,        \* where the resolver is: not polled, in drain, in run, gone
  fetching,    \* {a} while the fetch of a is awaited, {} otherwise
  seen,        \* DepResolver.seen
  cached,      \* accounts an update of which was applied
  reported,    \* history: Infrequent dependencies handlers reported
  answered,    \* history: accounts a fetch of which returned Ok
  fetches,     \* history: per account, Ok answers (counted to 2)
  missed,      \* history: accounts whose last fetch came to nothing
  abandoned    \* history: accounts whose fetch a cancelled drain left behind

vars == <<handles, targets, queue, depsDropped, mode, fetching, seen, cached,
          reported, answered, fetches, missed, abandoned>>

resolverVars == <<mode, fetching, seen, answered, fetches, abandoned>>

AllTasks == Tasks \cup {Resolver}

Modes == {"held", "draining", "running", "exited", "dropped"}

ResolverAlive == mode \in {"held", "draining", "running"}

(* The resolver owns an Arc<Ingest> itself, and the Ingest owns deps_tx.   *)
IngestAlive == handles # {} \/ ResolverAlive

(* fetch_targets is a lazy iterator over both lists: the class decides,    *)
(* not the list, and it is tested as apply's loop asks for the next.       *)
Chained(result) == result.accounts_to_fetch \o result.accounts_to_subscribe

Fetched(d) == d.expectation = "Infrequent"

FetchTargets(deps) == {d.pubkey : d \in {e \in Range(deps) : Fetched(e)}}
-----------------------------------------------------------------------------
Init ==
  /\ handles = Tasks
  /\ targets = [t \in AllTasks |-> << >>]
  /\ queue = << >>
  /\ depsDropped = 0
  /\ mode = "held"
  /\ fetching = {}
  /\ seen = {}
  /\ cached = {}
  /\ reported = {}
  /\ answered = {}
  /\ fetches = [a \in Accounts |-> 0]
  /\ missed = {}
  /\ abandoned = {}

(* The handler of a accepted the update: a is in the cache and its         *)
(* dependencies are about to be sent.                                      *)
Dispatched(t, a) ==
  LET deps == Chained(HandleResult[a])
  IN  /\ targets' = [targets EXCEPT ![t] = deps]
      /\ reported' = reported \cup FetchTargets(deps)
      /\ cached' = cached \cup {a}

(* apply on a stream task.  A dispatch that fails changes nothing.         *)
Apply(t, a) ==
  /\ t \in handles
  /\ targets[t] = << >>
  /\ Dispatched(t, a)
  /\ UNCHANGED <<handles, queue, depsDropped, missed>>
  /\ UNCHANGED resolverVars

(* Mutant of Sendable: one more than the channel holds. *)
SendableOver == ResolverAlive /\ Len(queue) <= DEP_QUEUE_CAPACITY

(* try_send fails if the channel is full or its receiver is gone.          *)
Sendable == ResolverAlive /\ Len(queue) < DEP_QUEUE_CAPACITY

Send(a) ==
  /\ queue' = Append(queue, a)
  /\ UNCHANGED depsDropped

(* Mutants of CountDrop: the drop is not counted; send() for try_send().   *)
DropUncounted == UNCHANGED <<depsDropped, queue>>

DropOnlyIfClosed ==
  /\ ~ResolverAlive
  /\ depsDropped' = IF depsDropped < MaxDropped THEN depsDropped + 1 ELSE MaxDropped
  /\ UNCHANGED queue

CountDrop ==
  /\ depsDropped' = IF depsDropped < MaxDropped THEN depsDropped + 1 ELSE MaxDropped
  /\ UNCHANGED queue

(* One turn of apply's loop: the filter, then try_send, which never waits. *)
TrySend(t) ==
  /\ targets[t] # << >>
  /\ targets' = [targets EXCEPT ![t] = Tail(@)]
  /\ LET d == Head(targets[t])
     IN  \/ ~Fetched(d) /\ UNCHANGED <<queue, depsDropped>>
         \/ Fetched(d) /\ Sendable /\ Send(d.pubkey)
         \/ Fetched(d) /\ ~Sendable /\ CountDrop
  /\ UNCHANGED <<handles, cached, reported, missed>>
  /\ UNCHANGED resolverVars

DropHandle(t) ==
  /\ t \in handles
  /\ targets[t] = << >>
  /\ handles' = handles \ {t}
  /\ UNCHANGED <<targets, queue, depsDropped, cached, reported, missed>>
  /\ UNCHANGED resolverVars
-----------------------------------------------------------------------------
(* Between two requests: no fetch awaited, nothing left to re-queue.       *)
ResolverIdle == fetching = {} /\ targets[Resolver] = << >>

(* The caller starts drain, or hands the resolver to run.                  *)
Poll ==
  /\ mode = "held"
  /\ mode' \in {"draining", "running"}
  /\ UNCHANGED <<handles, targets, queue, depsDropped, fetching, seen, cached,
                 reported, answered, fetches, missed, abandoned>>

(* Mutant of Resolve: `seen' is kept but not consulted. *)
ResolveAgain(a) ==
  /\ seen' = seen \cup {a}
  /\ fetching' = {a}
  /\ missed' = missed \ {a}

(* resolve, up to its await: a pubkey already in seen is not fetched.      *)
Resolve(a) ==
  /\ seen' = seen \cup {a}
  /\ fetching' = {a} \ seen
  /\ missed' = IF a \in seen THEN missed ELSE missed \ {a}

Receive ==
  /\ mode \in {"draining", "running"}
  /\ ResolverIdle
  /\ queue # << >>
  /\ Resolve(Head(queue))
  /\ queue' = Tail(queue)
  /\ UNCHANGED <<handles, targets, depsDropped, mode, cached, reported,
                 answered, fetches, abandoned>>

(* The channel gives nothing: drain returns at once, run's recv waits      *)
(* until every sender is gone.                                             *)
QueueEnds ==
  /\ ResolverIdle
  /\ queue = << >>
  /\ mode' = CASE mode = "draining"                  -> "held"
               [] mode = "running" /\ ~IngestAlive -> "exited"
               [] OTHER                              -> mode
  /\ mode' # mode
  /\ UNCHANGED <<handles, targets, queue, depsDropped, fetching, seen, cached,
                 reported, answered, fetches, missed, abandoned>>

Answered(a) ==
  /\ a \in fetching
  /\ fetching' = {}
  /\ answered' = answered \cup {a}
  /\ fetches' = [fetches EXCEPT ![a] = IF @ < 2 THEN @ + 1 ELSE 2]
  /\ UNCHANGED <<handles, queue, depsDropped, mode, seen, abandoned>>

(* Ok(Some(update)): it goes through apply like any other update.          *)
FetchFound(a) ==
  /\ Answered(a)
  /\ Dispatched(Resolver, a)
  /\ UNCHANGED missed

(* Ok(None), or Ok(Some(update)) that no handler accepts: only a warning.  *)
FetchUseless(a) ==
  /\ Answered(a)
  /\ missed' = missed \cup {a}
  /\ UNCHANGED <<targets, cached, reported>>

(* Mutant of FetchFailed: the pubkey stays seen. *)
FetchFailedForGood(a) ==
  /\ a \in fetching
  /\ fetching' = {}
  /\ missed' = missed \cup {a}
  /\ UNCHANGED <<handles, targets, queue, depsDropped, mode, seen, cached,
                 reported, answered, fetches, abandoned>>

(* Err: the pubkey is un-seen.                                             *)
FetchFailed(a) ==
  /\ a \in fetching
  /\ fetching' = {}
  /\ seen' = seen \ {a}
  /\ missed' = missed \cup {a}
  /\ UNCHANGED <<handles, targets, queue, depsDropped, mode, cached, reported,
                 answered, fetches, abandoned>>

(* drain borrows the resolver: a caller that stops polling it (a timeout,  *)
(* a select) gets the resolver back as the await left it.                  *)
CancelDrain ==
  /\ mode = "draining"
  /\ fetching # {}
  /\ mode' = "held"
  /\ fetching' = {}
  /\ abandoned' = abandoned \cup fetching
  /\ UNCHANGED <<handles, targets, queue, depsDropped, seen, cached, reported,
                 answered, fetches, missed>>

(* The caller drops the resolver, or aborts the task that runs it, at an   *)
(* await: the receiver goes, with what it held.                            *)
DropResolver ==
  /\ ResolverAlive
  /\ targets[Resolver] = << >>
  /\ mode' = "dropped"
  /\ fetching' = {}
  /\ queue' = << >>
  /\ seen' = {}
  /\ missed' = missed \cup fetching \cup Range(queue)
  /\ UNCHANGED <<handles, targets, depsDropped, cached, reported, answered,
                 fetches, abandoned>>
-----------------------------------------------------------------------------
StreamStep(t) == (\E a \in Accounts : Apply(t, a)) \/ TrySend(t) \/ DropHandle(t)

FetchStep(a) == FetchFound(a) \/ FetchUseless(a) \/ FetchFailed(a)

Next ==
  \/ \E t \in Tasks : StreamStep(t)
  \/ TrySend(Resolver)
  \/ Poll
  \/ Receive
  \/ QueueEnds
  \/ \E a \in Accounts : FetchStep(a)
  \/ CancelDrain
  \/ DropResolver

Spec == Init /\ [][Next]_vars

(* A stream task that is inside apply keeps running; nobody else must.     *)
StreamFairness == \A t \in Tasks : WF_vars(TrySend(t))

(* The caller spawns the resolver, the runtime polls it, a fetch returns   *)
(* (with a timeout error if need be), and a backend asked over and over    *)
(* does not fail every time.                                               *)
ResolverFairness ==
  /\ WF_vars(Poll)
  /\ WF_vars(TrySend(Resolver) \/ Receive \/ QueueEnds)
  /\ \A a \in Accounts : WF_vars(FetchStep(a))
  /\ \A a \in Accounts : SF_vars(FetchFound(a) \/ FetchUseless(a))

WedgedSpec == Spec /\ StreamFairness

FairSpec == Spec /\ StreamFairness /\ ResolverFairness
-----------------------------------------------------------------------------
(* ingest.rs:59-65, 144-152: the channel stays within its capacity, at     *)
(* most one fetch is awaited at a time, and only by a polled resolver.     *)
TypeOK ==
  /\ handles \subseteq Tasks
  /\ targets \in [AllTasks -> Seq(Dependency)]
  /\ queue \in Seq(Accounts)
  /\ Len(queue) <= DEP_QUEUE_CAPACITY
  /\ depsDropped \in 0 .. MaxDropped
  /\ mode \in Modes
  /\ fetching \subseteq Accounts
  /\ \A a, b \in fetching : a = b
  /\ fetching # {} => mode \in {"draining", "running"}
  /\ seen \subseteq Accounts
  /\ cached \subseteq Accounts
  /\ reported \subseteq Accounts
  /\ answered \subseteq Accounts
  /\ fetches \in [Accounts -> 0 .. 2]
  /\ missed \subseteq Accounts
  /\ abandoned \subseteq Accounts

(* "A dependency resolves once, not once per update of the account that    *)
(* reports it" (ingest.rs:147): however often it is reported, and even if  *)
(* dependencies form a cycle, an account is answered by the backend once.  *)
ResolvedOnce == \A a \in Accounts : fetches[a] <= 1

(* "Already fetched" (ingest.rs:147): an account the resolver will refuse  *)
(* to fetch has been answered, or its answer is being awaited.  The one    *)
(* exception is a fetch that was under way when a drain was cancelled:     *)
(* resolve marks the account before its await and nobody takes that back.  *)
SeenIsFetched == seen \subseteq answered \cup fetching \cup abandoned

(* A dependency is not lost without a trace (ingest.rs:109-114, 129-135,   *)
(* 189-194): while deps_dropped is zero, one that was reported is cached,  *)
(* still on its way, its last fetch failed or came back useless, or it was *)
(* abandoned with a drain.                                                 *)
OnItsWay ==
  fetching \cup Range(queue) \cup UNION {FetchTargets(targets[t]) : t \in AllTasks}

NoSilentGap ==
  depsDropped = 0 => reported \subseteq cached \cup OnItsWay \cup missed \cup abandoned

(* The hot path never waits (ingest.rs:4-8, 130-131): an apply returns     *)
(* even if the resolver never takes another step.                          *)
HotPathNeverBlocks ==
  \A t \in Tasks : (targets[t] # << >>) ~> (targets[t] = << >>)

(* "A transient RPC failure must not blacklist the account forever. The    *)
(* next update re-reports it." (ingest.rs:190): an account that keeps      *)
(* reaching the queue is in the end answered, unless its fetch was         *)
(* abandoned with a drain.  It is asked of a resolver that is run fairly,  *)
(* while everything else is asked of any resolver.                         *)
FailureIsNotPermanent ==
  ResolverFairness =>
    \A a \in Accounts : []<>(a \in Range(queue)) => <>(a \in answered \cup abandoned)

(* drain resolves what is queued, then returns (ingest.rs:166-174): if the *)
(* stream goes quiet it ends, though dispatching what it fetched queues    *)
(* further dependencies and they may depend on each other.                 *)
StreamQuiet == \A t \in Tasks : targets[t] = << >>

DrainReturns ==
  ResolverFairness =>
    (<>[]StreamQuiet => [](mode = "draining" => <>(mode # "draining")))

(* "It exits when the last Ingest handle is dropped" (ingest.rs:143), "run *)
(* resolves until every Ingest handle is dropped" (ingest.rs:159).         *)
ResolverExits ==
  (mode = "running" /\ handles = {}) ~> (mode \in {"exited", "dropped"})
=============================================================================
