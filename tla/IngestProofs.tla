---------------------------- MODULE IngestProofs ----------------------------
(***************************************************************************)
(* Proofs about Ingest for every set of accounts and tasks, every          *)
(* dependency graph and every queue capacity.                              *)
(***************************************************************************)
EXTENDS Ingest, TLAPS

(* What a non-empty sequence holds is its head and what its tail holds.    *)
LEMMA RangeOfTail ==
  ASSUME NEW S, NEW s \in Seq(S), s # << >>
  PROVE  /\ Head(s) \in S
         /\ Tail(s) \in Seq(S)
         /\ Range(s) = {Head(s)} \cup Range(Tail(s))
<1>1. /\ Head(s) = s[1]
      /\ Head(s) \in S
      /\ Tail(s) \in Seq(S)
      /\ Len(s) \in Nat \ {0}
      /\ Len(Tail(s)) = Len(s) - 1
      /\ DOMAIN s = 1 .. Len(s)
      /\ DOMAIN Tail(s) = 1 .. (Len(s) - 1)
      /\ \A i \in 1 .. (Len(s) - 1) : Tail(s)[i] = s[i + 1]
  OBVIOUS
<1>2. Range(s) = {s[i] : i \in 1 .. Len(s)}
  BY <1>1 DEF Range
<1>3. Range(Tail(s)) = {s[i + 1] : i \in 1 .. (Len(s) - 1)}
  BY <1>1 DEF Range
<1>4. \A i \in 1 .. Len(s) : i = 1 \/ \E j \in 1 .. (Len(s) - 1) : i = j + 1
  <2>. SUFFICES ASSUME NEW i \in 1 .. Len(s), i # 1
                PROVE  \E j \in 1 .. (Len(s) - 1) : i = j + 1
    OBVIOUS
  <2>1. i - 1 \in 1 .. (Len(s) - 1) /\ i = (i - 1) + 1
    BY <1>1
  <2>. QED BY <2>1
<1>5. \A j \in 1 .. (Len(s) - 1) : j + 1 \in 1 .. Len(s)
  BY <1>1
<1>6. Head(s) \in Range(s)
  BY <1>1, <1>2
<1>7. Range(Tail(s)) \subseteq Range(s)
  BY <1>2, <1>3, <1>5
<1>8. ASSUME NEW x \in Range(s)
      PROVE  x = Head(s) \/ x \in Range(Tail(s))
  <2>1. PICK i \in 1 .. Len(s) : x = s[i]
    BY <1>2
  <2>. QED BY <1>1, <1>3, <1>4, <2>1
<1>. QED BY <1>1, <1>6, <1>7, <1>8

(* Appending adds exactly the appended element.                            *)
LEMMA RangeOfAppend ==
  ASSUME NEW S, NEW s \in Seq(S), NEW a \in S
  PROVE  /\ Append(s, a) \in Seq(S)
         /\ Range(Append(s, a)) = Range(s) \cup {a}
<1>1. /\ Append(s, a) \in Seq(S)
      /\ Len(s) \in Nat
      /\ DOMAIN s = 1 .. Len(s)
      /\ DOMAIN Append(s, a) = 1 .. (Len(s) + 1)
      /\ \A i \in 1 .. Len(s) : Append(s, a)[i] = s[i]
      /\ Append(s, a)[Len(s) + 1] = a
  OBVIOUS
<1>2. Range(Append(s, a)) = {Append(s, a)[i] : i \in 1 .. (Len(s) + 1)}
  BY <1>1 DEF Range
<1>3. 1 .. (Len(s) + 1) = 1 .. Len(s) \cup {Len(s) + 1}
  BY <1>1
<1>4. Range(s) = {s[i] : i \in 1 .. Len(s)}
  BY <1>1 DEF Range
<1>. QED BY <1>1, <1>2, <1>3, <1>4
-----------------------------------------------------------------------------
(* A handler reports well-formed dependencies.                             *)
LEMMA ChainedType ==
  ASSUME NEW a \in Accounts
  PROVE  /\ Chained(HandleResult[a]) \in Seq(Dependency)
         /\ FetchTargets(Chained(HandleResult[a])) \subseteq Accounts
<1>1. Chained(HandleResult[a]) \in Seq(Dependency)
  BY IngestAssumption DEF Chained
<1>2. Range(Chained(HandleResult[a])) \subseteq Dependency
  BY <1>1 DEF Range
<1>. QED BY <1>1, <1>2 DEF FetchTargets, Dependency

(* The dispatch of an update keeps what it touches well formed.            *)
LEMMA DispatchedType ==
  ASSUME TypeOK, NEW t \in AllTasks, NEW a \in Accounts, Dispatched(t, a)
  PROVE  /\ targets' \in [AllTasks -> Seq(Dependency)]
         /\ cached' \subseteq Accounts
         /\ reported' \subseteq Accounts
  BY ChainedType DEF TypeOK, Dispatched

(* Every step keeps the queue within its capacity, at most one fetch under *)
(* way, and that one only while somebody polls the resolver.               *)
LEMMA TypeInductive == TypeOK /\ [Next]_vars => TypeOK'
<1>. SUFFICES ASSUME TypeOK, [Next]_vars PROVE TypeOK'
  OBVIOUS
<1>1. ASSUME NEW t \in Tasks, NEW a \in Accounts, Apply(t, a)
      PROVE  TypeOK'
  BY <1>1, DispatchedType DEF Apply, TypeOK, resolverVars, AllTasks
<1>2. ASSUME NEW t \in AllTasks, TrySend(t)
      PROVE  TypeOK'
  <2>1. /\ Head(targets[t]) \in Dependency
        /\ Tail(targets[t]) \in Seq(Dependency)
    BY <1>2 DEF TrySend, TypeOK
  <2>2. targets' \in [AllTasks -> Seq(Dependency)]
    BY <1>2, <2>1 DEF TrySend, TypeOK
  <2>3. /\ queue' \in Seq(Accounts)
        /\ Len(queue') <= DEP_QUEUE_CAPACITY
        /\ depsDropped' \in 0 .. MaxDropped
    <3>1. CASE UNCHANGED <<queue, depsDropped>>
      BY <3>1 DEF TypeOK
    <3>2. CASE Sendable /\ Send(Head(targets[t]).pubkey)
      BY <2>1, <3>2, IngestAssumption DEF Sendable, Send, TypeOK, Dependency
    <3>3. CASE CountDrop
      BY <3>3, IngestAssumption DEF CountDrop, TypeOK
    <3>. QED BY <1>2, <3>1, <3>2, <3>3 DEF TrySend
  <2>. QED BY <1>2, <2>2, <2>3 DEF TrySend, TypeOK, resolverVars
<1>3. ASSUME NEW t \in Tasks, DropHandle(t)
      PROVE  TypeOK'
  BY <1>3 DEF DropHandle, TypeOK, resolverVars
<1>4. CASE Poll
  BY <1>4 DEF Poll, TypeOK, Modes
<1>5. CASE Receive
  <2>1. Head(queue) \in Accounts /\ Tail(queue) \in Seq(Accounts)
    BY <1>5 DEF Receive, TypeOK
  <2>2. Len(Tail(queue)) <= DEP_QUEUE_CAPACITY
    BY <1>5, IngestAssumption DEF Receive, TypeOK
  <2>. QED BY <1>5, <2>1, <2>2 DEF Receive, Resolve, TypeOK
<1>6. CASE QueueEnds
  BY <1>6 DEF QueueEnds, ResolverIdle, TypeOK, Modes
<1>7. ASSUME NEW a \in Accounts, FetchFound(a)
      PROVE  TypeOK'
  <2>1. /\ targets' \in [AllTasks -> Seq(Dependency)]
        /\ cached' \subseteq Accounts
        /\ reported' \subseteq Accounts
    BY <1>7, DispatchedType DEF FetchFound, AllTasks
  <2>2. fetches' \in [Accounts -> 0 .. 2] /\ answered' \subseteq Accounts
    BY <1>7 DEF FetchFound, Answered, TypeOK
  <2>. QED BY <1>7, <2>1, <2>2 DEF FetchFound, Answered, TypeOK
<1>8. ASSUME NEW a \in Accounts, FetchUseless(a)
      PROVE  TypeOK'
  BY <1>8 DEF FetchUseless, Answered, TypeOK
<1>9. ASSUME NEW a \in Accounts, FetchFailed(a)
      PROVE  TypeOK'
  BY <1>9 DEF FetchFailed, TypeOK
<1>10. CASE CancelDrain
  BY <1>10 DEF CancelDrain, TypeOK, Modes
<1>11. CASE DropResolver
  <2>1. Range(queue) \subseteq Accounts
    BY DEF TypeOK, Range
  <2>2. << >> \in Seq(Accounts) /\ Len(<< >>) = 0 /\ 0 <= DEP_QUEUE_CAPACITY
    BY IngestAssumption
  <2>. QED BY <1>11, <2>1, <2>2 DEF DropResolver, TypeOK, Modes
<1>12. CASE UNCHANGED vars
  BY <1>12 DEF vars, TypeOK
<1>. QED BY <1>1, <1>2, <1>3, <1>4, <1>5, <1>6, <1>7, <1>8, <1>9, <1>10,
           <1>11, <1>12 DEF Next, StreamStep, FetchStep, AllTasks

(* The channel never holds more than DEP_QUEUE_CAPACITY pubkeys and the    *)
(* resolver never has more than one fetch under way (ingest.rs:32-38,      *)
(* 176-180), for any number of stream tasks.                               *)
THEOREM TypeCorrect == Spec => []TypeOK
<1>1. Init => TypeOK
  BY IngestAssumption DEF Init, TypeOK, Modes
<1>. QED BY <1>1, TypeInductive, PTL DEF Spec
-----------------------------------------------------------------------------
(* Why an account is fetched with success only once: while its first fetch *)
(* is under way it is in `seen', and once it has been answered nothing     *)
(* takes it out again as long as there is a resolver.                      *)
FetchBookkeeping ==
  /\ fetching \subseteq seen
  /\ \A a \in fetching : fetches[a] = 0
  /\ ResolverAlive => \A a \in Accounts : fetches[a] > 0 => a \in seen

(* Every step keeps the books, and with them the promise of one fetch.     *)
LEMMA FetchInductive ==
  TypeOK /\ FetchBookkeeping /\ ResolvedOnce /\ [Next]_vars
    => FetchBookkeeping' /\ ResolvedOnce'
<1>. SUFFICES ASSUME TypeOK, FetchBookkeeping, ResolvedOnce, [Next]_vars
              PROVE  FetchBookkeeping' /\ ResolvedOnce'
  OBVIOUS
<1>. USE DEF FetchBookkeeping, ResolvedOnce, ResolverAlive
<1>1. CASE UNCHANGED resolverVars
  BY <1>1 DEF resolverVars
<1>2. CASE Poll
  BY <1>2 DEF Poll
<1>3. CASE Receive
  <2>1. /\ fetching' = {Head(queue)} \ seen
        /\ seen' = seen \cup {Head(queue)}
        /\ UNCHANGED <<mode, fetches>>
        /\ ResolverAlive
    BY <1>3 DEF Receive, Resolve
  <2>2. Head(queue) \in Accounts
    BY <1>3 DEF Receive, TypeOK
  <2>3. \A a \in Accounts : fetches[a] \in 0 .. 2
    BY DEF TypeOK
  <2>. QED BY <2>1, <2>2, <2>3
<1>4. CASE QueueEnds
  <2>1. UNCHANGED <<fetching, seen, fetches>> /\ (mode' \in {"held", "exited"})
    BY <1>4 DEF QueueEnds
  <2>2. mode \in {"draining", "running"}
    BY <1>4 DEF QueueEnds
  <2>. QED BY <2>1, <2>2
<1>5. ASSUME NEW a \in Accounts, Answered(a)
      PROVE  FetchBookkeeping' /\ ResolvedOnce'
  <2>1. /\ fetching' = {}
        /\ seen' = seen
        /\ mode' = mode
        /\ fetches' = [fetches EXCEPT ![a] = IF @ < 2 THEN @ + 1 ELSE 2]
        /\ a \in seen
        /\ fetches[a] = 0
    BY <1>5 DEF Answered
  <2>2. \A x \in Accounts : fetches'[x] = IF x = a THEN 1 ELSE fetches[x]
    BY <2>1 DEF TypeOK
  <2>. QED BY <2>1, <2>2
<1>6. ASSUME NEW a \in Accounts, FetchFailed(a)
      PROVE  FetchBookkeeping' /\ ResolvedOnce'
  BY <1>6 DEF FetchFailed
<1>7. CASE CancelDrain
  BY <1>7 DEF CancelDrain
<1>8. CASE DropResolver
  BY <1>8 DEF DropResolver
<1>9. ASSUME NEW t \in Tasks, StreamStep(t)
      PROVE  UNCHANGED resolverVars
  BY <1>9 DEF StreamStep, Apply, TrySend, DropHandle
<1>10. TrySend(Resolver) \/ UNCHANGED vars => UNCHANGED resolverVars
  BY DEF TrySend, vars, resolverVars
<1>. QED BY <1>1, <1>2, <1>3, <1>4, <1>5, <1>6, <1>7, <1>8, <1>9, <1>10
         DEF Next, FetchStep, FetchFound, FetchUseless

(* "A dependency resolves once, not once per update of the account that    *)
(* reports it" (ingest.rs:147), for every dependency graph - cycles        *)
(* included - and however many tasks report it.                            *)
THEOREM AlwaysResolvedOnce == Spec => []ResolvedOnce
<1>1. Init => FetchBookkeeping /\ ResolvedOnce
  BY DEF Init, FetchBookkeeping, ResolvedOnce
<1>. QED BY <1>1, TypeCorrect, FetchInductive, PTL DEF Spec
-----------------------------------------------------------------------------
(* Where an account the resolver refuses to fetch again stands.            *)
SeenIsAccountedFor == seen \subseteq cached \cup fetching \cup missed \cup abandoned

(* Seen accounts stay accounted for.                                       *)
LEMMA SeenInductive ==
  TypeOK /\ SeenIsFetched /\ SeenIsAccountedFor /\ [Next]_vars
    => SeenIsFetched' /\ SeenIsAccountedFor'
<1>. SUFFICES ASSUME TypeOK, SeenIsFetched, SeenIsAccountedFor, [Next]_vars
              PROVE  SeenIsFetched' /\ SeenIsAccountedFor'
  OBVIOUS
<1>. USE DEF SeenIsFetched, SeenIsAccountedFor
<1>1. ASSUME NEW t \in AllTasks, NEW a \in Accounts, Apply(t, a)
      PROVE  SeenIsFetched' /\ SeenIsAccountedFor'
  BY <1>1 DEF Apply, Dispatched, resolverVars
<1>2. ASSUME NEW t \in AllTasks, TrySend(t) \/ DropHandle(t)
      PROVE  SeenIsFetched' /\ SeenIsAccountedFor'
  BY <1>2 DEF TrySend, DropHandle, resolverVars
<1>3. CASE Receive
  BY <1>3 DEF Receive, ResolverIdle, Resolve
<1>4. ASSUME NEW a \in Accounts, FetchFound(a)
      PROVE  SeenIsFetched' /\ SeenIsAccountedFor'
  <2>1. fetching = {a}
    BY <1>4 DEF FetchFound, Answered, TypeOK
  <2>. QED BY <1>4, <2>1 DEF FetchFound, Answered, Dispatched
<1>5. ASSUME NEW a \in Accounts, FetchUseless(a)
      PROVE  SeenIsFetched' /\ SeenIsAccountedFor'
  <2>1. fetching = {a}
    BY <1>5 DEF FetchUseless, Answered, TypeOK
  <2>. QED BY <1>5, <2>1 DEF FetchUseless, Answered
<1>6. ASSUME NEW a \in Accounts, FetchFailed(a)
      PROVE  SeenIsFetched' /\ SeenIsAccountedFor'
  <2>1. fetching = {a}
    BY <1>6 DEF FetchFailed, TypeOK
  <2>. QED BY <1>6, <2>1 DEF FetchFailed
<1>7. CASE Poll \/ QueueEnds
  BY <1>7 DEF Poll, QueueEnds
<1>8. CASE DropResolver
  BY <1>8 DEF DropResolver
<1>9. CASE UNCHANGED vars
  BY <1>9 DEF vars
<1>10. CASE CancelDrain
  BY <1>10 DEF CancelDrain
<1>. QED BY <1>1, <1>2, <1>3, <1>4, <1>5, <1>6, <1>7, <1>8, <1>9, <1>10
         DEF Next, StreamStep, FetchStep, AllTasks

(* `seen' holds what its comment says (ingest.rs:147, "Already fetched"),  *)
(* but for the fetches a cancelled drain abandoned: nothing else is        *)
(* blacklisted by a fetch that never answered.                             *)
THEOREM SeenAlwaysFetched == Spec => []SeenIsFetched
<1>1. Init => SeenIsFetched /\ SeenIsAccountedFor
  BY DEF Init, SeenIsFetched, SeenIsAccountedFor
<1>2. TypeOK /\ SeenIsFetched /\ SeenIsAccountedFor /\ [Next]_vars
        => SeenIsFetched' /\ SeenIsAccountedFor'
  BY SeenInductive
<1>. QED BY <1>1, <1>2, TypeCorrect, PTL DEF Spec
-----------------------------------------------------------------------------
(* While the resolver awaits a fetch it is not inside an apply of its own. *)
OneThingAtATime == fetching # {} => targets[Resolver] = << >>

(* Of a dependency list, what is not at its head is in its tail.           *)
LEMMA TargetsOfTail ==
  ASSUME NEW s \in Seq(Dependency), s # << >>
  PROVE  \A x \in FetchTargets(s) :
           \/ x \in FetchTargets(Tail(s))
           \/ Fetched(Head(s)) /\ x = Head(s).pubkey
  BY RangeOfTail DEF FetchTargets

(* A dispatch puts on its way all that it reports, and takes nothing off.  *)
LEMMA DispatchedOnItsWay ==
  ASSUME TypeOK, NEW t \in AllTasks, targets[t] = << >>,
         NEW a \in Accounts, Dispatched(t, a)
  PROVE  /\ reported' = reported \cup FetchTargets(targets'[t])
         /\ \A u \in AllTasks : FetchTargets(targets[u]) \subseteq FetchTargets(targets'[u])
<1>1. /\ targets'[t] = Chained(HandleResult[a])
      /\ \A u \in AllTasks \ {t} : targets'[u] = targets[u]
      /\ reported' = reported \cup FetchTargets(Chained(HandleResult[a]))
  BY DEF Dispatched, TypeOK
<1>2. FetchTargets(<< >>) = {}
  BY DEF FetchTargets, Range
<1>. QED BY <1>1, <1>2

(* What is on its way stays on it, or ends in the cache or as a miss.      *)
LEMMA GapInductive ==
  TypeOK /\ SeenIsAccountedFor /\ OneThingAtATime /\ NoSilentGap /\ [Next]_vars
    => OneThingAtATime' /\ NoSilentGap'
<1>. SUFFICES ASSUME TypeOK, SeenIsAccountedFor, OneThingAtATime, NoSilentGap,
                     [Next]_vars
              PROVE  OneThingAtATime' /\ NoSilentGap'
  OBVIOUS
<1>. USE DEF NoSilentGap, OneThingAtATime, OnItsWay
<1>0. Resolver \in AllTasks /\ Resolver \notin Tasks /\ Tasks \subseteq AllTasks
  BY IngestAssumption DEF AllTasks
<1>1. ASSUME NEW t \in Tasks, NEW a \in Accounts, Apply(t, a)
      PROVE  OneThingAtATime' /\ NoSilentGap'
  <2>1. /\ reported' = reported \cup FetchTargets(targets'[t])
        /\ \A u \in AllTasks : FetchTargets(targets[u]) \subseteq FetchTargets(targets'[u])
    BY <1>0, <1>1, DispatchedOnItsWay DEF Apply
  <2>2. /\ UNCHANGED <<fetching, queue, depsDropped, missed, abandoned>>
        /\ cached \subseteq cached'
        /\ targets'[Resolver] = targets[Resolver]
    BY <1>0, <1>1 DEF Apply, Dispatched, resolverVars, TypeOK
  <2>3. OnItsWay \subseteq OnItsWay'
    BY <2>1, <2>2
  <2>4. FetchTargets(targets'[t]) \subseteq OnItsWay'
    BY <1>0
  <2>5. NoSilentGap'
    <3>. HIDE DEF OnItsWay
    <3>. QED BY <2>1, <2>2, <2>3, <2>4
  <2>. QED BY <2>2, <2>5
<1>2. ASSUME NEW t \in AllTasks, TrySend(t)
      PROVE  OneThingAtATime' /\ NoSilentGap'
  <2>1. /\ targets[t] # << >>
        /\ targets[t] \in Seq(Dependency)
        /\ targets'[t] = Tail(targets[t])
        /\ \A u \in AllTasks \ {t} : targets'[u] = targets[u]
        /\ UNCHANGED <<fetching, cached, reported, missed, abandoned>>
    BY <1>2 DEF TrySend, TypeOK, resolverVars
  <2>2. OneThingAtATime'
    BY <1>0, <2>1
  <2>3. CASE ~Fetched(Head(targets[t])) /\ UNCHANGED <<queue, depsDropped>>
    <3>1. FetchTargets(targets[t]) \subseteq FetchTargets(targets'[t])
      BY <2>1, <2>3, TargetsOfTail
    <3>. QED BY <2>1, <2>2, <2>3, <3>1
  <2>4. CASE Send(Head(targets[t]).pubkey)
    <3>1. /\ Range(queue') = Range(queue) \cup {Head(targets[t]).pubkey}
          /\ depsDropped' = depsDropped
      <4>0. Head(targets[t]) \in Dependency
        BY <2>1
      <4>1. Head(targets[t]).pubkey \in Accounts
        BY <4>0 DEF Dependency
      <4>. QED BY <2>4, <4>1, RangeOfAppend DEF Send, TypeOK
    <3>2. FetchTargets(targets[t])
            \subseteq FetchTargets(targets'[t]) \cup {Head(targets[t]).pubkey}
      BY <2>1, TargetsOfTail
    <3>. QED BY <2>1, <2>2, <3>1, <3>2
  <2>5. CASE CountDrop
    <3>1. depsDropped' # 0
      BY <2>5, IngestAssumption DEF CountDrop, TypeOK
    <3>. QED BY <2>2, <3>1
  <2>. QED BY <1>2, <2>3, <2>4, <2>5 DEF TrySend
<1>3. CASE Receive
  <2>1. /\ queue \in Seq(Accounts)
        /\ queue # << >>
        /\ queue' = Tail(queue)
        /\ fetching = {}
        /\ fetching' = {Head(queue)} \ seen
        /\ missed' = IF Head(queue) \in seen THEN missed ELSE missed \ {Head(queue)}
        /\ UNCHANGED <<targets, depsDropped, cached, reported, abandoned>>
        /\ targets[Resolver] = << >>
    BY <1>3 DEF Receive, ResolverIdle, Resolve, TypeOK
  <2>2. Range(queue) = {Head(queue)} \cup Range(queue')
    BY <2>1, RangeOfTail
  <2>3. Head(queue) \in seen => Head(queue) \in cached \cup missed \cup abandoned
    BY <2>1 DEF SeenIsAccountedFor
  <2>. QED BY <2>1, <2>2, <2>3
<1>4. ASSUME NEW a \in Accounts, FetchFound(a)
      PROVE  OneThingAtATime' /\ NoSilentGap'
  <2>1. /\ fetching = {a}
        /\ fetching' = {}
        /\ cached' = cached \cup {a}
        /\ UNCHANGED <<queue, depsDropped, missed, abandoned>>
    BY <1>4 DEF FetchFound, Answered, Dispatched, TypeOK
  <2>2. targets[Resolver] = << >>
    BY <2>1
  <2>3. /\ reported' = reported \cup FetchTargets(targets'[Resolver])
        /\ \A u \in AllTasks : FetchTargets(targets[u]) \subseteq FetchTargets(targets'[u])
    BY <1>0, <1>4, <2>2, DispatchedOnItsWay DEF FetchFound
  <2>. QED BY <1>0, <2>1, <2>3
<1>5. ASSUME NEW a \in Accounts, FetchUseless(a) \/ FetchFailed(a)
      PROVE  OneThingAtATime' /\ NoSilentGap'
  <2>1. fetching = {a}
    BY <1>5 DEF FetchUseless, FetchFailed, Answered, TypeOK
  <2>. QED BY <1>5, <2>1 DEF FetchUseless, FetchFailed, Answered
<1>6. ASSUME NEW t \in Tasks, DropHandle(t)
      PROVE  OneThingAtATime' /\ NoSilentGap'
  BY <1>6 DEF DropHandle, resolverVars
<1>7. CASE Poll \/ QueueEnds
  BY <1>7 DEF Poll, QueueEnds
<1>8. CASE DropResolver
  <2>1. Range(<< >>) = {}
    BY DEF Range
  <2>. QED BY <1>8, <2>1 DEF DropResolver
<1>9. CASE UNCHANGED vars
  BY <1>9 DEF vars
<1>10. CASE CancelDrain
  BY <1>10 DEF CancelDrain
<1>. QED BY <1>0, <1>1, <1>2, <1>3, <1>4, <1>5, <1>6, <1>7, <1>8, <1>9, <1>10
         DEF Next, StreamStep, FetchStep

(* A dependency is lost only if deps_dropped says so (ingest.rs:106-114):  *)
(* with the counter at zero, each one that was ever reported is cached, on *)
(* its way, was answered with a miss that the log names, or was being      *)
(* fetched when a drain was cancelled.                                     *)
THEOREM NeverASilentGap == Spec => []NoSilentGap
<1>. DEFINE Gap == OneThingAtATime /\ NoSilentGap
            Seen == SeenIsFetched /\ SeenIsAccountedFor
<1>1. Init => Gap /\ Seen
  BY DEF Init, OneThingAtATime, NoSilentGap, SeenIsFetched, SeenIsAccountedFor
<1>2. TypeOK /\ Seen /\ [Next]_vars => Seen'
  BY SeenInductive
<1>3. TypeOK /\ Seen /\ Gap /\ [Next]_vars => Gap'
  BY GapInductive
<1>4. Gap => NoSilentGap
  OBVIOUS
<1>. HIDE DEF Gap, Seen
<1>. QED BY <1>1, <1>2, <1>3, <1>4, TypeCorrect, PTL DEF Spec
=============================================================================
