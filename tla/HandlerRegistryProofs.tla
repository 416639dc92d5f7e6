------------------------ MODULE HandlerRegistryProofs ------------------------
(***************************************************************************)
(* Proofs about HandlerRegistry for every set of handlers, every width of  *)
(* a keyed discriminator and any number of registrations.                  *)
(***************************************************************************)
EXTENDS HandlerRegistry, TLAPS, NaturalsInduction, WellFoundedInduction

-----------------------------------------------------------------------------
(* Numbers.                                                                *)

\* A nonempty set of naturals has a least element.
LEMMA LeastNatural ==
    ASSUME NEW S \in SUBSET Nat, S # {}
    PROVE  \E x \in S : \A y \in S : x <= y
<1>1. \E R : IsWellFoundedOn(R, Nat) /\ \A x, y \in Nat : y < x => <<y, x>> \in R
  <2>1. \A x, y \in Nat : y < x => <<y, x>> \in OpToRel(<, Nat)
    BY DEF OpToRel
  <2> QED
    BY <2>1, NatLessThanWellFounded, Zenon
<1>2. PICK R : IsWellFoundedOn(R, Nat) /\ \A x, y \in Nat : y < x => <<y, x>> \in R
  BY <1>1
<1>3. PICK x \in S : \A y \in S : <<y, x>> \notin R
  BY <1>2, WFMin
<1>4. ASSUME NEW y \in S
      PROVE  x <= y
  <2>1. x \in Nat /\ y \in Nat
    OBVIOUS
  <2>2. ~ (y < x)
    BY <1>2, <1>3, <2>1, Zenon
  <2> QED
    BY <2>1, <2>2
<1> QED
  BY <1>4

\* Min is the least element of a nonempty set of naturals.
LEMMA MinFacts ==
    ASSUME NEW S \in SUBSET Nat, S # {}
    PROVE  Min(S) \in S /\ \A y \in S : Min(S) <= y
  BY LeastNatural DEF Min

\* Min is the only element that is below all others.
LEMMA MinIs ==
    ASSUME NEW S \in SUBSET Nat, NEW x \in S, \A y \in S : x <= y
    PROVE  Min(S) = x
<1>1. Min(S) \in S /\ Min(S) <= x
  BY MinFacts
<1>2. x <= Min(S)
  BY <1>1
<1>3. x \in Nat /\ Min(S) \in Nat
  BY <1>1
<1> HIDE DEF Min
<1> QED
  BY <1>1, <1>2, <1>3

-----------------------------------------------------------------------------
(* What each variable holds.                                               *)
Types ==
  /\ registered \in Seq(Handlers)
  /\ panicked \in BOOLEAN
  /\ \A p \in DOMAIN fallback : fallback[p] \in Seq(Handlers)

(* While nothing has panicked, the map holds the keyed handlers that were  *)
(* registered and no others.                                               *)
MapHoldsTheKeyed ==
  ~panicked =>
     /\ \A i \in 1 .. Len(registered) : Keyed(registered[i]) =>
           /\ Key(registered[i]) \in DOMAIN by_discriminator
           /\ by_discriminator[Key(registered[i])] = registered[i]
     /\ \A k \in DOMAIN by_discriminator :
           \E i \in 1 .. Len(registered) : Keyed(registered[i]) /\ Key(registered[i]) = k

(* The positions in the order of registration of the handlers of a list.   *)
Positions(list, program, at) ==
  /\ at \in Seq(Nat)
  /\ Len(at) = Len(list)
  /\ \A n \in 1 .. Len(at) :
        /\ at[n] \in 1 .. Len(registered)
        /\ registered[at[n]] = list[n]
        /\ registered[at[n]].program = program /\ ~Keyed(registered[at[n]])
        /\ \A m \in 1 .. n - 1 : at[m] < at[n]
  /\ \A i \in 1 .. Len(registered) :
        registered[i].program = program /\ ~Keyed(registered[i])
           => \E n \in 1 .. Len(at) : at[n] = i

(* A program's list has its other handlers, each once per registration, in *)
(* the order they came.                                                    *)
ListsAreInOrder == \A p \in Programs : \E at : Positions(ListOf(p), p, at)

RInv == Types /\ MapHoldsTheKeyed /\ ListsAreInOrder

-----------------------------------------------------------------------------
(* A handler that is appended.                                             *)
LEMMA AppendFacts ==
  ASSUME NEW S, NEW s \in Seq(S), NEW x \in S
  PROVE  /\ Append(s, x) \in Seq(S)
         /\ Len(Append(s, x)) = Len(s) + 1
         /\ \A k \in 1 .. Len(s) : Append(s, x)[k] = s[k]
         /\ Append(s, x)[Len(s) + 1] = x
  OBVIOUS

(* A registration, on either path.                                         *)
LEMMA RegisterFacts ==
  ASSUME Types, NEW h \in Handlers, Register(h)
  PROVE  /\ ~panicked
         /\ registered' \in Seq(Handlers)
         /\ Len(registered) \in Nat
         /\ Len(registered') = Len(registered) + 1
         /\ \A i \in 1 .. Len(registered) : registered'[i] = registered[i]
         /\ registered'[Len(registered) + 1] = h
<1>1. registered \in Seq(Handlers) /\ registered' = Append(registered, h) /\ ~panicked
  BY DEF Types, Register
<1>. QED BY <1>1, AppendFacts

(* The lists stay sequences of handlers.                                   *)
LEMMA TypesInductive ==
  ASSUME Types, NEW h \in Handlers, Register(h)
  PROVE  Types'
<1>1. registered' \in Seq(Handlers)
  BY RegisterFacts
<1>2. ListOf(h.program) \in Seq(Handlers)
  BY DEF Types, ListOf
<1>3. Enlisted(h) \in Seq(Handlers)
  BY <1>2 DEF Enlisted
<1>4. CASE RegisterKeyed(h)
  BY <1>1, <1>4 DEF Types, RegisterKeyed
<1>5. CASE RegisterFallback(h)
  <2>1. \A p \in DOMAIN fallback' : fallback'[p] \in Seq(Handlers)
    BY <1>3, <1>5 DEF Types, RegisterFallback, Bound
  <2>. QED BY <1>1, <1>5, <2>1 DEF Types, RegisterFallback
<1>. QED BY <1>4, <1>5 DEF Register

(* A key bound anew is one that was free, or the registry panics.          *)
LEMMA MapInductive ==
  ASSUME Types, MapHoldsTheKeyed, NEW h \in Handlers, Register(h)
  PROVE  MapHoldsTheKeyed'
<1> DEFINE n == Len(registered) + 1
<1>1. /\ ~panicked /\ n \in Nat /\ Len(registered') = n /\ registered'[n] = h
      /\ \A i \in 1 .. Len(registered) : registered'[i] = registered[i]
      /\ \A i \in 1 .. n : i \in 1 .. Len(registered) \/ i = n
      /\ \A i \in 1 .. Len(registered) : i \in 1 .. n
      /\ n \in 1 .. n
  BY RegisterFacts
<1> HIDE DEF n
<1>2. /\ \A i \in 1 .. Len(registered) : Keyed(registered[i]) =>
            /\ Key(registered[i]) \in DOMAIN by_discriminator
            /\ by_discriminator[Key(registered[i])] = registered[i]
      /\ \A k \in DOMAIN by_discriminator :
            \E i \in 1 .. Len(registered) : Keyed(registered[i]) /\ Key(registered[i]) = k
  BY <1>1 DEF MapHoldsTheKeyed
<1> DEFINE map == by_discriminator'
<1>3. ASSUME ~panicked'
      PROVE  /\ \A i \in 1 .. n : Keyed(registered'[i]) =>
                   /\ Key(registered'[i]) \in DOMAIN map
                   /\ map[Key(registered'[i])] = registered'[i]
             /\ \A k \in DOMAIN map :
                   \E i \in 1 .. n : Keyed(registered'[i]) /\ Key(registered'[i]) = k
  <2>1. CASE RegisterKeyed(h)
    <3>1. /\ Keyed(h) /\ Key(h) \notin DOMAIN by_discriminator
          /\ DOMAIN map = DOMAIN by_discriminator \cup {Key(h)}
          /\ map[Key(h)] = h
          /\ \A k \in DOMAIN by_discriminator : k # Key(h) => map[k] = by_discriminator[k]
      BY <1>3, <2>1 DEF RegisterKeyed, Bound
    <3> HIDE DEF map
    <3>2. ASSUME NEW i \in 1 .. n, Keyed(registered'[i])
          PROVE  /\ Key(registered'[i]) \in DOMAIN map
                 /\ map[Key(registered'[i])] = registered'[i]
      <4>1. CASE i = n
        BY <1>1, <3>1, <4>1
      <4>2. CASE i \in 1 .. Len(registered)
        <5>1. /\ registered'[i] = registered[i] /\ Key(registered[i]) \in DOMAIN by_discriminator
              /\ by_discriminator[Key(registered[i])] = registered[i]
          BY <1>1, <1>2, <3>2, <4>2
        <5>. QED BY <3>1, <5>1
      <4>. QED BY <1>1, <4>1, <4>2
    <3>3. ASSUME NEW k \in DOMAIN map
          PROVE  \E i \in 1 .. n : Keyed(registered'[i]) /\ Key(registered'[i]) = k
      <4>1. CASE k = Key(h)
        BY <1>1, <3>1, <4>1
      <4>2. CASE k \in DOMAIN by_discriminator
        BY <1>1, <1>2, <4>2
      <4>. QED BY <3>1, <4>1, <4>2
    <3>. QED BY <3>2, <3>3
  <2>2. CASE RegisterFallback(h)
    <3>1. ~Keyed(h) /\ map = by_discriminator
      BY <2>2 DEF RegisterFallback
    <3> HIDE DEF map
    <3>. QED BY <1>1, <1>2, <3>1
  <2>. QED BY <2>1, <2>2 DEF Register
<1>. QED BY <1>1, <1>3 DEF MapHoldsTheKeyed, Keyed, Key

(* A list that is left alone, and a list that grows at its end.            *)
LEMMA ListsInductive ==
  ASSUME Types, ListsAreInOrder, NEW h \in Handlers, Register(h)
  PROVE  ListsAreInOrder'
<1> DEFINE n == Len(registered) + 1
<1>1. /\ n \in Nat /\ Len(registered') = n /\ registered'[n] = h
      /\ \A i \in 1 .. Len(registered) : registered'[i] = registered[i]
      /\ \A i \in 1 .. n : i \in 1 .. Len(registered) \/ i = n
      /\ \A i \in 1 .. Len(registered) : i \in 1 .. n /\ i \in Nat /\ i < n
      /\ n \in 1 .. n
  BY RegisterFacts
<1> HIDE DEF n
<1>2. SUFFICES ASSUME NEW p \in Programs
               PROVE  \E at : Positions(ListOf(p), p, at)'
  BY DEF ListsAreInOrder
<1>3. PICK at : Positions(ListOf(p), p, at)
  BY DEF ListsAreInOrder
<1> DEFINE list == ListOf(p)
<1>4. /\ at \in Seq(Nat) /\ Len(at) = Len(list) /\ Len(at) \in Nat
      /\ \A k \in 1 .. Len(at) :
            /\ at[k] \in 1 .. Len(registered)
            /\ registered[at[k]] = list[k]
            /\ registered[at[k]].program = p /\ ~Keyed(registered[at[k]])
            /\ \A m \in 1 .. k - 1 : at[m] < at[k]
      /\ \A i \in 1 .. Len(registered) :
            registered[i].program = p /\ ~Keyed(registered[i])
               => \E k \in 1 .. Len(at) : at[k] = i
  BY <1>3 DEF Positions
<1>5. list \in Seq(Handlers)
  BY DEF Types, ListOf
<1> DEFINE grown == ListOf(p)'
<1>6. CASE RegisterFallback(h) /\ h.program = p
  <2>1. ~Keyed(h) /\ grown = Append(list, h)
    BY <1>6 DEF RegisterFallback, Bound, ListOf, Enlisted
  <2> HIDE DEF list, grown
  <2>7. PICK further : further = Append(at, n)
    OBVIOUS
  <2>2. /\ Len(grown) = Len(list) + 1 /\ grown[Len(list) + 1] = h
        /\ \A k \in 1 .. Len(list) : grown[k] = list[k]
    BY <1>5, <2>1, AppendFacts
  <2>3. /\ further \in Seq(Nat) /\ Len(further) = Len(at) + 1 /\ further[Len(at) + 1] = n
        /\ \A k \in 1 .. Len(at) : further[k] = at[k]
    BY <1>1, <1>4, <2>7, AppendFacts
  <2>4. ASSUME NEW k \in 1 .. Len(further)
        PROVE  /\ further[k] \in 1 .. n
               /\ registered'[further[k]] = grown[k]
               /\ registered'[further[k]].program = p /\ ~Keyed(registered'[further[k]])
               /\ \A m \in 1 .. k - 1 : further[m] < further[k]
    <3>1. CASE k \in 1 .. Len(at)
      <4>1. \A m \in 1 .. k - 1 : m \in 1 .. Len(at)
        BY <1>4, <3>1
      <4>2. further[k] = at[k] /\ at[k] \in 1 .. Len(registered) /\ grown[k] = list[k]
        BY <1>4, <2>2, <2>3, <3>1
      <4>3. registered'[at[k]] = registered[at[k]] /\ at[k] \in 1 .. n
        BY <1>1, <4>2
      <4>4. \A m \in 1 .. k - 1 : further[m] < further[k]
        BY <1>4, <2>3, <3>1, <4>1, <4>2
      <4>. QED BY <1>4, <3>1, <4>2, <4>3, <4>4
    <3>2. CASE k = Len(at) + 1
      <4>1. \A m \in 1 .. k - 1 : m \in 1 .. Len(at)
        BY <1>4, <3>2
      <4>. QED BY <1>1, <1>4, <1>6, <2>1, <2>2, <2>3, <3>2, <4>1
    <3>. QED BY <1>4, <2>3, <3>1, <3>2
  <2>5. ASSUME NEW i \in 1 .. n, registered'[i].program = p, ~Keyed(registered'[i])
        PROVE  \E k \in 1 .. Len(further) : further[k] = i
    <3>1. CASE i = n
      <4>1. Len(at) + 1 \in 1 .. Len(further)
        BY <1>4, <2>3
      <4>. QED BY <2>3, <3>1, <4>1
    <3>2. CASE i \in 1 .. Len(registered)
      <4>1. PICK k \in 1 .. Len(at) : at[k] = i
        BY <1>1, <1>4, <2>5, <3>2
      <4>2. k \in 1 .. Len(further)
        BY <1>4, <2>3
      <4>. QED BY <2>3, <4>1, <4>2
    <3>. QED BY <1>1, <3>1, <3>2
  <2>6. Positions(ListOf(p), p, further)'
    <3>1. Len(further) = Len(grown)
      BY <1>4, <2>2, <2>3
    <3>2. /\ \A k \in 1 .. Len(further) :
                /\ further[k] \in 1 .. Len(registered')
                /\ registered'[further[k]] = grown[k]
                /\ registered'[further[k]].program = p /\ ~Keyed(registered'[further[k]])
                /\ \A m \in 1 .. k - 1 : further[m] < further[k]
          /\ \A i \in 1 .. Len(registered') :
                registered'[i].program = p /\ ~Keyed(registered'[i])
                   => \E k \in 1 .. Len(further) : further[k] = i
      BY <1>1, <2>4, <2>5
    <3>. QED BY <2>3, <3>1, <3>2 DEF Positions, Keyed, grown
  <2>. QED BY <2>6
<1>7. CASE ~(RegisterFallback(h) /\ h.program = p)
  <2>1. grown = list /\ (h.program = p => Keyed(h))
    BY <1>7 DEF Register, RegisterKeyed, RegisterFallback, Bound, ListOf
  <2> HIDE DEF list, grown
  <2>2. ASSUME NEW i \in 1 .. n, registered'[i].program = p, ~Keyed(registered'[i])
        PROVE  \E k \in 1 .. Len(at) : at[k] = i
    BY <1>1, <1>4, <2>1, <2>2
  <2>3. Positions(ListOf(p), p, at)'
    BY <1>1, <1>4, <2>1, <2>2 DEF Positions, Keyed, grown
  <2>. QED BY <2>3
<1>. QED BY <1>6, <1>7

(* The invariant, from the empty registry on.                              *)
LEMMA RInvHolds == Spec => []RInv
<1>1. Init => RInv
  <2> SUFFICES ASSUME Init PROVE RInv
    OBVIOUS
  <2>1. Types /\ MapHoldsTheKeyed
    <3>1. /\ registered = <<>> /\ panicked = FALSE
          /\ \A k : k \notin DOMAIN fallback /\ k \notin DOMAIN by_discriminator
      BY DEF Init
    <3>2. Types
      <4>1. registered \in Seq(Handlers)
        BY <3>1
      <4>2. panicked \in BOOLEAN
        BY <3>1
      <4>. QED BY <3>1, <4>1, <4>2 DEF Types
    <3>3. \A i \in 1 .. Len(registered) : FALSE
      BY <3>1
    <3>. QED BY <3>1, <3>2, <3>3 DEF MapHoldsTheKeyed
  <2>2. ASSUME NEW p \in Programs PROVE Positions(ListOf(p), p, <<>>)
    BY DEF Init, ListOf, Positions
  <2>. QED BY <2>1, <2>2 DEF RInv, ListsAreInOrder
<1>2. RInv /\ [Next]_vars => RInv'
  <2> SUFFICES ASSUME RInv, [Next]_vars PROVE RInv'
    OBVIOUS
  <2>1. ASSUME NEW h \in Handlers, Register(h) PROVE RInv'
    BY <2>1, TypesInductive, MapInductive, ListsInductive DEF RInv
  <2>2. CASE UNCHANGED vars
    <3>1. Types' /\ MapHoldsTheKeyed'
      BY <2>2 DEF RInv, Types, MapHoldsTheKeyed, Keyed, Key, vars
    <3>2. ASSUME NEW p \in Programs PROVE \E at : Positions(ListOf(p), p, at)'
      <4>1. PICK at : Positions(ListOf(p), p, at)
        BY DEF RInv, ListsAreInOrder
      <4>2. Positions(ListOf(p), p, at)'
        BY <2>2, <4>1 DEF Positions, ListOf, Keyed, vars
      <4>. QED BY <4>2
    <3>. QED BY <3>1, <3>2 DEF RInv, ListsAreInOrder
  <2>. QED BY <2>1, <2>2 DEF Next
<1>. QED BY <1>1, <1>2, PTL DEF Spec

-----------------------------------------------------------------------------
(* What lookup finds.                                                      *)

(* A discriminator of the full width starts the data if the data's first   *)
(* bytes are it.                                                           *)
LEMMA KeyIsPrefix ==
  ASSUME NEW h \in Handlers, Keyed(h), NEW data \in Accounts
  PROVE  IsPrefix(h.discriminator, data) <=>
            Len(data) >= DiscWidth /\ FirstEight(data) = h.discriminator
<1> DEFINE d == h.discriminator
<1>1. d \in Seq(Nat) /\ Len(d) = DiscWidth /\ data \in Seq(Nat) /\ DiscWidth \in Nat
  BY HandlersAssumption, AccountsAssumption, DiscWidthAssumption DEF Keyed
<1> HIDE DEF d
<1>2. SubSeq(d, 1, Len(d)) = d
  BY <1>1
<1>3. IsPrefix(d, data) <=> Len(d) <= Len(data) /\ d = SubSeq(data, 1, Len(d))
  BY <1>2 DEF IsPrefix
<1>. QED BY <1>1, <1>3 DEF FirstEight, d

(* The keyed handlers that answer for an account are the one under its key.*)
LEMMA KeyedIsFound ==
  ASSUME RInv, ~panicked, NEW owner \in Programs, NEW data \in Accounts
  PROVE  /\ HasKey(owner, data) <=> KeyedClaimants(owner, data) # {}
         /\ \A i \in KeyedClaimants(owner, data) :
               by_discriminator[<<owner, FirstEight(data)>>] = registered[i]
<1>1. registered \in Seq(Handlers) /\ DOMAIN registered = 1 .. Len(registered)
  BY DEF RInv, Types
<1>2. /\ \A i \in 1 .. Len(registered) : Keyed(registered[i]) =>
            /\ Key(registered[i]) \in DOMAIN by_discriminator
            /\ by_discriminator[Key(registered[i])] = registered[i]
      /\ \A k \in DOMAIN by_discriminator :
            \E i \in 1 .. Len(registered) : Keyed(registered[i]) /\ Key(registered[i]) = k
  BY DEF RInv, MapHoldsTheKeyed
<1>3. ASSUME NEW i \in KeyedClaimants(owner, data)
      PROVE  /\ HasKey(owner, data)
             /\ by_discriminator[<<owner, FirstEight(data)>>] = registered[i]
  <2>1. /\ i \in 1 .. Len(registered) /\ registered[i] \in Handlers /\ Keyed(registered[i])
        /\ registered[i].program = owner /\ IsPrefix(registered[i].discriminator, data)
    BY <1>1 DEF KeyedClaimants, For
  <2>2. Len(data) >= DiscWidth /\ FirstEight(data) = registered[i].discriminator
    BY <2>1, KeyIsPrefix
  <2>3. Key(registered[i]) = <<owner, FirstEight(data)>>
    BY <2>1, <2>2 DEF Key
  <2>4. Key(registered[i]) \in DOMAIN by_discriminator
        /\ by_discriminator[Key(registered[i])] = registered[i]
    BY <1>2, <2>1
  <2>. QED BY <2>2, <2>3, <2>4 DEF HasKey
<1>4. ASSUME HasKey(owner, data)
      PROVE  KeyedClaimants(owner, data) # {}
  <2>1. Len(data) >= DiscWidth /\ <<owner, FirstEight(data)>> \in DOMAIN by_discriminator
    BY <1>4 DEF HasKey
  <2>2. PICK i \in 1 .. Len(registered) :
           Keyed(registered[i]) /\ Key(registered[i]) = <<owner, FirstEight(data)>>
    BY <1>2, <2>1
  <2>3. /\ registered[i].program = owner /\ registered[i].discriminator = FirstEight(data)
        /\ registered[i] \in Handlers
    BY <1>1, <2>2 DEF Key
  <2>4. IsPrefix(registered[i].discriminator, data)
    BY <2>1, <2>2, <2>3, KeyIsPrefix
  <2>. QED BY <1>1, <2>2, <2>3, <2>4 DEF KeyedClaimants, For
<1>. QED BY <1>3, <1>4

(* The first of a list that claims an account is the first registered.     *)
LEMMA FirstIsFound ==
  ASSUME RInv, NEW owner \in Programs, NEW data \in Accounts
  PROVE  FirstOf(ListOf(owner), data) =
            IF ListedClaimants(owner, data) = {} THEN NoHandler
            ELSE registered[Min(ListedClaimants(owner, data))]
<1> DEFINE list == ListOf(owner)
           hits == {n \in DOMAIN list : Claims(list[n], data)}
           claimants == ListedClaimants(owner, data)
<1>1. PICK at : Positions(list, owner, at)
  BY DEF RInv, ListsAreInOrder
<1>2. /\ registered \in Seq(Handlers) /\ DOMAIN registered = 1 .. Len(registered)
      /\ list \in Seq(Handlers)
  BY DEF RInv, Types, ListOf
<1>3. /\ DOMAIN list = 1 .. Len(at)
      /\ \A k \in 1 .. Len(at) :
            /\ at[k] \in 1 .. Len(registered)
            /\ registered[at[k]] = list[k]
            /\ registered[at[k]].program = owner /\ ~Keyed(registered[at[k]])
            /\ \A m \in 1 .. k - 1 : at[m] < at[k]
      /\ \A i \in 1 .. Len(registered) :
            registered[i].program = owner /\ ~Keyed(registered[i])
               => \E k \in 1 .. Len(at) : at[k] = i
      /\ Len(at) \in Nat
  BY <1>1, <1>2 DEF Positions
<1>4. ASSUME NEW n \in hits
      PROVE  n \in 1 .. Len(at) /\ at[n] \in claimants /\ registered[at[n]] = list[n]
  BY <1>2, <1>3 DEF Claims, ListedClaimants, For
<1>5. ASSUME NEW i \in claimants
      PROVE  \E n \in hits : at[n] = i
  <2>1. /\ i \in 1 .. Len(registered) /\ registered[i].program = owner /\ ~Keyed(registered[i])
        /\ IsPrefix(registered[i].discriminator, data) /\ data \in registered[i].accepts
    BY <1>2 DEF ListedClaimants, For
  <2>2. PICK n \in 1 .. Len(at) : at[n] = i
    BY <1>3, <2>1
  <2>3. Claims(list[n], data)
    BY <1>3, <2>1, <2>2 DEF Claims
  <2>. QED BY <1>3, <2>2, <2>3
<1>6. hits \in SUBSET Nat /\ claimants \in SUBSET Nat
  BY <1>2, <1>3 DEF ListedClaimants
<1>7. FirstOf(list, data) = IF hits = {} THEN NoHandler ELSE list[Min(hits)]
  BY DEF FirstOf
<1> HIDE DEF list, hits, claimants
<1>8. CASE hits = {}
  <2>1. claimants = {}
    BY <1>5, <1>8
  <2>. QED BY <1>7, <1>8, <2>1 DEF list, claimants
<1>9. CASE hits # {}
  <2>1. PICK n \in hits : n = Min(hits) /\ \A m \in hits : n <= m
    BY <1>6, <1>9, MinFacts
  <2>2. n \in 1 .. Len(at) /\ at[n] \in claimants /\ registered[at[n]] = list[n]
    BY <1>4, <2>1
  <2>3. ASSUME NEW i \in claimants PROVE at[n] <= i
    <3>1. PICK m \in hits : at[m] = i
      BY <1>5
    <3>2. m \in 1 .. Len(at) /\ n <= m
      BY <1>4, <2>1, <3>1
    <3>3. at[n] \in Nat /\ at[m] \in Nat
      BY <1>2, <1>3, <2>2, <3>2
    <3>4. CASE n = m
      BY <3>1, <3>3, <3>4
    <3>5. CASE n # m
      <4>1. n \in 1 .. m - 1
        BY <1>3, <2>2, <3>2, <3>5
      <4>2. at[n] < at[m]
        BY <1>3, <3>2, <4>1
      <4>. QED BY <3>1, <3>3, <4>2
    <3>. QED BY <3>4, <3>5
  <2>4. Min(claimants) = at[n]
    BY <1>6, <2>2, <2>3, MinIs
  <2>5. FirstOf(list, data) = registered[Min(claimants)] /\ claimants # {}
    BY <1>7, <1>9, <2>1, <2>2, <2>4
  <2>. QED BY <2>5 DEF list, claimants
<1>. QED BY <1>8, <1>9

(* Any of the keyed claimants is the one under the key, the first too.     *)
LEMMA LookupFinds ==
  ASSUME RInv
  PROVE  LookupIsFirstClaimant
<1> SUFFICES ASSUME ~panicked, NEW owner \in Programs, NEW data \in Accounts
             PROVE  LET keyed == KeyedClaimants(owner, data)
                        hits  == IF keyed # {} THEN keyed ELSE ListedClaimants(owner, data)
                    IN  Lookup(owner, data) =
                           IF hits = {} THEN NoHandler ELSE registered[Min(hits)]
  BY DEF LookupIsFirstClaimant
<1> DEFINE keyed == KeyedClaimants(owner, data)
<1>1. CASE keyed # {}
  <2>1. keyed \in SUBSET Nat
    BY DEF KeyedClaimants, RInv, Types
  <2>2. Min(keyed) \in keyed
    BY <1>1, <2>1, MinFacts
  <2>3. Lookup(owner, data) = registered[Min(keyed)]
    BY <1>1, <2>2, KeyedIsFound DEF Lookup
  <2>. QED BY <1>1, <2>3
<1>2. CASE keyed = {}
  <2>1. Lookup(owner, data) = FirstOf(ListOf(owner), data)
    BY <1>2, KeyedIsFound DEF Lookup
  <2>. QED BY <1>2, <2>1, FirstIsFound
<1>. QED BY <1>1, <1>2

(* lookup (registry.rs): however many handlers were registered, in         *)
(* whatever order, an account goes to the keyed handler of its leading     *)
(* bytes, else to the first registered one that claims it, else to none.   *)
THEOREM LookupAlwaysFirstClaimant == Spec => []LookupIsFirstClaimant
<1>1. RInv => LookupIsFirstClaimant
  BY LookupFinds
<1>. QED BY <1>1, RInvHolds, PTL

-----------------------------------------------------------------------------
(* What a later registration changes.                                      *)

(* The claimants so far keep their places; the newcomer's is behind them.  *)
LEMMA ClaimantsGrow ==
  ASSUME Types, NEW h \in Handlers, Register(h), NEW owner \in Programs, NEW data \in Accounts
  PROVE  /\ KeyedClaimants(owner, data) \subseteq KeyedClaimants(owner, data)'
         /\ ListedClaimants(owner, data) \subseteq ListedClaimants(owner, data)'
         /\ \A i \in KeyedClaimants(owner, data)' \ KeyedClaimants(owner, data) :
               i = Len(registered) + 1
         /\ \A i \in ListedClaimants(owner, data)' \ ListedClaimants(owner, data) :
               i = Len(registered) + 1
<1>1. /\ DOMAIN registered = 1 .. Len(registered)
      /\ DOMAIN registered' = 1 .. Len(registered) + 1
      /\ \A i \in 1 .. Len(registered) : registered'[i] = registered[i]
      /\ Len(registered) \in Nat
  BY RegisterFacts DEF Types
<1>2. \A i \in 1 .. Len(registered) + 1 : i \in 1 .. Len(registered) \/ i = Len(registered) + 1
  BY <1>1
<1>3. \A i \in 1 .. Len(registered) : i \in 1 .. Len(registered) + 1
  BY <1>1
<1>. QED BY <1>1, <1>2, <1>3 DEF KeyedClaimants, ListedClaimants, For, Keyed

(* The least of some positions stays the least when a later one joins.     *)
LEMMA FirstStays ==
  ASSUME NEW n \in Nat, NEW S \in SUBSET (1 .. n), S # {}, NEW T \in SUBSET (1 .. n + 1),
         S \subseteq T, \A i \in T \ S : i = n + 1
  PROVE  Min(T) = Min(S) /\ Min(S) \in S
<1>1. S \in SUBSET Nat /\ T \in SUBSET Nat
  OBVIOUS
<1>2. Min(S) \in S /\ \A i \in S : Min(S) <= i
  BY <1>1, MinFacts
<1>3. PICK m : m = Min(S)
  OBVIOUS
<1>4. ASSUME NEW i \in T PROVE m <= i
  <2>1. CASE i \in S
    BY <1>2, <1>3, <2>1
  <2>2. CASE i \notin S
    <3>1. i = n + 1 /\ m \in 1 .. n
      BY <1>2, <1>3, <2>2
    <3>. QED BY <3>1
  <2>. QED BY <2>1, <2>2
<1>5. Min(T) = m
  BY <1>1, <1>2, <1>3, <1>4, MinIs
<1>. QED BY <1>2, <1>3, <1>5

(* One registration, for one account.                                      *)
LEMMA NothingStolen ==
  ASSUME RInv, RInv', NEW h \in Handlers, Register(h), ~panicked',
         NEW owner \in Programs, NEW data \in Accounts,
         Lookup(owner, data) \notin {NoHandler, Lookup(owner, data)'}
  PROVE  Keyed(Lookup(owner, data)') /\ ~Keyed(Lookup(owner, data))
<1> DEFINE keyed  == KeyedClaimants(owner, data)
           listed == ListedClaimants(owner, data)
           keyed2 == KeyedClaimants(owner, data)'
           listed2 == ListedClaimants(owner, data)'
           n == Len(registered)
<1>1. /\ Types /\ ~panicked /\ n \in Nat
      /\ DOMAIN registered = 1 .. n /\ DOMAIN registered' = 1 .. n + 1
      /\ \A i \in 1 .. n : registered'[i] = registered[i]
  BY RegisterFacts DEF RInv, Types
<1>2. /\ keyed \in SUBSET (1 .. n) /\ keyed2 \in SUBSET (1 .. n + 1)
      /\ listed \in SUBSET (1 .. n) /\ listed2 \in SUBSET (1 .. n + 1)
      /\ \A i \in keyed2 : Keyed(registered'[i])
      /\ \A i \in listed : ~Keyed(registered[i])
  BY <1>1 DEF KeyedClaimants, ListedClaimants, Keyed
<1>3. /\ keyed \subseteq keyed2 /\ \A i \in keyed2 \ keyed : i = n + 1
      /\ listed \subseteq listed2 /\ \A i \in listed2 \ listed : i = n + 1
  BY <1>1, ClaimantsGrow
<1>4. Lookup(owner, data) =
         IF keyed # {} THEN registered[Min(keyed)]
         ELSE IF listed # {} THEN registered[Min(listed)] ELSE NoHandler
  BY <1>1, LookupFinds DEF LookupIsFirstClaimant
<1>5. Lookup(owner, data)' =
         IF keyed2 # {} THEN registered'[Min(keyed2)]
         ELSE IF listed2 # {} THEN registered'[Min(listed2)] ELSE NoHandler
  <2>1. LookupIsFirstClaimant'
    BY LookupFinds, PTL
  <2>. QED BY <2>1 DEF LookupIsFirstClaimant
<1> HIDE DEF keyed, keyed2, listed, listed2, n
<1>6. CASE keyed # {}
  <2>1. Min(keyed2) = Min(keyed) /\ Min(keyed) \in keyed
    BY <1>1, <1>2, <1>3, <1>6, FirstStays
  <2>2. keyed2 # {} /\ registered'[Min(keyed)] = registered[Min(keyed)]
    BY <1>1, <1>2, <1>3, <1>6, <2>1
  <2>. QED BY <1>4, <1>5, <1>6, <2>1, <2>2
<1>7. CASE keyed = {} /\ listed # {}
  <2>1. Min(listed2) = Min(listed) /\ Min(listed) \in listed
    BY <1>1, <1>2, <1>3, <1>7, FirstStays
  <2>2. listed2 # {} /\ registered'[Min(listed)] = registered[Min(listed)]
    BY <1>1, <1>2, <1>3, <1>7, <2>1
  <2>3. CASE keyed2 = {}
    BY <1>4, <1>5, <1>7, <2>1, <2>2, <2>3
  <2>4. CASE keyed2 # {}
    <3>1. Min(keyed2) \in keyed2
      <4>1. keyed2 \in SUBSET Nat
        BY <1>1, <1>2
      <4>. QED BY <2>4, <4>1, MinFacts
    <3>2. Lookup(owner, data)' = registered'[Min(keyed2)]
      BY <1>5, <2>4
    <3>3. Lookup(owner, data) = registered[Min(listed)]
      BY <1>4, <1>7
    <3>. QED BY <1>2, <2>1, <3>1, <3>2, <3>3 DEF Keyed
  <2>. QED BY <2>3, <2>4
<1>8. CASE keyed = {} /\ listed = {}
  BY <1>4, <1>8
<1>. QED BY <1>6, <1>7, <1>8

(* register (registry.rs): who answers for an account changes with a later *)
(* registration only from a handler of the list to a keyed one.            *)
THEOREM NeverSteals == Spec => RegistrationNeverSteals
<1>1. RInv /\ RInv' /\ [Next]_vars =>
        [~panicked' => \A owner \in Programs, data \in Accounts :
            LET before == Lookup(owner, data)
                after  == Lookup(owner, data)'
            IN  before \notin {NoHandler, after} => Keyed(after) /\ ~Keyed(before)]_vars
  BY NothingStolen DEF Next
<1>. QED BY <1>1, RInvHolds, PTL DEF Spec, RegistrationNeverSteals
=============================================================================
