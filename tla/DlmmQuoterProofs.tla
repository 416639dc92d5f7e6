-------------------------- MODULE DlmmQuoterProofs ---------------------------
(***************************************************************************)
(* What holds of DlmmQuoter for every pool, price, rate, amount and clock: *)
(* the arrays a search names, the bins a walk has taken, and what the two  *)
(* quoters make of each other's amounts.                                   *)
(***************************************************************************)
EXTENDS DlmmQuoter, TLAPS, FiniteSetTheorems, NaturalsInduction, WellFoundedInduction

-----------------------------------------------------------------------------
(* Numbers. *)

\* A nonempty set of naturals has a least element.
LEMMA LeastNatural ==
    ASSUME NEW S \in SUBSET Nat, S # {}
    PROVE  \E x \in S : \A y \in S : x <= y
<1>1. \E R : IsWellFoundedOn(R, Nat) /\ \A x, y \in Nat : y < x => <<y, x>> \in R
  <2>1. \A x, y \in Nat : y < x => <<y, x>> \in OpToRel(<, Nat)
    BY DEF OpToRel
  <2> QED
    BY <2>1, NatLessThanWellFounded, Zenon
<1>2. PICK R : IsWellFoundedOn(R, Nat) /\ \A x, y \in Nat : y < x => <<y, x>> \in R
  BY <1>1
<1>3. PICK x \in S : \A y \in S : <<y, x>> \notin R
  BY <1>2, WFMin
<1>4. ASSUME NEW y \in S
      PROVE  x <= y
  <2>1. x \in Nat /\ y \in Nat
    OBVIOUS
  <2>2. ~ (y < x)
    BY <1>2, <1>3, <2>1, Zenon
  <2> QED
    BY <2>1, <2>2
<1> QED
  BY <1>4

\* A product does not fall when a factor grows.
LEMMA TimesMonotone ==
    ASSUME NEW a \in Int, NEW b \in Int, NEW c \in Nat, a <= b
    PROVE  a * c <= b * c
<1>1. PICK d \in Nat : b = a + d
  <2>1. b - a \in Nat /\ b = a + (b - a)
    OBVIOUS
  <2> QED
    BY <2>1
<1>2. b * c = a * c + d * c
  BY <1>1
<1>3. d * c \in Nat /\ a * c \in Int
  OBVIOUS
<1> QED
  BY <1>2, <1>3

\* What a division by a positive number returns.
LEMMA DivFacts ==
    ASSUME NEW a \in Int, NEW b \in Nat \ {0}
    PROVE  /\ a \div b \in Int
           /\ a >= 0 => a \div b \in Nat
           /\ b * (a \div b) <= a
           /\ a < b * (a \div b) + b
  OBVIOUS

\* A quotient is the greatest number whose product the dividend reaches.
LEMMA DivGreatest ==
    ASSUME NEW a \in Int, NEW b \in Nat \ {0}, NEW k \in Int, k * b <= a
    PROVE  k <= a \div b
<1> DEFINE d == a \div b
<1>1. d \in Int /\ a < b * d + b
  BY DivFacts
<1> HIDE DEF d
<1>2. CASE d < k
  <2>1. (d + 1) * b <= k * b
    BY <1>1, <1>2, TimesMonotone
  <2>2. (d + 1) * b = b * d + b /\ k * b \in Int /\ b * d \in Int
    BY <1>1
  <2> QED
    BY <1>1, <2>1, <2>2
<1>3. CASE ~ (d < k)
  BY <1>1, <1>3 DEF d
<1> QED
  BY <1>2, <1>3

\* CeilDiv is the least number whose product reaches its dividend, and exceeds
\* the quotient by less than one.
LEMMA CeilFacts ==
    ASSUME NEW a \in Nat, NEW b \in Nat \ {0}
    PROVE  /\ CeilDiv(a, b) \in Nat
           /\ a <= b * CeilDiv(a, b)
           /\ b * CeilDiv(a, b) <= a + b - 1
           /\ \A k \in Nat : a <= b * k => CeilDiv(a, b) <= k
<1> DEFINE s == a + b - 1
           d == s \div b
<1>1. s \in Nat /\ d \in Nat /\ b * d <= s /\ s < b * d + b
  <2>1. s \in Nat /\ s >= 0
    OBVIOUS
  <2> QED
    BY <2>1, DivFacts
<1>2. CeilDiv(a, b) = d
  BY DEF CeilDiv
<1>3. ASSUME NEW k \in Nat, a <= b * k, k < d
      PROVE  FALSE
  <2>1. (k + 1) * b <= d * b
    BY <1>1, <1>3, TimesMonotone
  <2>2. (k + 1) * b = b * k + b /\ d * b = b * d /\ b * k \in Nat /\ b * d \in Nat
    BY <1>1
  <2> HIDE DEF d
  <2> QED
    BY <1>1, <1>3, <2>1, <2>2 DEF s
<1>4. b * d \in Nat
  BY <1>1
<1> HIDE DEF d
<1>5. a <= b * d /\ b * d <= a + b - 1
  BY <1>1, <1>4 DEF s
<1> QED
  BY <1>1, <1>2, <1>3, <1>5

\* CeilDiv does not fall when its dividend grows; of nothing it is nothing, of
\* something it is something.
LEMMA CeilMonotone ==
    ASSUME NEW b \in Nat \ {0}
    PROVE  /\ \A a, c \in Nat : a <= c => CeilDiv(a, b) <= CeilDiv(c, b)
           /\ CeilDiv(0, b) = 0
           /\ \A a \in Nat : a > 0 => CeilDiv(a, b) > 0
<1>1. ASSUME NEW a \in Nat, NEW c \in Nat, a <= c
      PROVE  CeilDiv(a, b) <= CeilDiv(c, b)
  <2>1. CeilDiv(c, b) \in Nat /\ c <= b * CeilDiv(c, b) /\ b * CeilDiv(c, b) \in Nat
    BY CeilFacts
  <2>2. a <= b * CeilDiv(c, b)
    BY <1>1, <2>1
  <2> QED
    BY <2>1, <2>2, CeilFacts
<1>2. CeilDiv(0, b) = 0
  <2>1. 0 <= b * 0
    OBVIOUS
  <2>2. CeilDiv(0, b) \in Nat /\ CeilDiv(0, b) <= 0
    BY <2>1, CeilFacts
  <2> QED
    BY <2>2
<1>3. ASSUME NEW a \in Nat, a > 0
      PROVE  CeilDiv(a, b) > 0
  <2>1. CeilDiv(a, b) \in Nat /\ a <= b * CeilDiv(a, b)
    BY CeilFacts
  <2>2. CASE CeilDiv(a, b) = 0
    <3>1. b * 0 = 0
      OBVIOUS
    <3> QED
      BY <1>3, <2>1, <2>2, <3>1
  <2> QED
    BY <2>1, <2>2
<1> QED
  BY <1>1, <1>2, <1>3

\* There and back: rounding an input up and its output down loses nothing, and
\* one unit of input less does not give the output.
LEMMA RoundTrip ==
    ASSUME NEW w \in Nat, NEW s \in Nat \ {0}, NEW p \in Nat \ {0}
    PROVE  /\ w <= (CeilDiv(w * s, p) * p) \div s
           /\ \A n \in Nat : n < CeilDiv(w * s, p) => (n * p) \div s < w
<1> DEFINE a == w * s
           c == CeilDiv(a, p)
<1>1. a \in Nat
  OBVIOUS
<1>2. c \in Nat /\ a <= p * c /\ \A k \in Nat : a <= p * k => c <= k
  <2> HIDE DEF a
  <2> QED
    BY <1>1, CeilFacts
<1> HIDE DEF c
<1>3. c * p \in Nat /\ c * p = p * c
  BY <1>2
<1>4. w * s <= c * p
  BY <1>2, <1>3
<1>5. w <= (c * p) \div s
  BY <1>3, <1>4, DivGreatest
<1>6. ASSUME NEW n \in Nat, n < c
      PROVE  (n * p) \div s < w
  <2>1. n * p \in Nat /\ n * p = p * n
    OBVIOUS
  <2>2. ~ (a <= p * n)
    BY <1>2, <1>6
  <2>3. n * p < w * s
    BY <1>1, <2>1, <2>2
  <2> DEFINE d == (n * p) \div s
  <2>4. d \in Nat /\ s * d <= n * p
    BY <2>1, DivFacts
  <2> HIDE DEF d
  <2>5. CASE w <= d
    <3>1. w * s <= d * s /\ d * s = s * d /\ s * d \in Nat
      BY <2>4, <2>5, TimesMonotone
    <3> QED
      BY <2>1, <2>3, <2>4, <3>1, <1>1
  <2>6. CASE ~ (w <= d)
    BY <2>4, <2>6 DEF d
  <2> QED
    BY <2>5, <2>6
<1> QED
  BY <1>5, <1>6 DEF c

-----------------------------------------------------------------------------
(* Fees. *)

Rates == {r \in Nat : r < FeePrecision}

\* The fee on top of an input is a natural number that grows with the input and
\* is nothing on nothing.
LEMMA FeeOnTopFacts ==
    ASSUME NEW rate \in Rates
    PROVE  /\ \A a \in Nat : FeeOnTop(rate, a) \in Nat
           /\ \A a, b \in Nat : a <= b => FeeOnTop(rate, a) <= FeeOnTop(rate, b)
           /\ FeeOnTop(rate, 0) = 0
<1>1. rate \in Nat /\ FeePrecision - rate \in Nat \ {0}
  BY FeeAssumption DEF Rates
<1>2. ASSUME NEW a \in Nat
      PROVE  a * rate \in Nat /\ FeeOnTop(rate, a) \in Nat
  <2>1. a * rate \in Nat
    BY <1>1
  <2>2. CeilDiv(a * rate, FeePrecision - rate) \in Nat
    BY <1>1, <2>1, CeilFacts
  <2> QED
    BY <2>1, <2>2 DEF FeeOnTop
<1>3. ASSUME NEW a \in Nat, NEW b \in Nat, a <= b
      PROVE  FeeOnTop(rate, a) <= FeeOnTop(rate, b)
  <2>1. a * rate <= b * rate /\ a * rate \in Nat /\ b * rate \in Nat
    BY <1>1, <1>3, TimesMonotone
  <2> QED
    BY <1>1, <2>1, CeilMonotone DEF FeeOnTop
<1>4. 0 * rate = 0
  BY <1>1
<1> QED
  BY <1>1, <1>2, <1>3, <1>4, CeilMonotone DEF FeeOnTop

\* The fee within an input is a part of it.
LEMMA FeeWithinFacts ==
    ASSUME NEW rate \in Rates, NEW amount \in Nat
    PROVE  FeeWithin(rate, amount) \in 0 .. amount
<1>1. rate \in Nat /\ FeePrecision \in Nat \ {0} /\ rate <= FeePrecision
  BY FeeAssumption DEF Rates
<1>2. amount * rate \in Nat
  BY <1>1
<1>3. amount * rate <= FeePrecision * amount
  <2>1. rate * amount <= FeePrecision * amount /\ rate * amount = amount * rate
    BY <1>1, TimesMonotone
  <2> QED
    BY <2>1
<1>4. CeilDiv(amount * rate, FeePrecision) \in Nat
  BY <1>1, <1>2, CeilFacts
<1>5. CeilDiv(amount * rate, FeePrecision) <= amount
  BY <1>1, <1>2, <1>3, CeilFacts
<1> QED
  BY <1>4, <1>5 DEF FeeWithin

\* An input with the fee put on top of it holds just that fee, and still holds it
\* when one unit is taken off.
LEMMA FeeRoundTrip ==
    ASSUME NEW rate \in Rates, NEW in \in Nat
    PROVE  /\ FeeWithin(rate, in + FeeOnTop(rate, in)) = FeeOnTop(rate, in)
           /\ in + FeeOnTop(rate, in) > 0 =>
                FeeWithin(rate, in + FeeOnTop(rate, in) - 1) >= FeeOnTop(rate, in)
<1> DEFINE F == FeePrecision
           d == F - rate
           fee == FeeOnTop(rate, in)
<1>1. rate \in Nat /\ F \in Nat \ {0} /\ d \in Nat \ {0} /\ F = d + rate
  BY FeeAssumption DEF Rates
<1>2. fee \in Nat /\ in * rate <= d * fee /\ d * fee <= in * rate + d - 1
  <2>1. in * rate \in Nat /\ fee = CeilDiv(in * rate, d)
    BY <1>1 DEF FeeOnTop
  <2> HIDE DEF d, fee
  <2> QED
    BY <1>1, <2>1, CeilFacts
<1> HIDE DEF F, d, fee
<1>3. F * fee = d * fee + rate * fee /\ d * fee \in Nat /\ rate * fee \in Nat
  BY <1>1, <1>2
<1>4. (in + fee) * rate = in * rate + rate * fee /\ in * rate \in Nat
  BY <1>1, <1>2
\* (in + fee) * rate <= F * fee, but (in + fee - 1) * rate > F * (fee - 1)
<1>5. (in + fee) * rate <= F * fee
  BY <1>2, <1>3, <1>4
<1>6. ASSUME NEW a \in Nat, a >= in + fee - 1, a <= in + fee, NEW k \in Nat, a * rate <= F * k
      PROVE  fee <= k
  <2>1. CASE fee <= k
    BY <2>1
  <2>2. CASE ~ (fee <= k)
    <3>1. k + 1 <= fee
      BY <1>2, <2>2
    <3>2. (k + 1) * F <= fee * F
      BY <1>1, <1>2, <3>1, TimesMonotone
    <3>3. F * k + F <= F * fee
      BY <1>1, <1>2, <3>2
    <3>4. (in + fee - 1) * rate <= a * rate
      BY <1>1, <1>2, <1>6, TimesMonotone
    <3>5. (in + fee - 1) * rate = in * rate + rate * fee - rate
      BY <1>1, <1>2
    <3>6. F * k \in Nat /\ F * fee \in Nat /\ a * rate \in Nat
      BY <1>1, <1>2
    <3> QED
      BY <1>1, <1>2, <1>3, <1>4, <1>6, <3>3, <3>4, <3>5, <3>6
  <2> QED
    BY <2>1, <2>2
<1>7. ASSUME NEW a \in Nat, a >= in + fee - 1, a <= in + fee
      PROVE  FeeWithin(rate, a) \in Nat /\ fee <= FeeWithin(rate, a)
  <2>1. a * rate \in Nat
    BY <1>1
  <2>2. CeilDiv(a * rate, F) \in Nat /\ a * rate <= F * CeilDiv(a * rate, F)
    BY <1>1, <2>1, CeilFacts
  <2> QED
    BY <1>6, <1>7, <2>2 DEF FeeWithin, F
<1>8. FeeWithin(rate, in + fee) <= fee
  <2>1. (in + fee) * rate \in Nat
    BY <1>1, <1>2
  <2> QED
    BY <1>1, <1>2, <1>5, <2>1, CeilFacts DEF FeeWithin, F
<1>9. FeeWithin(rate, in + fee) = fee
  BY <1>2, <1>7, <1>8
<1>10. in + fee > 0 => FeeWithin(rate, in + fee - 1) >= fee
  BY <1>2, <1>7
<1> QED
  BY <1>9, <1>10 DEF fee

\* The rate of a bin is below the whole, whatever the volatility.
LEMMA RateFacts ==
    ASSUME NEW p \in Pools, NEW vacc \in Nat
    PROVE  TotalFeeRate(p, vacc) \in Rates
<1> DEFINE base     == p.baseFactor * p.binStep * BaseFeeUnit * 10 ^ p.feePower
           travel   == vacc * p.binStep
           square   == p.variableFeeControl * travel * travel
           variable == CeilDiv(square, VariableUnit)
<1>1. /\ p.baseFactor \in Nat /\ p.binStep \in Nat /\ BaseFeeUnit \in Nat
      /\ 10 ^ p.feePower \in Nat /\ p.variableFeeControl \in Nat
  BY SnapshotAssumption
<1>2. base \in Nat
  <2> DEFINE power == 10 ^ p.feePower
  <2> HIDE DEF power
  <2>1. power \in Nat
    BY <1>1 DEF power
  <2>2. p.baseFactor * p.binStep \in Nat
    BY <1>1
  <2>3. p.baseFactor * p.binStep * BaseFeeUnit \in Nat
    BY <1>1, <2>2
  <2>4. p.baseFactor * p.binStep * BaseFeeUnit * power \in Nat
    BY <2>1, <2>3
  <2> QED
    BY <2>4 DEF power
<1>3. square \in Nat
  <2>1. travel \in Nat
    BY <1>1
  <2> HIDE DEF travel
  <2>2. p.variableFeeControl * travel \in Nat
    BY <1>1, <2>1
  <2> QED
    BY <2>1, <2>2
<1> HIDE DEF square
<1>4. variable \in Nat
  BY <1>3, FeeAssumption, CeilFacts
<1>5. TotalFeeRate(p, vacc) = IF base + variable > MaxFeeRate THEN MaxFeeRate ELSE base + variable
  BY DEF TotalFeeRate, square
<1> HIDE DEF base, variable
<1> QED
  BY <1>2, <1>4, <1>5, FeeAssumption DEF Rates

-----------------------------------------------------------------------------
(* What a bin gives and takes. *)

BinIds == MinBinId .. MaxBinId

\* What Min is of two numbers.
LEMMA MinOfTwo ==
    ASSUME NEW a \in Int, NEW b \in Int
    PROVE  Min({a, b}) = IF a <= b THEN a ELSE b
<1> DEFINE m == IF a <= b THEN a ELSE b
<1>1. m \in {a, b} /\ \A y \in {a, b} : m <= y
  OBVIOUS
<1>2. \A x \in {a, b} : (\A y \in {a, b} : x <= y) => x = m
  OBVIOUS
<1> HIDE DEF m
<1>3. Min({a, b}) \in {a, b} /\ \A y \in {a, b} : Min({a, b}) <= y
  BY <1>1 DEF Min
<1>4. Min({a, b}) = m
  BY <1>2, <1>3
<1> QED
  BY <1>4 DEF m

\* Inputs and outputs at a price are natural; an input grows with its output,
\* buys it, and is the least that does.
LEMMA PriceFacts ==
    ASSUME NEW price \in Nat \ {0}, NEW forY \in BOOLEAN
    PROVE  /\ \A a \in Nat : InputFor(a, price, forY) \in Nat /\ OutputFor(a, price, forY) \in Nat
           /\ \A a, b \in Nat : a <= b => InputFor(a, price, forY) <= InputFor(b, price, forY)
           /\ InputFor(0, price, forY) = 0
           /\ \A a \in Nat : a > 0 => InputFor(a, price, forY) > 0
           /\ \A w \in Nat : w <= OutputFor(InputFor(w, price, forY), price, forY)
           /\ \A w, n \in Nat : n < InputFor(w, price, forY) => OutputFor(n, price, forY) < w
<1>1. PICK s \in Nat \ {0}, p \in Nat \ {0} :
          \A a : /\ InputFor(a, price, forY) = CeilDiv(a * s, p)
                 /\ OutputFor(a, price, forY) = (a * p) \div s
  <2>0. PriceScale \in Nat \ {0}
    BY FeeAssumption
  <2>1. CASE forY
    BY <2>0, <2>1 DEF InputFor, OutputFor
  <2>2. CASE ~forY
    BY <2>0, <2>2 DEF InputFor, OutputFor
  <2> QED
    BY <2>1, <2>2
<1>2. ASSUME NEW a \in Nat
      PROVE  /\ InputFor(a, price, forY) \in Nat /\ OutputFor(a, price, forY) \in Nat
             /\ a > 0 => InputFor(a, price, forY) > 0
             /\ a <= OutputFor(InputFor(a, price, forY), price, forY)
             /\ \A n \in Nat : n < InputFor(a, price, forY) => OutputFor(n, price, forY) < a
  <2>1. a * s \in Nat /\ a * p \in Nat /\ (a > 0 => a * s > 0)
    <3>1. a > 0 => 1 * s <= a * s
      BY TimesMonotone
    <3> QED
      BY <3>1
  <2>2. CeilDiv(a * s, p) \in Nat /\ (a * p) \div s \in Nat
    <3>1. ASSUME NEW x \in Nat PROVE x \div s \in Nat
      BY DivFacts
    <3> QED
      BY <2>1, <3>1, CeilFacts
  <2>3. a * s > 0 => CeilDiv(a * s, p) > 0
    BY <2>1, CeilMonotone
  <2>4. /\ a <= (CeilDiv(a * s, p) * p) \div s
        /\ \A n \in Nat : n < CeilDiv(a * s, p) => (n * p) \div s < a
    BY RoundTrip
  <2> QED
    BY <1>1, <2>1, <2>2, <2>3, <2>4
<1>3. ASSUME NEW a \in Nat, NEW b \in Nat, a <= b
      PROVE  InputFor(a, price, forY) <= InputFor(b, price, forY)
  <2>1. a * s <= b * s /\ a * s \in Nat /\ b * s \in Nat
    BY <1>3, TimesMonotone
  <2> QED
    BY <1>1, <2>1, CeilMonotone
<1>4. InputFor(0, price, forY) = 0
  <2>1. 0 * s = 0
    OBVIOUS
  <2> QED
    BY <1>1, <2>1, CeilMonotone
<1> QED
  BY <1>2, <1>3, <1>4

\* What a reserve is, and the price it is sold at.
LEMMA ReserveFacts ==
    ASSUME NEW p \in Pools, NEW bin \in BinIds, NEW forY \in BOOLEAN
    PROVE  Reserve(p, bin, forY) \in Nat /\ Price[bin] \in Nat \ {0}
  BY SnapshotAssumption, BinAssumption DEF Reserve, BinIds

\* An exact-in swap of one bin empties it or spends all that is left.
LEMMA BinSwapFacts ==
    ASSUME NEW p \in Pools, NEW bin \in BinIds, NEW amount \in Nat, NEW rate \in Rates,
           NEW forY \in BOOLEAN, BinSwap(p, bin, amount, rate, forY).ok,
           NEW most, most = Reserve(p, bin, forY),
           NEW maxIn, maxIn = InputFor(most, Price[bin], forY),
           NEW maxFee, maxFee = FeeOnTop(rate, maxIn),
           NEW fee, fee = FeeWithin(rate, amount),
           NEW swap, swap = BinSwap(p, bin, amount, rate, forY)
    PROVE  /\ most \in Nat /\ maxIn \in Nat /\ maxFee \in Nat /\ fee \in 0 .. amount
           /\ amount > maxIn + maxFee =>
                swap.in = maxIn + maxFee /\ swap.out = most /\ swap.fee = maxFee
           /\ ~(amount > maxIn + maxFee) =>
                /\ swap.in = amount /\ swap.fee = fee
                /\ swap.out \in 0 .. most
                /\ \A w \in 0 .. most :
                     /\ w <= OutputFor(amount - fee, Price[bin], forY) => w <= swap.out
                     /\ OutputFor(amount - fee, Price[bin], forY) < w => swap.out < w
<1> DEFINE out == OutputFor(amount - fee, Price[bin], forY)
<1>1. /\ most \in Nat /\ maxIn \in Nat /\ maxFee \in Nat
  BY ReserveFacts, PriceFacts, FeeOnTopFacts
<1>2. fee \in 0 .. amount /\ amount - fee \in Nat
  BY FeeWithinFacts
<1>3. out \in Nat
  BY <1>2, ReserveFacts, PriceFacts
<1>4. CASE amount > maxIn + maxFee
  <2>1. swap = [ok |-> TRUE, in |-> maxIn + maxFee, out |-> most, fee |-> maxFee]
    BY <1>4 DEF BinSwap, BinError
  <2> QED
    BY <1>1, <1>2, <1>4, <2>1
<1>5. CASE ~(amount > maxIn + maxFee)
  <2>1. swap = [ok |-> TRUE, in |-> amount, out |-> Min({out, most}), fee |-> fee]
    BY <1>5 DEF BinSwap, BinError
  <2> HIDE DEF out
  <2>2. Min({out, most}) = IF out <= most THEN out ELSE most
    BY <1>1, <1>3, MinOfTwo
  <2>3. swap.in = amount /\ swap.fee = fee /\ swap.out = IF out <= most THEN out ELSE most
    BY <2>1, <2>2
  <2>4. swap.out \in 0 .. most
    BY <1>1, <1>3, <2>3
  <2>5. \A w \in 0 .. most : (w <= out => w <= swap.out) /\ (out < w => swap.out < w)
    BY <1>1, <1>3, <2>3
  <2> QED
    BY <1>1, <1>2, <1>5, <2>3, <2>4, <2>5 DEF out
<1> QED
  BY <1>4, <1>5

\* A bin asked for an output gives what it holds of it, at the least input.
LEMMA BinSwapOutFacts ==
    ASSUME NEW p \in Pools, NEW bin \in BinIds, NEW want \in Nat, NEW rate \in Rates,
           NEW forY \in BOOLEAN, BinSwapOut(p, bin, want, rate, forY).ok,
           NEW most, most = Reserve(p, bin, forY),
           NEW swap, swap = BinSwapOut(p, bin, want, rate, forY)
    PROVE  /\ swap.out = IF want <= most THEN want ELSE most
           /\ swap.in = InputFor(swap.out, Price[bin], forY)
           /\ swap.fee = FeeOnTop(rate, swap.in)
<1> DEFINE out == Min({want, most})
           in  == InputFor(out, Price[bin], forY)
           fee == FeeOnTop(rate, in)
<1>1. swap = [ok |-> TRUE, in |-> in, out |-> out, fee |-> fee]
  BY DEF BinSwapOut, BinError
<1>2. out = IF want <= most THEN want ELSE most
  BY ReserveFacts, MinOfTwo
<1> QED
  BY <1>1, <1>2

-----------------------------------------------------------------------------
(* Sums along the way. *)

AreSums(sum, seq, n) ==
    sum = [m \in 0 .. n |-> IF m = 0 THEN 0 ELSE sum[m - 1] + seq[m]]

\* There are sums: the recursion counts down to nothing.
LEMMA SumsExist ==
    ASSUME NEW seq, NEW n \in Nat
    PROVE  \E sum : AreSums(sum, seq, n)
<1> DEFINE Bad == {m \in Nat : ~\E sum : AreSums(sum, seq, m)}
<1>1. SUFFICES ASSUME Bad # {} PROVE FALSE
  OBVIOUS
<1>2. PICK m \in Bad : \A k \in Bad : m <= k
  <2>1. Bad \in SUBSET Nat
    OBVIOUS
  <2> HIDE DEF Bad
  <2> QED
    BY <1>1, <2>1, LeastNatural
<1>3. m \in Nat /\ (~\E sum : AreSums(sum, seq, m))
  BY <1>2
<1>4. CASE m = 0
  <2> DEFINE f == [k \in 0 .. m |-> 0]
  <2>1. f = [k \in 0 .. m |-> IF k = 0 THEN 0 ELSE f[k - 1] + seq[k]]
    <3>1. \A k \in 0 .. m : k = 0
      BY <1>4
    <3> QED
      BY <3>1
  <2> HIDE DEF f
  <2>2. AreSums(f, seq, m)
    BY <2>1 DEF AreSums
  <2> QED
    BY <1>3, <2>2
<1>5. CASE m # 0
  <2>1. m - 1 \in Nat /\ m - 1 < m
    BY <1>3, <1>5
  <2>2. m - 1 \notin Bad
    BY <1>2, <2>1
  <2>3. PICK f : AreSums(f, seq, m - 1)
    BY <2>1, <2>2
  <2> DEFINE g == [k \in 0 .. m |-> IF k = m THEN f[m - 1] + seq[m] ELSE f[k]]
  <2>4. ASSUME NEW k \in 0 .. m
        PROVE  g[k] = IF k = 0 THEN 0 ELSE g[k - 1] + seq[k]
    <3>1. CASE k = m
      <4>1. g[m] = f[m - 1] + seq[m] /\ g[m - 1] = f[m - 1]
        BY <2>1
      <4> HIDE DEF g
      <4> QED
        BY <1>5, <3>1, <4>1
    <3>2. CASE k # m
      <4>1. k \in 0 .. m - 1 /\ g[k] = f[k]
        BY <2>1, <3>2
      <4>2. f[k] = IF k = 0 THEN 0 ELSE f[k - 1] + seq[k]
        BY <2>3, <4>1 DEF AreSums
      <4>3. k # 0 => g[k - 1] = f[k - 1]
        BY <2>1, <4>1
      <4> HIDE DEF g
      <4> QED
        BY <4>1, <4>2, <4>3
    <3> QED
      BY <3>1, <3>2
  <2>5. g = [k \in 0 .. m |-> g[k]]
    OBVIOUS
  <2> HIDE DEF g
  <2>6. g = [k \in 0 .. m |-> IF k = 0 THEN 0 ELSE g[k - 1] + seq[k]]
    BY <2>4, <2>5
  <2>7. AreSums(g, seq, m)
    BY <2>6 DEF AreSums
  <2> QED
    BY <1>3, <2>7
<1> QED
  BY <1>4, <1>5

\* The sum of the first members is the one before and the next member.
LEMMA SumsFacts ==
    ASSUME NEW n \in Nat, NEW seq \in [1 .. n -> Nat]
    PROVE  /\ \A m \in 0 .. n : Sums(seq)[m] \in Nat
           /\ Sums(seq)[0] = 0
           /\ \A m \in 1 .. n : Sums(seq)[m] = Sums(seq)[m - 1] + seq[m]
           /\ \A l, m \in 0 .. n : l <= m => Sums(seq)[l] <= Sums(seq)[m]
<1>1. Len(seq) = n
  <2>1. seq \in Seq(Nat) /\ DOMAIN seq = 1 .. n
    OBVIOUS
  <2> QED
    BY <2>1
<1> DEFINE sum == Sums(seq)
<1>2. AreSums(sum, seq, n)
  <2>1. sum = CHOOSE s : AreSums(s, seq, n)
    BY <1>1 DEF Sums, AreSums
  <2> HIDE DEF sum
  <2> QED
    BY <2>1, SumsExist
<1> HIDE DEF sum
<1>3. \A m \in 0 .. n : sum[m] = IF m = 0 THEN 0 ELSE sum[m - 1] + seq[m]
  BY <1>2 DEF AreSums
<1>4. sum[0] = 0 /\ \A m \in 1 .. n : sum[m] = sum[m - 1] + seq[m]
  BY <1>3
<1>5. ASSUME NEW l \in 0 .. n
      PROVE  \A m \in 0 .. n : sum[m] \in Nat /\ (l <= m => sum[l] <= sum[m])
  <2> DEFINE Good(m) == sum[m] \in Nat /\ (l <= m => sum[l] <= sum[m])
             Bad     == {m \in 0 .. n : ~Good(m)}
  <2>1. SUFFICES ASSUME Bad # {} PROVE FALSE
    OBVIOUS
  <2>2. PICK m \in Bad : \A k \in Bad : m <= k
    <3>1. Bad \in SUBSET Nat
      OBVIOUS
    <3> HIDE DEF Bad
    <3> QED
      BY <2>1, <3>1, LeastNatural
  <2>3. m \in 0 .. n /\ ~Good(m)
    BY <2>2
  <2>4. CASE m = 0
    <3>1. l <= m => l = m
      BY <2>4
    <3> QED
      BY <1>4, <2>3, <2>4, <3>1
  <2>5. CASE m # 0
    <3>1. m - 1 \in 0 .. n /\ m \in 1 .. n /\ m - 1 < m
      BY <2>3, <2>5
    <3>2. m - 1 \notin Bad
      BY <2>2, <3>1
    <3>3. Good(m - 1)
      BY <3>1, <3>2
    <3>4. sum[m] = sum[m - 1] + seq[m] /\ seq[m] \in Nat
      BY <1>4, <3>1
    <3>5. sum[m] \in Nat /\ sum[m - 1] <= sum[m]
      <4>1. ASSUME NEW x \in Nat, NEW y \in Nat PROVE x + y \in Nat /\ x <= x + y
        OBVIOUS
      <4>2. sum[m - 1] \in Nat
        BY <3>3
      <4> QED
        BY <3>4, <4>1, <4>2
    <3>6. ASSUME l <= m PROVE sum[l] <= sum[m]
      <4>1. l <= m - 1 \/ l = m
        BY <3>1, <3>6
      <4>2. CASE l <= m - 1
        <5>1. l \in 0 .. m - 1 /\ sum[l] <= sum[m - 1]
          BY <3>3, <4>2
        <5>2. sum[l] \in Nat
          <6>1. l \in Nat /\ l < m /\ l \in 0 .. n
            BY <3>1, <4>2
          <6>2. l \notin Bad
            BY <2>2, <3>1, <6>1
          <6> QED
            BY <6>1, <6>2
        <5> QED
          BY <3>3, <3>5, <5>1, <5>2
      <4>3. CASE l = m
        BY <3>5, <4>3
      <4> QED
        BY <4>1, <4>2, <4>3
    <3> QED
      BY <2>3, <3>5, <3>6
  <2> QED
    BY <2>4, <2>5
<1> QED
  BY <1>4, <1>5 DEF sum

Steps(p, forY) == IF forY THEN p.active - MinBinId + 1 ELSE MaxBinId - p.active + 1

\* The way leads through the bins that exist, one at a time.
LEMMA WayFacts ==
    ASSUME NEW p \in Pools, NEW forY \in BOOLEAN
    PROVE  /\ Steps(p, forY) \in Nat \ {0}
           /\ Way(p, forY) \in [1 .. Steps(p, forY) -> BinIds]
           /\ \A n \in 1 .. Steps(p, forY) :
                Way(p, forY)[n] = IF forY THEN p.active - n + 1 ELSE p.active + n - 1
<1>1. p.active \in Int /\ MinBinId <= p.active /\ p.active <= MaxBinId
      /\ MinBinId \in Int /\ MaxBinId \in Int
  BY SnapshotAssumption, BinAssumption
<1>2. CASE forY
  <2> DEFINE N == p.active - MinBinId + 1
             w == [n \in 1 .. N |-> p.active - n + 1]
  <2>1. Steps(p, forY) = N /\ Way(p, forY) = w
    BY <1>2 DEF Steps, Way
  <2>2. N \in Nat \ {0} /\ \A n \in 1 .. N : p.active - n + 1 \in BinIds
    BY <1>1 DEF BinIds
  <2> HIDE DEF N
  <2> QED
    BY <1>2, <2>1, <2>2
<1>3. CASE ~forY
  <2> DEFINE N == MaxBinId - p.active + 1
             w == [n \in 1 .. N |-> p.active + n - 1]
  <2>1. Steps(p, forY) = N /\ Way(p, forY) = w
    BY <1>3 DEF Steps, Way
  <2>2. N \in Nat \ {0} /\ \A n \in 1 .. N : p.active + n - 1 \in BinIds
    BY <1>1 DEF BinIds
  <2> HIDE DEF N
  <2> QED
    BY <1>3, <2>1, <2>2
<1> QED
  BY <1>2, <1>3

Refs(p, t) == UpdateReferences(p, t)

\* What a bin holds; the rate at a time t; the input for an output, and its fee.
Most(p, forY, b)        == Reserve(p, b, forY)
RateOf(p, t, b)         == TotalFeeRate(p, Volatility(p, Refs(p, t).iref, Refs(p, t).vref, b))
In(forY, b, w)          == InputFor(w, Price[b], forY)
FeeFor(p, forY, t, b, w) == FeeOnTop(RateOf(p, t, b), In(forY, b, w))

\* The same, summed over the first bins of the way.
Held(p, forY) ==
    Sums([n \in DOMAIN Way(p, forY) |-> Most(p, forY, Way(p, forY)[n])])
Ins(p, forY) ==
    Sums([n \in DOMAIN Way(p, forY) |->
            In(forY, Way(p, forY)[n], Most(p, forY, Way(p, forY)[n]))])
Fees(p, forY, t) ==
    Sums([n \in DOMAIN Way(p, forY) |->
            FeeFor(p, forY, t, Way(p, forY)[n], Most(p, forY, Way(p, forY)[n]))])

\* The references a quote works with are an index and an accumulator.
LEMMA RefsFacts ==
    ASSUME NEW p \in Pools, NEW t
    PROVE  Refs(p, t).iref \in Int /\ Refs(p, t).vref \in Nat
<1>1. /\ p.iref \in Int /\ p.active \in Int /\ p.vref \in Nat /\ p.vacc \in Nat
      /\ p.reduction \in Nat /\ BasisPointMax \in Nat \ {0}
  BY SnapshotAssumption, FeeAssumption
<1>2. p.vacc * p.reduction \in Nat
  BY <1>1
<1>3. (p.vacc * p.reduction) \div BasisPointMax \in Nat
  <2> DEFINE a == p.vacc * p.reduction
  <2> HIDE DEF a
  <2>1. a \in Int /\ a >= 0
    BY <1>2 DEF a
  <2>2. a \div BasisPointMax \in Nat
    BY <1>1, <2>1, DivFacts
  <2> QED
    BY <2>2 DEF a
<1>4. \/ Refs(p, t) = [iref |-> p.iref, vref |-> p.vref]
      \/ Refs(p, t) = [iref |-> p.active, vref |-> (p.vacc * p.reduction) \div BasisPointMax]
      \/ Refs(p, t) = [iref |-> p.active, vref |-> 0]
  <2> DEFINE elapsed == t - p.lastUpdate
  <2>1. CASE elapsed < p.filterPeriod
    BY <2>1 DEF Refs, UpdateReferences
  <2>2. CASE ~(elapsed < p.filterPeriod) /\ elapsed >= p.filterPeriod /\ elapsed < p.decayPeriod
    BY <2>2 DEF Refs, UpdateReferences
  <2>3. CASE ~(elapsed < p.filterPeriod) /\ ~(elapsed >= p.filterPeriod /\ elapsed < p.decayPeriod)
    BY <2>3 DEF Refs, UpdateReferences
  <2> QED
    BY <2>1, <2>2, <2>3
<1> QED
  BY <1>1, <1>3, <1>4

\* The accumulator at a bin is natural, and so its rate is below the whole.
LEMMA BinRateFacts ==
    ASSUME NEW p \in Pools, NEW t, NEW b \in BinIds
    PROVE  /\ Volatility(p, Refs(p, t).iref, Refs(p, t).vref, b) \in Nat
           /\ RateOf(p, t, b) \in Rates
<1> DEFINE iref == Refs(p, t).iref
           vref == Refs(p, t).vref
           distance == IF iref > b THEN iref - b ELSE b - iref
           reached  == vref + distance * BasisPointMax
<1>1. iref \in Int /\ vref \in Nat /\ b \in Int /\ BasisPointMax \in Nat /\ p.maxVolatility \in Nat
  BY RefsFacts, FeeAssumption, SnapshotAssumption, BinAssumption DEF BinIds
<1> HIDE DEF iref, vref
<1>2. distance \in Nat
  BY <1>1
<1> HIDE DEF distance
<1>3. reached \in Nat
  BY <1>1, <1>2
<1>4. Volatility(p, iref, vref, b) = Min({reached, p.maxVolatility})
  BY DEF Volatility, distance
<1> HIDE DEF reached
<1>5. Volatility(p, iref, vref, b) \in Nat
  BY <1>1, <1>3, <1>4, MinOfTwo
<1> QED
  BY <1>5, RateFacts DEF RateOf, iref, vref

\* What a bin costs is natural; a part of its reserve costs no more than all,
\* nothing costs nothing and something something.
LEMMA CostFacts ==
    ASSUME NEW p \in Pools, NEW forY \in BOOLEAN, NEW t, NEW b \in BinIds
    PROVE  /\ Most(p, forY, b) \in Nat
           /\ \A w \in Nat : In(forY, b, w) \in Nat /\ FeeFor(p, forY, t, b, w) \in Nat
           /\ \A v, w \in Nat : v <= w =>
                /\ In(forY, b, v) <= In(forY, b, w)
                /\ FeeFor(p, forY, t, b, v) <= FeeFor(p, forY, t, b, w)
           /\ In(forY, b, 0) = 0 /\ FeeFor(p, forY, t, b, 0) = 0
           /\ \A w \in Nat : w > 0 => In(forY, b, w) > 0
<1>1. Most(p, forY, b) \in Nat /\ Price[b] \in Nat \ {0} /\ RateOf(p, t, b) \in Rates
  BY ReserveFacts, BinRateFacts DEF Most
<1>2. ASSUME NEW w \in Nat
      PROVE  In(forY, b, w) \in Nat /\ (w > 0 => In(forY, b, w) > 0)
  BY <1>1, PriceFacts DEF In
<1>3. In(forY, b, 0) = 0 /\ \A v, w \in Nat : v <= w => In(forY, b, v) <= In(forY, b, w)
  BY <1>1, PriceFacts DEF In
<1>4. ASSUME NEW w \in Nat
      PROVE  FeeFor(p, forY, t, b, w) \in Nat
  BY <1>1, <1>2, FeeOnTopFacts DEF FeeFor
<1>5. ASSUME NEW v \in Nat, NEW w \in Nat, v <= w
      PROVE  FeeFor(p, forY, t, b, v) <= FeeFor(p, forY, t, b, w)
  BY <1>1, <1>2, <1>3, <1>5, FeeOnTopFacts DEF FeeFor
<1>6. FeeFor(p, forY, t, b, 0) = 0
  BY <1>1, <1>3, FeeOnTopFacts DEF FeeFor
<1> QED
  BY <1>1, <1>2, <1>3, <1>4, <1>5, <1>6

\* The sums are natural, grow, and grow at each bin by what the bin has or costs.
LEMMA WaySums ==
    ASSUME NEW p \in Pools, NEW forY \in BOOLEAN, NEW t
    PROVE  /\ \A m \in 0 .. Steps(p, forY) : /\ Held(p, forY)[m] \in Nat
                                             /\ Ins(p, forY)[m] \in Nat
                                             /\ Fees(p, forY, t)[m] \in Nat
           /\ Held(p, forY)[0] = 0 /\ Ins(p, forY)[0] = 0 /\ Fees(p, forY, t)[0] = 0
           /\ \A m \in 1 .. Steps(p, forY), b \in BinIds : b = Way(p, forY)[m] =>
                /\ Held(p, forY)[m] = Held(p, forY)[m - 1] + Most(p, forY, b)
                /\ Ins(p, forY)[m] = Ins(p, forY)[m - 1] + In(forY, b, Most(p, forY, b))
                /\ Fees(p, forY, t)[m] = Fees(p, forY, t)[m - 1]
                                            + FeeFor(p, forY, t, b, Most(p, forY, b))
           /\ \A l, m \in 0 .. Steps(p, forY) : l <= m =>
                /\ Held(p, forY)[l] <= Held(p, forY)[m]
                /\ Ins(p, forY)[l] <= Ins(p, forY)[m]
                /\ Fees(p, forY, t)[l] <= Fees(p, forY, t)[m]
<1> DEFINE N == Steps(p, forY)
           way == Way(p, forY)
           h == [n \in 1 .. N |-> Most(p, forY, way[n])]
           i == [n \in 1 .. N |-> In(forY, way[n], Most(p, forY, way[n]))]
           f == [n \in 1 .. N |-> FeeFor(p, forY, t, way[n], Most(p, forY, way[n]))]
<1>1. N \in Nat /\ DOMAIN way = 1 .. N /\ \A n \in 1 .. N : way[n] \in BinIds
  BY WayFacts
<1>2. Held(p, forY) = Sums(h) /\ Ins(p, forY) = Sums(i) /\ Fees(p, forY, t) = Sums(f)
  BY <1>1 DEF Held, Ins, Fees
<1> HIDE DEF N, way
<1>3. h \in [1 .. N -> Nat] /\ i \in [1 .. N -> Nat] /\ f \in [1 .. N -> Nat]
  BY <1>1, CostFacts
<1>4. \A n \in 1 .. N, b \in BinIds : b = way[n] =>
         /\ h[n] = Most(p, forY, b) /\ i[n] = In(forY, b, Most(p, forY, b))
         /\ f[n] = FeeFor(p, forY, t, b, Most(p, forY, b))
  BY <1>1
<1> HIDE DEF h, i, f
<1>5. /\ \A m \in 0 .. N : Sums(h)[m] \in Nat
      /\ Sums(h)[0] = 0
      /\ \A m \in 1 .. N : Sums(h)[m] = Sums(h)[m - 1] + h[m]
      /\ \A l, m \in 0 .. N : l <= m => Sums(h)[l] <= Sums(h)[m]
  BY <1>1, <1>3, SumsFacts
<1>6. /\ \A m \in 0 .. N : Sums(i)[m] \in Nat
      /\ Sums(i)[0] = 0
      /\ \A m \in 1 .. N : Sums(i)[m] = Sums(i)[m - 1] + i[m]
      /\ \A l, m \in 0 .. N : l <= m => Sums(i)[l] <= Sums(i)[m]
  BY <1>1, <1>3, SumsFacts
<1>7. /\ \A m \in 0 .. N : Sums(f)[m] \in Nat
      /\ Sums(f)[0] = 0
      /\ \A m \in 1 .. N : Sums(f)[m] = Sums(f)[m - 1] + f[m]
      /\ \A l, m \in 0 .. N : l <= m => Sums(f)[l] <= Sums(f)[m]
  BY <1>1, <1>3, SumsFacts
<1> QED
  BY <1>2, <1>4, <1>5, <1>6, <1>7 DEF N, way

-----------------------------------------------------------------------------
(* The arrays a search names. *)

\* Min and Max of a nonempty set of integers between two bounds.
LEMMA BoundedFacts ==
    ASSUME NEW lo \in Int, NEW hi \in Int, NEW S \in SUBSET (lo .. hi), S # {}
    PROVE  /\ Min(S) \in S /\ \A y \in S : Min(S) <= y
           /\ Max(S) \in S /\ \A y \in S : y <= Max(S)
<1>0. \A y \in S : y \in Int /\ y - lo \in Nat /\ hi - y \in Nat
  <2>1. \A y \in lo .. hi : y \in Int /\ y - lo \in Nat /\ hi - y \in Nat
    OBVIOUS
  <2> QED
    BY <2>1
<1>1. PICK x \in S : \A y \in S : x <= y
  <2> DEFINE D == {y - lo : y \in S}
  <2>1. D \in SUBSET Nat /\ D # {}
    BY <1>0
  <2>2. PICK d \in D : \A e \in D : d <= e
    <3> HIDE DEF D
    <3> QED
      BY <2>1, LeastNatural
  <2>3. PICK x \in S : d = x - lo
    BY <2>2
  <2>4. ASSUME NEW y \in S PROVE x <= y
    <3>1. x - lo <= y - lo /\ x \in Int /\ y \in Int
      BY <1>0, <2>2, <2>3
    <3> QED
      BY <3>1
  <2> QED
    BY <2>4
<1>2. PICK z \in S : \A y \in S : y <= z
  <2> DEFINE D == {hi - y : y \in S}
  <2>1. D \in SUBSET Nat /\ D # {}
    BY <1>0
  <2>2. PICK d \in D : \A e \in D : d <= e
    <3> HIDE DEF D
    <3> QED
      BY <2>1, LeastNatural
  <2>3. PICK z \in S : d = hi - z
    BY <2>2
  <2>4. ASSUME NEW y \in S PROVE y <= z
    <3>1. hi - z <= hi - y /\ z \in Int /\ y \in Int
      BY <1>0, <2>2, <2>3
    <3> QED
      BY <3>1
  <2> QED
    BY <2>4
<1>3. Min(S) \in S /\ \A y \in S : Min(S) <= y
  BY <1>1 DEF Min
<1>4. Max(S) \in S /\ \A y \in S : Max(S) >= y
  <2>1. \E m \in S : \A y \in S : m >= y
    <3>1. \A y \in S : z \in Int /\ y \in Int
      BY <1>0, <1>2
    <3> QED
      BY <1>2, <3>1
  <2> QED
    BY <2>1 DEF Max
<1>5. \A y \in S : y \in Int /\ Max(S) \in Int
  BY <1>0, <1>4
<1> HIDE DEF Max
<1> QED
  BY <1>3, <1>4, <1>5

\* The bitmaps reach beyond the word on both sides, and hold the flags of a pool
\* with an array to spare.
LEMMA BitmapFacts ==
    /\ BitmapSize \in Nat \ {0} /\ ExtensionMin \in Int /\ ExtensionMax \in Int
    /\ ExtensionMin + 1 <= -BitmapSize - 1 /\ BitmapSize <= ExtensionMax
    /\ \A i \in Int : i \in Inline <=> -BitmapSize <= i /\ i < BitmapSize
    /\ \A p \in Pools :
          /\ p.flagged \subseteq ExtensionMin + 2 .. ExtensionMax - 1
          /\ p.extension \in BOOLEAN
<1>1. BitmapSize \in Nat \ {0} /\ ExtensionPages \in Nat /\ ExtensionPages >= 2
  BY BinAssumption
<1> DEFINE pages == ExtensionPages + 1
<1>2. pages \in Nat /\ 3 * BitmapSize <= pages * BitmapSize
  BY <1>1, TimesMonotone
<1>3. pages * BitmapSize = BitmapSize * pages /\ -BitmapSize * pages = -(BitmapSize * pages)
  BY <1>1, <1>2
<1>4. ExtensionMin = -(BitmapSize * pages) /\ ExtensionMax = BitmapSize * pages - 1
  BY <1>3 DEF ExtensionMin, ExtensionMax
<1>5. BitmapSize * pages \in Nat /\ 3 * BitmapSize <= BitmapSize * pages
  BY <1>1, <1>2, <1>3
<1> HIDE DEF pages
<1>6. /\ ExtensionMin \in Int /\ ExtensionMax \in Int
      /\ ExtensionMin + 1 <= -BitmapSize - 1 /\ BitmapSize <= ExtensionMax
  BY <1>1, <1>4, <1>5
<1>7. \A i \in Int : i \in Inline <=> -BitmapSize <= i /\ i < BitmapSize
  BY <1>1 DEF Inline
<1>8. ASSUME NEW p \in Pools
      PROVE  p.flagged \subseteq ExtensionMin + 2 .. ExtensionMax - 1 /\ p.extension \in BOOLEAN
  <2>1. ArrayOf(MinBinId) \in Int /\ ArrayOf(MaxBinId) \in Int
    BY BinAssumption, DivFacts DEF ArrayOf
  <2>2. p.flagged \subseteq ArrayOf(MinBinId) .. ArrayOf(MaxBinId) /\ p.extension \in BOOLEAN
        /\ ExtensionMin + 1 < ArrayOf(MinBinId) /\ ArrayOf(MaxBinId) < ExtensionMax
    BY SnapshotAssumption
  <2> QED
    BY <1>6, <2>1, <2>2
<1> QED
  BY <1>1, <1>6, <1>7, <1>8

\* x is the member of S that a search in the direction of the swap comes to first.
IsFirst(x, S, forY) == x \in S /\ \A y \in S : IF forY THEN y <= x ELSE x <= y

Before(p, start, forY) == IF forY THEN AtOrBelow(p.flagged, start) ELSE AtOrAbove(p.flagged, start)

\* The word answers with its first flag ahead, or sends the search beyond.
LEMMA WordFacts ==
    ASSUME NEW p \in Pools, NEW forY \in BOOLEAN, NEW start \in Int, start \in Inline,
           NEW ahead, ahead = Before(p, start, forY) \cap Inline
    PROVE  /\ ahead = {} => NextArray(p, forY, start) = Hop(IF forY THEN -BitmapSize - 1 ELSE BitmapSize)
           /\ ahead # {} => \E x : IsFirst(x, ahead, forY) /\ NextArray(p, forY, start) = Hit(x)
<1>1. NextArray(p, forY, start) = NextInline(p, forY, start)
  BY DEF NextArray
<1>2. p.flagged \subseteq ExtensionMin + 2 .. ExtensionMax - 1
      /\ ExtensionMin + 2 \in Int /\ ExtensionMax - 1 \in Int
  BY BitmapFacts
<1>3. ahead \subseteq ExtensionMin + 2 .. ExtensionMax - 1
  BY <1>2 DEF Before, AtOrBelow, AtOrAbove
<1>4. CASE forY
  <2>1. ahead = AtOrBelow(InlineFlags(p), start)
    BY <1>4 DEF Before, AtOrBelow, InlineFlags
  <2>2. ahead = {} => NextInline(p, forY, start) = Hop(-BitmapSize - 1)
    BY <1>4, <2>1 DEF NextInline
  <2>3. ahead # {} => NextInline(p, forY, start) = Hit(Max(ahead))
    BY <1>4, <2>1 DEF NextInline
  <2>4. ahead # {} => IsFirst(Max(ahead), ahead, forY)
    BY <1>2, <1>3, <1>4, BoundedFacts DEF IsFirst
  <2> QED
    BY <1>1, <1>4, <2>2, <2>3, <2>4
<1>5. CASE ~forY
  <2>1. ahead = AtOrAbove(InlineFlags(p), start)
    BY <1>5 DEF Before, AtOrAbove, InlineFlags
  <2>2. ahead = {} => NextInline(p, forY, start) = Hop(BitmapSize)
    BY <1>5, <2>1 DEF NextInline
  <2>3. ahead # {} => NextInline(p, forY, start) = Hit(Min(ahead))
    BY <1>5, <2>1 DEF NextInline
  <2>4. ahead # {} => IsFirst(Min(ahead), ahead, forY)
    BY <1>2, <1>3, <1>5, BoundedFacts DEF IsFirst
  <2> QED
    BY <1>1, <1>5, <2>2, <2>3, <2>4
<1> QED
  BY <1>4, <1>5

\* The flags of the pages on start's side, from start on.
Upwards(p, start)   == {i \in p.flagged \ Inline : (i > 0) = (start > 0) /\ i >= start}
Downwards(p, start) == {i \in p.flagged \ Inline : (i > 0) = (start > 0) /\ i <= start}

\* The pages answer with the first flag from start towards end.
LEMMA PagesFacts ==
    ASSUME NEW p \in Pools, NEW start \in Int, NEW end \in Int
    PROVE  /\ start <= end /\ Upwards(p, start) = {} => IterExtension(p, start, end) = Stop
           /\ start <= end /\ Upwards(p, start) # {} =>
                \E x : IsFirst(x, Upwards(p, start), FALSE) /\ IterExtension(p, start, end) = Hit(x)
           /\ ~(start <= end) /\ Downwards(p, start) = {} => IterExtension(p, start, end) = Stop
           /\ ~(start <= end) /\ Downwards(p, start) # {} =>
                \E x : IsFirst(x, Downwards(p, start), TRUE) /\ IterExtension(p, start, end) = Hit(x)
<1>1. p.flagged \subseteq ExtensionMin + 2 .. ExtensionMax - 1
      /\ ExtensionMin + 2 \in Int /\ ExtensionMax - 1 \in Int
  BY BitmapFacts
<1> DEFINE side == {i \in ExtensionFlags(p) : (i > 0) = (start > 0)}
           up   == Upwards(p, start)
           down == Downwards(p, start)
<1>2. /\ up \subseteq ExtensionMin + 2 .. ExtensionMax - 1
      /\ down \subseteq ExtensionMin + 2 .. ExtensionMax - 1
  BY <1>1 DEF Upwards, Downwards
<1>3. up = AtOrAbove(side, start) /\ down = AtOrBelow(side, start)
  BY DEF AtOrAbove, AtOrBelow, ExtensionFlags, Upwards, Downwards
<1>4. up # {} => IsFirst(Min(up), up, FALSE)
  <2> HIDE DEF up
  <2> QED
    BY <1>1, <1>2, BoundedFacts DEF IsFirst
<1>5. down # {} => IsFirst(Max(down), down, TRUE)
  <2> HIDE DEF down
  <2> QED
    BY <1>1, <1>2, BoundedFacts DEF IsFirst
<1>6. CASE start <= end
  <2>1. IterExtension(p, start, end) = IF up = {} THEN Stop ELSE Hit(Min(up))
    <3> HIDE DEF up
    <3> QED
      BY <1>3, <1>6 DEF IterExtension
  <2> QED
    BY <1>4, <1>6, <2>1
<1>7. CASE ~(start <= end)
  <2>1. IterExtension(p, start, end) = IF down = {} THEN Stop ELSE Hit(Max(down))
    <3> HIDE DEF down
    <3> QED
      BY <1>3, <1>7 DEF IterExtension
  <2> QED
    BY <1>5, <1>7, <2>1
<1> QED
  BY <1>6, <1>7

\* The three answers of a search.
LEMMA Answers ==
    ASSUME NEW i
    PROVE  /\ Hit(i).found /\ ~Hit(i).stop /\ Hit(i).at = i
           /\ ~Hop(i).found /\ ~Hop(i).stop /\ Hop(i).at = i
           /\ ~Stop.found /\ Stop.stop
  BY DEF Hit, Hop, Stop

\* Where the search in the pages ends, and what comes of an empty answer.
LEMMA ExtensionFacts ==
    ASSUME NEW p, NEW start \in Int, p.extension, start \notin Inline
    PROVE  /\ start > 0 => /\ NextArray(p, FALSE, start) = IterExtension(p, start, ExtensionMax)
                           /\ LET hit == IterExtension(p, start, BitmapSize)
                              IN  NextArray(p, TRUE, start) = IF hit.stop THEN Hop(BitmapSize - 1) ELSE hit
           /\ ~(start > 0) => /\ NextArray(p, TRUE, start) = IterExtension(p, start, ExtensionMin)
                              /\ LET hit == IterExtension(p, start, -BitmapSize - 1)
                                 IN  NextArray(p, FALSE, start) = IF hit.stop THEN Hop(-BitmapSize) ELSE hit
<1>1. \A forY : NextArray(p, forY, start) = NextExtension(p, forY, start)
  BY DEF NextArray
<1>2. CASE start > 0
  <2>1. NextExtension(p, FALSE, start) = IterExtension(p, start, ExtensionMax)
    BY <1>2 DEF NextExtension
  <2>2. LET hit == IterExtension(p, start, BitmapSize)
        IN  NextExtension(p, TRUE, start) = IF hit.stop THEN Hop(BitmapSize - 1) ELSE hit
    BY <1>2 DEF NextExtension
  <2> QED
    BY <1>1, <1>2, <2>1, <2>2
<1>3. CASE ~(start > 0)
  <2>0. start <= 0
    BY <1>3
  <2>1. NextExtension(p, TRUE, start) = IterExtension(p, start, ExtensionMin)
    BY <1>3, <2>0 DEF NextExtension
  <2>2. LET hit == IterExtension(p, start, -BitmapSize - 1)
        IN  NextExtension(p, FALSE, start) = IF hit.stop THEN Hop(-BitmapSize) ELSE hit
    BY <1>3, <2>0 DEF NextExtension
  <2> QED
    BY <1>1, <1>3, <2>1, <2>2
<1> QED
  BY <1>2, <1>3

\* Beyond the word lie the flags that are not the word's.
LEMMA FlagFacts ==
    ASSUME NEW p \in Pools
    PROVE  /\ \A i \in p.flagged : i \in Int /\ (i \in Inline <=> -BitmapSize <= i /\ i < BitmapSize)
           /\ BitmapSize \in Nat \ {0} /\ ExtensionMin \in Int /\ ExtensionMax \in Int
           /\ \A start \in ExtensionMin + 1 .. ExtensionMax : start \notin Inline =>
                /\ start \in Int /\ ExtensionMin < start /\ start <= ExtensionMax
                /\ start > 0 => start >= BitmapSize
                /\ ~(start > 0) => start < -BitmapSize
<1>0. BitmapSize \in Nat \ {0} /\ ExtensionMin \in Int /\ ExtensionMax \in Int
  BY BitmapFacts
<1>1. \A i \in Int : i \in Inline <=> -BitmapSize <= i /\ i < BitmapSize
  BY BitmapFacts
<1>2. \A i \in p.flagged : i \in Int
  <2>1. p.flagged \subseteq ExtensionMin + 2 .. ExtensionMax - 1
    BY BitmapFacts
  <2>2. \A i \in ExtensionMin + 2 .. ExtensionMax - 1 : i \in Int
    BY <1>0
  <2> QED
    BY <2>1, <2>2
<1>3. ASSUME NEW start \in ExtensionMin + 1 .. ExtensionMax, start \notin Inline
      PROVE  /\ start \in Int /\ ExtensionMin < start /\ start <= ExtensionMax
             /\ start > 0 => start >= BitmapSize
             /\ ~(start > 0) => start < -BitmapSize
  BY <1>0, <1>1, <1>3
<1> QED
  BY <1>0, <1>1, <1>2, <1>3

\* A search beyond the word that moves away from it answers with the first flag
\* ahead, or ends.
LEMMA OutwardFacts ==
    ASSUME NEW p \in Pools, NEW forY \in BOOLEAN, p.extension,
           NEW start \in ExtensionMin + 1 .. ExtensionMax, start \notin Inline, start > 0 <=> ~forY,
           NEW ahead, ahead = Before(p, start, forY)
    PROVE  /\ ahead = {} => NextArray(p, forY, start) = Stop
           /\ ahead # {} => \E x : IsFirst(x, ahead, forY) /\ NextArray(p, forY, start) = Hit(x)
<1>1. /\ \A i \in p.flagged : i \in Int /\ (i \in Inline <=> -BitmapSize <= i /\ i < BitmapSize)
      /\ BitmapSize \in Nat \ {0} /\ ExtensionMin \in Int /\ ExtensionMax \in Int
      /\ start \in Int /\ ExtensionMin < start /\ start <= ExtensionMax
      /\ start > 0 => start >= BitmapSize
      /\ ~(start > 0) => start < -BitmapSize
  BY FlagFacts
<1>2. CASE forY = TRUE
  <2>1. ~(start > 0) /\ start < -BitmapSize /\ ~(start <= ExtensionMin)
    BY <1>1, <1>2
  <2>2. ahead = Downwards(p, start)
    <3>1. \A i \in p.flagged : i <= start => i \notin Inline /\ ~(i > 0)
      BY <1>1, <2>1
    <3> QED
      BY <1>2, <2>1, <3>1 DEF Before, AtOrBelow, Downwards
  <2>3. NextArray(p, TRUE, start) = IterExtension(p, start, ExtensionMin)
    BY <1>1, <2>1, ExtensionFacts
  <2> QED
    <3>1. /\ ahead = {} => IterExtension(p, start, ExtensionMin) = Stop
          /\ ahead # {} => \E x : IsFirst(x, ahead, TRUE)
                                  /\ IterExtension(p, start, ExtensionMin) = Hit(x)
      <4>1. start \in Int /\ ExtensionMin \in Int
        BY <1>1
      <4>2. /\ Downwards(p, start) = {} => IterExtension(p, start, ExtensionMin) = Stop
            /\ Downwards(p, start) # {} =>
                 \E x : IsFirst(x, Downwards(p, start), TRUE)
                       /\ IterExtension(p, start, ExtensionMin) = Hit(x)
        BY <2>1, <4>1, PagesFacts
      <4> QED
        BY <2>2, <4>2, Zenon
    <3> QED
      BY <1>2, <2>3, <3>1
<1>3. CASE forY = FALSE
  <2>1. start > 0 /\ start >= BitmapSize /\ start <= ExtensionMax
    BY <1>1, <1>3
  <2>2. ahead = Upwards(p, start)
    <3>1. \A i \in p.flagged : i >= start => i \notin Inline /\ i > 0
      BY <1>1, <2>1
    <3> QED
      BY <1>3, <2>1, <3>1 DEF Before, AtOrAbove, Upwards
  <2>3. NextArray(p, FALSE, start) = IterExtension(p, start, ExtensionMax)
    BY <1>1, <2>1, ExtensionFacts
  <2> QED
    <3>1. /\ ahead = {} => IterExtension(p, start, ExtensionMax) = Stop
          /\ ahead # {} => \E x : IsFirst(x, ahead, FALSE)
                                  /\ IterExtension(p, start, ExtensionMax) = Hit(x)
      <4>1. start \in Int /\ ExtensionMax \in Int
        BY <1>1
      <4>2. /\ Upwards(p, start) = {} => IterExtension(p, start, ExtensionMax) = Stop
            /\ Upwards(p, start) # {} =>
                 \E x : IsFirst(x, Upwards(p, start), FALSE)
                       /\ IterExtension(p, start, ExtensionMax) = Hit(x)
        BY <2>1, <4>1, PagesFacts
      <4> QED
        BY <2>2, <4>2, Zenon
    <3> QED
      BY <1>3, <2>3, <3>1
<1> QED
  BY <1>2, <1>3

\* A search that comes down to the word answers with the first flag ahead, or
\* goes on at the word's last index, but at the edge.
LEMMA DownToWord ==
    ASSUME NEW p \in Pools, p.extension,
           NEW start \in ExtensionMin + 1 .. ExtensionMax, start \notin Inline, start > 0,
           ~AtWordEdge(p, start)
    PROVE  \/ \E x : IsFirst(x, Before(p, start, TRUE), TRUE) /\ NextArray(p, TRUE, start) = Hit(x)
           \/ /\ NextArray(p, TRUE, start) = Hop(BitmapSize - 1)
              /\ Before(p, start, TRUE) = Before(p, BitmapSize - 1, TRUE)
<1>1. /\ \A i \in p.flagged : i \in Int /\ (i \in Inline <=> -BitmapSize <= i /\ i < BitmapSize)
      /\ BitmapSize \in Nat \ {0} /\ start \in Int /\ start >= BitmapSize
  BY FlagFacts
<1>2. BitmapSize \in Int /\ BitmapSize \notin Inline /\ BitmapSize > 0
  <2>1. \A i \in Int : i \in Inline <=> -BitmapSize <= i /\ i < BitmapSize
    BY BitmapFacts
  <2> QED
    BY <1>1, <2>1
<1>3. LET hit == IterExtension(p, start, BitmapSize)
      IN  NextArray(p, TRUE, start) = IF hit.stop THEN Hop(BitmapSize - 1) ELSE hit
  BY <1>1, ExtensionFacts
<1>4. CASE start = BitmapSize
  <2>0. BitmapSize \in p.flagged
    BY <1>4 DEF AtWordEdge
  <2>1. BitmapSize \in Upwards(p, start)
    BY <1>1, <1>2, <1>4, <2>0 DEF Upwards
  <2>2. PICK x : IsFirst(x, Upwards(p, start), FALSE) /\ IterExtension(p, start, BitmapSize) = Hit(x)
    <3>1. start <= BitmapSize /\ Upwards(p, start) # {}
      BY <1>1, <1>4, <2>1
    <3> QED
      BY <1>1, <1>2, <3>1, PagesFacts
  <2>3. x <= BitmapSize /\ x \in Upwards(p, start)
    BY <2>1, <2>2 DEF IsFirst
  <2>4. x = BitmapSize
    <3>1. x \in p.flagged /\ x >= start
      BY <2>3 DEF Upwards
    <3> QED
      BY <1>1, <1>4, <2>3, <3>1
  <2>5. IsFirst(x, Before(p, start, TRUE), TRUE)
    BY <1>1, <1>4, <2>0, <2>4 DEF IsFirst, Before, AtOrBelow
  <2>6. NextArray(p, TRUE, start) = Hit(x)
    BY ONLY <1>3, <2>2, Answers, Zenon
  <2> QED
    BY <2>5, <2>6
<1>5. ASSUME start # BitmapSize, Downwards(p, start) = {}
      PROVE  /\ NextArray(p, TRUE, start) = Hop(BitmapSize - 1)
             /\ Before(p, start, TRUE) = Before(p, BitmapSize - 1, TRUE)
  <2>1. ~(start <= BitmapSize)
    BY <1>1, <1>2, <1>5
  <2>2. IterExtension(p, start, BitmapSize) = Stop
    BY <1>1, <1>2, <1>5, <2>1, PagesFacts
  <2>3. NextArray(p, TRUE, start) = Hop(BitmapSize - 1)
    BY ONLY <1>3, <2>2, Answers, Zenon
  <2>4. \A i \in p.flagged : i <= start <=> i <= BitmapSize - 1
    <3>1. ASSUME NEW i \in p.flagged, i <= start PROVE i <= BitmapSize - 1
      <4>1. i \in Inline \/ ~(i > 0)
        BY <1>5, <3>1 DEF Downwards
      <4> QED
        BY <1>1, <4>1
    <3> QED
      BY <1>1, <3>1
  <2> QED
    BY <2>3, <2>4 DEF Before, AtOrBelow
<1>6. ASSUME start # BitmapSize, Downwards(p, start) # {}
      PROVE  \E x : IsFirst(x, Before(p, start, TRUE), TRUE) /\ NextArray(p, TRUE, start) = Hit(x)
  <2>1. ~(start <= BitmapSize)
    BY <1>1, <1>2, <1>6
  <2>2. PICK x : IsFirst(x, Downwards(p, start), TRUE) /\ IterExtension(p, start, BitmapSize) = Hit(x)
    BY <1>1, <1>2, <1>6, <2>1, PagesFacts
  <2>3. NextArray(p, TRUE, start) = Hit(x)
    BY ONLY <1>3, <2>2, Answers, Zenon
  <2>4. x \in p.flagged /\ x <= start /\ x \in Int /\ x \notin Inline /\ x > 0
    BY <1>1, <2>2 DEF IsFirst, Downwards
  <2>5. ASSUME NEW y \in p.flagged, y <= start PROVE y <= x
    <3>1. CASE y \in Downwards(p, start)
      BY <2>2, <3>1 DEF IsFirst
    <3>2. CASE y \notin Downwards(p, start)
      <4>1. y \in Inline \/ ~(y > 0)
        BY <2>5, <3>2 DEF Downwards
      <4>2. y < BitmapSize /\ BitmapSize <= x
        BY <1>1, <2>4, <4>1
      <4> QED
        BY <1>1, <2>4, <4>2
    <3> QED
      BY <3>1, <3>2
  <2>6. IsFirst(x, Before(p, start, TRUE), TRUE)
    BY <2>4, <2>5 DEF IsFirst, Before, AtOrBelow
  <2> QED
    BY <2>3, <2>6
<1> QED
  BY <1>4, <1>5, <1>6

\* A search that comes up to the word answers with the first flag ahead, or goes
\* on at the word's first index.
LEMMA UpToWord ==
    ASSUME NEW p \in Pools, p.extension,
           NEW start \in ExtensionMin + 1 .. ExtensionMax, start \notin Inline, ~(start > 0)
    PROVE  \/ \E x : IsFirst(x, Before(p, start, FALSE), FALSE) /\ NextArray(p, FALSE, start) = Hit(x)
           \/ /\ NextArray(p, FALSE, start) = Hop(-BitmapSize)
              /\ Before(p, start, FALSE) = Before(p, -BitmapSize, FALSE)
<1>1. /\ \A i \in p.flagged : i \in Int /\ (i \in Inline <=> -BitmapSize <= i /\ i < BitmapSize)
      /\ BitmapSize \in Nat \ {0} /\ start \in Int /\ start < -BitmapSize
  BY FlagFacts
<1> DEFINE end == -BitmapSize - 1
<1>2. end \in Int /\ start <= end
  BY <1>1
<1>3. LET hit == IterExtension(p, start, end)
      IN  NextArray(p, FALSE, start) = IF hit.stop THEN Hop(-BitmapSize) ELSE hit
  BY <1>1, ExtensionFacts
<1> HIDE DEF end
<1>4. CASE Upwards(p, start) = {}
  <2>1. IterExtension(p, start, end) = Stop
    BY <1>1, <1>2, <1>4, PagesFacts
  <2>2. NextArray(p, FALSE, start) = Hop(-BitmapSize)
    BY ONLY <1>3, <2>1, Answers, Zenon
  <2>3. \A i \in p.flagged : i >= start <=> i >= -BitmapSize
    <3>1. ASSUME NEW i \in p.flagged, i >= start PROVE i >= -BitmapSize
      <4>1. i \in Inline \/ i > 0
        BY <1>4, <3>1 DEF Upwards
      <4> QED
        BY <1>1, <4>1
    <3> QED
      BY <1>1, <3>1
  <2> QED
    BY <2>2, <2>3 DEF Before, AtOrAbove
<1>5. CASE Upwards(p, start) # {}
  <2>1. PICK x : IsFirst(x, Upwards(p, start), FALSE) /\ IterExtension(p, start, end) = Hit(x)
    BY <1>1, <1>2, <1>5, PagesFacts
  <2>2. NextArray(p, FALSE, start) = Hit(x)
    BY ONLY <1>3, <2>1, Answers, Zenon
  <2>3. x \in p.flagged /\ x \in Int /\ x \notin Inline /\ ~(x > 0) /\ x >= start
    BY <1>1, <2>1 DEF IsFirst, Upwards
  <2>4. ASSUME NEW y \in p.flagged, y >= start PROVE x <= y
    <3>1. CASE y \in Upwards(p, start)
      BY <2>1, <3>1 DEF IsFirst
    <3>2. CASE y \notin Upwards(p, start)
      <4>1. y \in Inline \/ y > 0
        BY <2>4, <3>2 DEF Upwards
      <4>2. y \in Int /\ (y \in Inline => -BitmapSize <= y)
        BY <1>1
      <4>3. x < -BitmapSize
        BY <1>1, <2>3
      <4>4. CASE y \in Inline
        BY <1>1, <2>3, <4>2, <4>3, <4>4
      <4>5. CASE y > 0
        BY <1>1, <2>3, <4>2, <4>3, <4>5
      <4> QED
        BY <4>1, <4>4, <4>5
    <3> QED
      BY <3>1, <3>2
  <2>5. IsFirst(x, Before(p, start, FALSE), FALSE)
    BY <2>3, <2>4 DEF IsFirst, Before, AtOrAbove
  <2> QED
    BY <2>2, <2>5
<1> QED
  BY <1>4, <1>5

\* A search from the word on, with the hop it may need.
FromWord(p, forY, start) ==
    LET first == NextArray(p, forY, start)
    IN  IF first.found \/ first.stop THEN first ELSE NextArray(p, forY, first.at)

\* An answer is the right one: the first of the flags ahead, or none.
Finds(answer, ahead, forY) ==
    /\ ahead = {} => answer = Stop
    /\ ahead # {} => \E x : IsFirst(x, ahead, forY) /\ answer = Hit(x)

\* From the word, a search finds the first flag ahead in the word or beyond it.
LEMMA FromWordFacts ==
    ASSUME NEW p \in Pools, NEW forY \in BOOLEAN, NEW start \in Int, start \in Inline
    PROVE  Finds(FromWord(p, forY, start), Ahead(p, start, forY), forY)
<1> DEFINE all  == Before(p, start, forY)
           word == all \cap Inline
           edge == IF forY THEN -BitmapSize - 1 ELSE BitmapSize
<1>1. /\ \A i \in p.flagged : i \in Int /\ (i \in Inline <=> -BitmapSize <= i /\ i < BitmapSize)
      /\ BitmapSize \in Nat \ {0} /\ -BitmapSize <= start /\ start < BitmapSize
      /\ edge \in ExtensionMin + 1 .. ExtensionMax /\ edge \in Int /\ edge \notin Inline
      /\ edge > 0 <=> ~forY
      /\ p.extension \in BOOLEAN
  <2>1. /\ BitmapSize \in Nat \ {0} /\ ExtensionMin \in Int /\ ExtensionMax \in Int
        /\ ExtensionMin + 1 <= -BitmapSize - 1 /\ BitmapSize <= ExtensionMax
        /\ \A i \in Int : i \in Inline <=> -BitmapSize <= i /\ i < BitmapSize
        /\ p.extension \in BOOLEAN
    BY BitmapFacts
  <2>2. \A i \in p.flagged : i \in Int /\ (i \in Inline <=> -BitmapSize <= i /\ i < BitmapSize)
    BY FlagFacts
  <2> QED
    BY <2>1, <2>2
<1>2. /\ word = {} => NextArray(p, forY, start) = Hop(edge)
      /\ word # {} => \E x : IsFirst(x, word, forY) /\ NextArray(p, forY, start) = Hit(x)
  BY WordFacts
<1>3. Ahead(p, start, forY) = IF p.extension THEN all ELSE word
  BY DEF Ahead, Before
<1>4. CASE word # {}
  <2>1. PICK x : IsFirst(x, word, forY) /\ NextArray(p, forY, start) = Hit(x)
    BY <1>2, <1>4
  <2>2. FromWord(p, forY, start) = Hit(x)
    BY <2>1, Answers DEF FromWord
  <2>3. IsFirst(x, all, forY)
    <3>1. x \in all /\ x \in Inline /\ x \in p.flagged
      BY <2>1 DEF IsFirst, Before, AtOrBelow, AtOrAbove
    <3>2. ASSUME NEW y \in all PROVE IF forY THEN y <= x ELSE x <= y
      <4>1. CASE y \in Inline
        BY <2>1, <4>1 DEF IsFirst
      <4>2. CASE y \notin Inline
        <5>1. y \in p.flagged /\ (forY => y <= start) /\ (~forY => y >= start)
          BY DEF Before, AtOrBelow, AtOrAbove
        <5> HIDE DEF all, edge
        <5> QED
          BY <1>1, <3>1, <4>2, <5>1
      <4> QED
        BY <4>1, <4>2
    <3> QED
      BY <3>1, <3>2 DEF IsFirst
  <2>4. all # {} /\ word # {}
    BY <1>4
  <2> HIDE DEF all, word
  <2> QED
    BY <1>3, <2>1, <2>2, <2>3, <2>4 DEF Finds
<1>5. CASE word = {}
  <2>1. FromWord(p, forY, start) = NextArray(p, forY, edge)
    <3> HIDE DEF edge
    <3> QED
      BY <1>2, <1>5, Answers DEF FromWord
  <2>2. CASE p.extension
    <3>1. all = Before(p, edge, forY)
      <4>1. ASSUME NEW i \in p.flagged
            PROVE  IF forY THEN i <= start <=> i <= edge ELSE i >= start <=> i >= edge
        <5>1. i \in Inline => ~(forY /\ i <= start) /\ ~(~forY /\ i >= start)
          BY <1>5 DEF Before, AtOrBelow, AtOrAbove
        <5> QED
          BY <1>1, <5>1
      <4> HIDE DEF edge
      <4> QED
        BY <4>1 DEF Before, AtOrBelow, AtOrAbove
    <3> HIDE DEF all, edge
    <3>2. /\ all = {} => NextArray(p, forY, edge) = Stop
          /\ all # {} => \E x : IsFirst(x, all, forY) /\ NextArray(p, forY, edge) = Hit(x)
      BY <1>1, <2>2, <3>1, OutwardFacts
    <3> QED
      BY <1>3, <2>1, <2>2, <3>2 DEF Finds
  <2>3. CASE ~p.extension
    <3>1. NextArray(p, forY, edge) = Stop
      BY <1>1, <2>3 DEF NextArray
    <3> QED
      BY <1>3, <1>5, <2>1, <2>3, <3>1 DEF Finds
  <2> QED
    BY <2>2, <2>3
<1> QED
  BY <1>4, <1>5

\* A search finds the first flag ahead wherever it starts, but at the edge of
\* the word.
LEMMA NextFromFacts ==
    ASSUME NEW p \in Pools, NEW forY \in BOOLEAN, NEW start \in ExtensionMin + 1 .. ExtensionMax,
           ~(forY /\ AtWordEdge(p, start))
    PROVE  Finds(NextFrom(p, forY, start), Ahead(p, start, forY), forY)
<1>1. /\ ExtensionMin \in Int /\ ExtensionMax \in Int /\ BitmapSize \in Nat \ {0}
      /\ start \in Int
      /\ start \notin Inline /\ start > 0 => start >= BitmapSize
      /\ -BitmapSize \in Inline /\ -BitmapSize \in Int
      /\ BitmapSize - 1 \in Inline /\ BitmapSize - 1 \in Int
  <2>1. /\ BitmapSize \in Nat \ {0} /\ ExtensionMin \in Int /\ ExtensionMax \in Int
        /\ \A i \in Int : i \in Inline <=> -BitmapSize <= i /\ i < BitmapSize
    BY BitmapFacts
  <2> QED
    BY <2>1
<1> DEFINE first == NextArray(p, forY, start)
           ahead == Ahead(p, start, forY)
<1>0. SUFFICES Finds(NextFrom(p, forY, start), ahead, forY)
  OBVIOUS
<1>2. \A x : first = Hit(x) => NextFrom(p, forY, start) = Hit(x)
  BY Answers DEF NextFrom
<1>3. first = Stop => NextFrom(p, forY, start) = Stop
  BY Answers DEF NextFrom
<1>4. CASE start \in Inline
  <2>1. NextFrom(p, forY, start) =
          LET r == FromWord(p, forY, start)
          IN  IF r.found \/ r.stop THEN r ELSE NextArray(p, forY, r.at)
    BY DEF NextFrom, FromWord
  <2>2. Finds(FromWord(p, forY, start), ahead, forY)
    BY <1>1, <1>4, FromWordFacts
  <2> HIDE DEF ahead
  <2> QED
    BY <2>1, <2>2, Answers DEF Finds
<1>5. CASE start \notin Inline /\ ~p.extension
  BY <1>3, <1>5 DEF NextArray, Ahead, Finds
<1>6. CASE start \notin Inline /\ p.extension
  <2>1. ahead = Before(p, start, forY)
    BY <1>6 DEF Ahead, Before
  <2>2. CASE start > 0 <=> ~forY
    <3>1. /\ ahead = {} => first = Stop
          /\ ahead # {} => \E x : IsFirst(x, ahead, forY) /\ first = Hit(x)
      BY <1>6, <2>1, <2>2, OutwardFacts
    <3> HIDE DEF first, ahead
    <3> QED
      BY <1>2, <1>3, <3>1 DEF Finds
  <2>3. CASE start > 0 /\ forY
    <3>0. forY = TRUE
      BY <2>3
    <3>1. \/ \E x : IsFirst(x, ahead, forY) /\ first = Hit(x)
          \/ first = Hop(BitmapSize - 1) /\ ahead = Before(p, BitmapSize - 1, forY)
      BY <1>6, <2>1, <2>3, <3>0, DownToWord
    <3>2. CASE \E x : IsFirst(x, ahead, forY) /\ first = Hit(x)
      <4> HIDE DEF first, ahead
      <4> QED
        BY <1>2, <3>2 DEF Finds, IsFirst
    <3>3. CASE first = Hop(BitmapSize - 1) /\ ahead = Before(p, BitmapSize - 1, forY)
      <4>1. NextFrom(p, forY, start) = FromWord(p, forY, BitmapSize - 1)
        BY <3>3, Answers DEF NextFrom, FromWord
      <4>2. Ahead(p, BitmapSize - 1, forY) = Before(p, BitmapSize - 1, forY)
        BY <1>6 DEF Ahead, Before
      <4>3. Finds(FromWord(p, forY, BitmapSize - 1), Ahead(p, BitmapSize - 1, forY), forY)
        BY <1>1, FromWordFacts
      <4> QED
        BY <3>3, <4>1, <4>2, <4>3
    <3> QED
      BY <3>1, <3>2, <3>3
  <2>4. CASE ~(start > 0) /\ ~forY
    <3>0. forY = FALSE
      BY <2>4
    <3>1. \/ \E x : IsFirst(x, ahead, forY) /\ first = Hit(x)
          \/ first = Hop(-BitmapSize) /\ ahead = Before(p, -BitmapSize, forY)
      BY <1>6, <2>1, <2>4, <3>0, UpToWord
    <3>2. CASE \E x : IsFirst(x, ahead, forY) /\ first = Hit(x)
      <4> HIDE DEF first, ahead
      <4> QED
        BY <1>2, <3>2 DEF Finds, IsFirst
    <3>3. CASE first = Hop(-BitmapSize) /\ ahead = Before(p, -BitmapSize, forY)
      <4>1. NextFrom(p, forY, start) = FromWord(p, forY, -BitmapSize)
        BY <3>3, Answers DEF NextFrom, FromWord
      <4>2. Ahead(p, -BitmapSize, forY) = Before(p, -BitmapSize, forY)
        BY <1>6 DEF Ahead, Before
      <4>3. Finds(FromWord(p, forY, -BitmapSize), Ahead(p, -BitmapSize, forY), forY)
        BY <1>1, FromWordFacts
      <4> QED
        BY <3>3, <4>1, <4>2, <4>3
    <3> QED
      BY <3>1, <3>2, <3>3
  <2> QED
    BY <2>2, <2>3, <2>4
<1>7. p.extension \in BOOLEAN
  BY BitmapFacts
<1> QED
  BY <1>4, <1>5, <1>6, <1>7

\* The array of a bin is the one whose bins it is among, and lies in the bitmaps.
LEMMA ArrayFacts ==
    /\ \A b \in Int, i \in Int : b \in BinsOf(i) <=> i = ArrayOf(b)
    /\ \A b \in BinIds : b \in Int /\ ArrayOf(b) \in Int
                        /\ ArrayOf(b) \in ExtensionMin + 2 .. ExtensionMax - 1
<1>1. BinsPerArray \in Nat \ {0} /\ MinBinId \in Int /\ MaxBinId \in Int
      /\ ExtensionMin \in Int /\ ExtensionMax \in Int
      /\ ExtensionMin + 1 < ArrayOf(MinBinId) /\ ArrayOf(MaxBinId) < ExtensionMax
  BY BinAssumption, SnapshotAssumption, BitmapFacts
<1>2. ASSUME NEW b \in Int
      PROVE  /\ ArrayOf(b) \in Int
             /\ ArrayOf(b) * BinsPerArray <= b /\ b < ArrayOf(b) * BinsPerArray + BinsPerArray
  <2>1. /\ b \div BinsPerArray \in Int
        /\ BinsPerArray * (b \div BinsPerArray) <= b
        /\ b < BinsPerArray * (b \div BinsPerArray) + BinsPerArray
    BY <1>1, DivFacts
  <2>2. BinsPerArray * (b \div BinsPerArray) = (b \div BinsPerArray) * BinsPerArray
    BY <1>1, <2>1
  <2> QED
    BY <2>1, <2>2 DEF ArrayOf
<1>3. ASSUME NEW i \in Int
      PROVE  /\ i * BinsPerArray \in Int
             /\ (i + 1) * BinsPerArray = i * BinsPerArray + BinsPerArray
  BY <1>1
<1>4. ASSUME NEW i \in Int, NEW j \in Int, i < j
      PROVE  i * BinsPerArray + BinsPerArray <= j * BinsPerArray
  <2>1. (i + 1) * BinsPerArray <= j * BinsPerArray
    BY <1>1, <1>4, TimesMonotone
  <2> QED
    BY <1>3, <2>1
<1>5. ASSUME NEW b \in Int, NEW i \in Int
      PROVE  b \in BinsOf(i) <=> i = ArrayOf(b)
  <2>1. b \in BinsOf(i) <=> i * BinsPerArray <= b /\ b < i * BinsPerArray + BinsPerArray
    BY <1>1, <1>3 DEF BinsOf
  <2>2. i = ArrayOf(b) => b \in BinsOf(i)
    BY <1>2, <2>1
  <2>3. ASSUME b \in BinsOf(i) PROVE i = ArrayOf(b)
    <3>1. ~(i < ArrayOf(b))
      <4>1. SUFFICES ASSUME i < ArrayOf(b) PROVE FALSE
        OBVIOUS
      <4>2. i * BinsPerArray + BinsPerArray <= ArrayOf(b) * BinsPerArray
        BY <1>2, <1>4, <4>1
      <4>3. i * BinsPerArray \in Int /\ ArrayOf(b) * BinsPerArray \in Int
        BY <1>2, <1>3
      <4> QED
        BY <1>1, <1>2, <2>1, <2>3, <4>2, <4>3
    <3>2. ~(ArrayOf(b) < i)
      <4>1. SUFFICES ASSUME ArrayOf(b) < i PROVE FALSE
        OBVIOUS
      <4>2. ArrayOf(b) * BinsPerArray + BinsPerArray <= i * BinsPerArray
        BY <1>2, <1>4, <4>1
      <4>3. i * BinsPerArray \in Int /\ ArrayOf(b) * BinsPerArray \in Int
        BY <1>2, <1>3
      <4> QED
        BY <1>1, <1>2, <2>1, <2>3, <4>2, <4>3
    <3> QED
      BY <1>2, <3>1, <3>2
  <2> QED
    BY <2>2, <2>3
<1>6. ASSUME NEW a \in Int, NEW b \in Int, a <= b
      PROVE  ArrayOf(a) <= ArrayOf(b)
  <2>1. SUFFICES ASSUME ArrayOf(b) < ArrayOf(a) PROVE FALSE
    BY <1>2
  <2>2. ArrayOf(b) * BinsPerArray + BinsPerArray <= ArrayOf(a) * BinsPerArray
    BY <1>2, <1>4, <2>1
  <2>3. ArrayOf(a) * BinsPerArray \in Int /\ ArrayOf(b) * BinsPerArray \in Int
    BY <1>2, <1>3
  <2> QED
    BY <1>1, <1>2, <1>6, <2>2, <2>3
<1>7. ASSUME NEW b \in BinIds
      PROVE  b \in Int /\ ArrayOf(b) \in Int /\ ArrayOf(b) \in ExtensionMin + 2 .. ExtensionMax - 1
  <2>1. b \in Int /\ MinBinId <= b /\ b <= MaxBinId
    BY <1>1 DEF BinIds
  <2>2. /\ ArrayOf(b) \in Int /\ ArrayOf(MinBinId) \in Int /\ ArrayOf(MaxBinId) \in Int
        /\ ArrayOf(MinBinId) <= ArrayOf(b) /\ ArrayOf(b) <= ArrayOf(MaxBinId)
    BY <1>1, <1>2, <1>6, <2>1
  <2> QED
    BY <1>1, <2>1, <2>2
<1> QED
  BY <1>5, <1>7

\* What a search finds is flagged, wherever it starts.
LEMMA FoundIsFlagged ==
    ASSUME NEW p \in Pools, NEW forY \in BOOLEAN, NEW start \in Int,
           NextFrom(p, forY, start).found
    PROVE  NextFrom(p, forY, start).at \in p.flagged
<1>1. p.flagged \subseteq ExtensionMin + 2 .. ExtensionMax - 1
      /\ ExtensionMin + 2 \in Int /\ ExtensionMax - 1 \in Int
      /\ BitmapSize \in Nat \ {0} /\ ExtensionMin \in Int /\ ExtensionMax \in Int
  BY BitmapFacts
<1>2. ASSUME NEW S \in SUBSET p.flagged, S # {}
      PROVE  Min(S) \in p.flagged /\ Max(S) \in p.flagged
  <2>1. S \in SUBSET (ExtensionMin + 2 .. ExtensionMax - 1)
    BY <1>1
  <2>2. Min(S) \in S /\ Max(S) \in S
    BY <1>1, <1>2, <2>1, BoundedFacts
  <2> QED
    BY <2>2
<1> DEFINE Sound(answer) == answer.found => answer.at \in p.flagged
<1>3. Sound(Stop) /\ (\A i : Sound(Hop(i))) /\ \A i \in p.flagged : Sound(Hit(i))
  BY Answers
<1>4. ASSUME NEW s
      PROVE  Sound(NextInline(p, forY, s))
  <2> DEFINE flags == IF forY THEN AtOrBelow(InlineFlags(p), s) ELSE AtOrAbove(InlineFlags(p), s)
  <2>1. flags \in SUBSET p.flagged
    BY DEF AtOrBelow, AtOrAbove, InlineFlags
  <2>2. \/ flags = {} /\ \E i : NextInline(p, forY, s) = Hop(i)
        \/ flags # {} /\ NextInline(p, forY, s) = Hit(IF forY THEN Max(flags) ELSE Min(flags))
    BY DEF NextInline
  <2>3. flags # {} => Min(flags) \in p.flagged /\ Max(flags) \in p.flagged
    BY <1>2, <2>1
  <2> HIDE DEF flags, Sound
  <2> QED
    BY <1>3, <2>2, <2>3
<1>5. ASSUME NEW s, NEW end
      PROVE  Sound(IterExtension(p, s, end))
  <2> DEFINE side == {i \in ExtensionFlags(p) : (i > 0) = (s > 0)}
             flags == IF s <= end THEN AtOrAbove(side, s) ELSE AtOrBelow(side, s)
  <2>1. flags \in SUBSET p.flagged
    BY DEF AtOrBelow, AtOrAbove, ExtensionFlags
  <2>2. \/ flags = {} /\ IterExtension(p, s, end) = Stop
        \/ flags # {} /\ IterExtension(p, s, end) = Hit(IF s <= end THEN Min(flags) ELSE Max(flags))
    BY DEF IterExtension
  <2>3. flags # {} => Min(flags) \in p.flagged /\ Max(flags) \in p.flagged
    BY <1>2, <2>1
  <2> HIDE DEF flags, Sound
  <2> QED
    BY <1>3, <2>2, <2>3
<1>6. ASSUME NEW s
      PROVE  Sound(NextArray(p, forY, s))
  <2>1. \/ NextArray(p, forY, s) = NextInline(p, forY, s)
        \/ NextArray(p, forY, s) = NextExtension(p, forY, s)
        \/ NextArray(p, forY, s) = Stop
    <3>1. CASE s \in Inline
      BY <3>1 DEF NextArray
    <3>2. CASE s \notin Inline /\ p.extension
      BY <3>2 DEF NextArray
    <3>3. CASE s \notin Inline /\ ~p.extension
      BY <3>3 DEF NextArray
    <3> QED
      BY <3>1, <3>2, <3>3
  <2>2. \E end, i : \/ NextExtension(p, forY, s) = Hop(i)
                    \/ NextExtension(p, forY, s) = IterExtension(p, s, end)
    BY DEF NextExtension
  <2> HIDE DEF Sound
  <2> QED
    BY <1>3, <1>4, <1>5, <2>1, <2>2
<1>7. \E s : NextFrom(p, forY, start) = NextArray(p, forY, s)
  BY DEF NextFrom
<1> QED
  BY <1>6, <1>7

\* The search from the answer before, which a swap asks for next.
Onward(p, forY, last) ==
    IF last.stop THEN last ELSE NextFrom(p, forY, IF forY THEN last.at - 1 ELSE last.at + 1)

AreHits(hits, p, start, forY, take) ==
    hits = [n \in 1 .. take |->
              IF n = 1 THEN NextFrom(p, forY, start)
              ELSE CHOOSE hit \in {IF last.stop THEN last
                                   ELSE NextFrom(p, forY, IF forY THEN last.at - 1 ELSE last.at + 1)
                                   : last \in {hits[n - 1]}} : TRUE]

Hits(p, start, forY, take) == CHOOSE hits : AreHits(hits, p, start, forY, take)

\* There are hits: the recursion counts down to the first.
LEMMA HitsFacts ==
    ASSUME NEW p, NEW start, NEW forY, NEW take \in Nat \ {0}
    PROVE  LET hits == Hits(p, start, forY, take)
           IN  /\ hits[1] = NextFrom(p, forY, start)
               /\ \A n \in 2 .. take : hits[n] = Onward(p, forY, hits[n - 1])
<1> DEFINE Chain(f, m) ==
             f = [n \in 1 .. m |-> IF n = 1 THEN NextFrom(p, forY, start)
                                   ELSE Onward(p, forY, f[n - 1])]
           Bad == {m \in Nat \ {0} : ~\E f : Chain(f, m)}
<1>1. \A f, m : AreHits(f, p, start, forY, m) <=> Chain(f, m)
  <2>1. \A x : (CHOOSE hit \in {IF last.stop THEN last
                                ELSE NextFrom(p, forY, IF forY THEN last.at - 1 ELSE last.at + 1)
                                : last \in {x}} : TRUE) = Onward(p, forY, x)
    <3> TAKE x
    <3>1. {IF last.stop THEN last
           ELSE NextFrom(p, forY, IF forY THEN last.at - 1 ELSE last.at + 1)
           : last \in {x}} = {Onward(p, forY, x)}
      BY DEF Onward
    <3>2. (CHOOSE hit \in {Onward(p, forY, x)} : TRUE) = Onward(p, forY, x)
      OBVIOUS
    <3> QED
      BY <3>1, <3>2, Zenon
  <2> QED
    BY <2>1 DEF AreHits
<1>2. Bad = {}
  <2>1. SUFFICES ASSUME Bad # {} PROVE FALSE
    OBVIOUS
  <2>2. PICK m \in Bad : \A k \in Bad : m <= k
    <3>1. Bad \in SUBSET Nat
      OBVIOUS
    <3> HIDE DEF Bad
    <3> QED
      BY <2>1, <3>1, LeastNatural
  <2>3. m \in Nat \ {0} /\ (~\E f : Chain(f, m))
    BY <2>2
  <2>4. CASE m = 1
    <3> DEFINE f == [n \in 1 .. m |-> NextFrom(p, forY, start)]
    <3>1. f = [n \in 1 .. m |-> IF n = 1 THEN NextFrom(p, forY, start)
                                ELSE Onward(p, forY, f[n - 1])]
      <4>1. \A n \in 1 .. m : n = 1
        BY <2>4
      <4> QED
        BY <4>1
    <3> HIDE DEF f
    <3> QED
      BY <2>3, <3>1
  <2>5. CASE m # 1
    <3>1. m - 1 \in Nat \ {0} /\ m - 1 < m
      BY <2>3, <2>5
    <3>2. m - 1 \notin Bad
      BY <2>2, <3>1
    <3>3. PICK f : Chain(f, m - 1)
      BY <3>1, <3>2
    <3> DEFINE g == [n \in 1 .. m |-> IF n = m THEN Onward(p, forY, f[m - 1]) ELSE f[n]]
    <3>4. ASSUME NEW n \in 1 .. m
          PROVE  g[n] = IF n = 1 THEN NextFrom(p, forY, start) ELSE Onward(p, forY, g[n - 1])
      <4>1. CASE n = m
        <5>1. g[m] = Onward(p, forY, f[m - 1]) /\ g[m - 1] = f[m - 1]
          BY <3>1
        <5> HIDE DEF g
        <5> QED
          BY <2>5, <4>1, <5>1
      <4>2. CASE n # m
        <5>1. n \in 1 .. m - 1 /\ g[n] = f[n]
          BY <3>1, <4>2
        <5>2. f[n] = IF n = 1 THEN NextFrom(p, forY, start) ELSE Onward(p, forY, f[n - 1])
          BY <3>3, <5>1
        <5>3. n # 1 => g[n - 1] = f[n - 1]
          BY <3>1, <5>1
        <5> HIDE DEF g
        <5> QED
          BY <5>1, <5>2, <5>3
      <4> QED
        BY <4>1, <4>2
    <3>5. g = [n \in 1 .. m |-> g[n]]
      OBVIOUS
    <3> HIDE DEF g
    <3>6. g = [n \in 1 .. m |-> IF n = 1 THEN NextFrom(p, forY, start)
                                ELSE Onward(p, forY, g[n - 1])]
      BY <3>4, <3>5
    <3> QED
      BY <2>3, <3>6
  <2> QED
    BY <2>4, <2>5
<1> DEFINE hits == Hits(p, start, forY, take)
<1>3. AreHits(hits, p, start, forY, take)
  <2>1. take \notin Bad
    BY <1>2
  <2>2. \E f : Chain(f, take)
    BY <2>1
  <2>3. \E f : AreHits(f, p, start, forY, take)
    <3> HIDE DEF Chain
    <3> QED
      BY <1>1, <2>2
  <2> QED
    BY <2>3 DEF Hits
<1> HIDE DEF hits
<1>4. hits = [n \in 1 .. take |-> IF n = 1 THEN NextFrom(p, forY, start)
                                  ELSE Onward(p, forY, hits[n - 1])]
  BY <1>1, <1>3
<1>5. hits[1] = NextFrom(p, forY, start)
  BY <1>4
<1>6. \A n \in 2 .. take : hits[n] = Onward(p, forY, hits[n - 1])
  <2>1. ASSUME NEW n \in 2 .. take PROVE n \in 1 .. take /\ n # 1
    OBVIOUS
  <2> QED
    BY <1>4, <2>1
<1> QED
  BY <1>5, <1>6 DEF hits

\* The flags ahead that come before x, and those that come after it.
Closer(ahead, x, forY)  == {i \in ahead : IF forY THEN i > x ELSE i < x}
Further(ahead, x, forY) == {i \in ahead : IF forY THEN i < x ELSE i > x}

\* After a hit the search goes on among the flags after it.
LEMMA OnwardFacts ==
    ASSUME NEW p \in Pools, NEW forY \in BOOLEAN, NEW start \in ExtensionMin + 1 .. ExtensionMax,
           ~(forY /\ AtWordEdge(p, start)),
           NEW ahead, ahead = Ahead(p, start, forY), NEW x \in ahead
    PROVE  Finds(Onward(p, forY, Hit(x)), Further(ahead, x, forY), forY)
<1> DEFINE next == IF forY THEN x - 1 ELSE x + 1
<1>1. /\ BitmapSize \in Nat \ {0} /\ ExtensionMin \in Int /\ ExtensionMax \in Int
      /\ p.flagged \subseteq ExtensionMin + 2 .. ExtensionMax - 1
      /\ p.extension \in BOOLEAN
      /\ \A i \in Int : i \in Inline <=> -BitmapSize <= i /\ i < BitmapSize
  BY BitmapFacts
<1>2. start \in Int /\ \A i \in p.flagged : i \in Int /\ ExtensionMin + 2 <= i /\ i <= ExtensionMax - 1
  BY <1>1
<1>3. /\ x \in p.flagged
      /\ forY => x <= start
      /\ ~forY => x >= start
      /\ ~p.extension => start \in Inline /\ x \in Inline
  <2>1. CASE p.extension
    BY <2>1 DEF Ahead, AtOrBelow, AtOrAbove
  <2>2. CASE ~p.extension /\ start \in Inline
    BY <2>2 DEF Ahead, AtOrBelow, AtOrAbove
  <2>3. CASE ~p.extension /\ start \notin Inline
    BY <2>3 DEF Ahead
  <2> QED
    BY <2>1, <2>2, <2>3
<1>4. next \in ExtensionMin + 1 .. ExtensionMax /\ next \in Int /\ x \in Int
  BY <1>1, <1>2, <1>3
<1>5. ~(forY /\ AtWordEdge(p, next))
  <2>1. ASSUME forY, next = BitmapSize
        PROVE  start > BitmapSize /\ BitmapSize + 1 \in p.flagged
    <3>1. x = BitmapSize + 1
      BY <1>1, <1>4, <2>1
    <3> HIDE DEF next
    <3> QED
      BY <1>1, <1>2, <1>3, <2>1, <3>1
  <2>2. ASSUME forY, next > BitmapSize PROVE start > BitmapSize
    BY <1>1, <1>2, <1>3, <1>4, <2>2
  <2> HIDE DEF next
  <2> QED
    BY <2>1, <2>2 DEF AtWordEdge
<1>6. \A i \in p.flagged : /\ forY => (i <= next <=> i <= start /\ i < x)
                           /\ ~forY => (i >= next <=> i >= start /\ i > x)
  BY <1>2, <1>3, <1>4
<1>7. Ahead(p, next, forY) = Further(ahead, x, forY)
  <2> HIDE DEF next
  <2>1. CASE p.extension
    BY <1>6, <2>1 DEF Ahead, AtOrBelow, AtOrAbove, Further
  <2>2. CASE ~p.extension /\ next \in Inline
    BY <1>3, <1>6, <2>2 DEF Ahead, AtOrBelow, AtOrAbove, Further
  <2>3. CASE ~p.extension /\ next \notin Inline
    <3>1. \A i \in Inline : ~(forY /\ i < x) /\ ~(~forY /\ i > x)
      <4>1. \A i \in Inline : i \in Int /\ -BitmapSize <= i /\ i < BitmapSize
        BY <1>1 DEF Inline
      <4>2. -BitmapSize <= x /\ x < BitmapSize
        BY <1>3, <2>3, <4>1
      <4>3. ~(-BitmapSize <= next /\ next < BitmapSize)
        BY <1>1, <1>4, <2>3
      <4> QED
        BY <1>1, <1>4, <4>1, <4>2, <4>3 DEF next
    <3>2. ahead \subseteq Inline
      BY <1>3, <2>3 DEF Ahead, AtOrBelow, AtOrAbove
    <3>3. Further(ahead, x, forY) = {}
      BY <3>1, <3>2 DEF Further
    <3>4. Ahead(p, next, forY) = {}
      BY <2>3 DEF Ahead
    <3> QED
      BY <3>3, <3>4
  <2> QED
    BY <1>1, <2>1, <2>2, <2>3
<1>8. Onward(p, forY, Hit(x)) = NextFrom(p, forY, next)
  BY Answers DEF Onward
<1> QED
  BY <1>4, <1>5, <1>7, <1>8, NextFromFacts

\* The flags ahead are finitely many, and those before x, x and those after it.
LEMMA AheadCounts ==
    ASSUME NEW p \in Pools, NEW forY \in BOOLEAN, NEW start,
           NEW ahead, ahead = Ahead(p, start, forY)
    PROVE  /\ Cardinality(ahead) \in Nat /\ (Cardinality(ahead) = 0 <=> ahead = {})
           /\ \A x \in ahead :
                /\ Cardinality(Closer(ahead, x, forY)) \in Nat
                /\ Cardinality(Further(ahead, x, forY)) \in Nat
                /\ Cardinality(Further(ahead, x, forY)) = 0 <=> Further(ahead, x, forY) = {}
                /\ Cardinality(ahead) = Cardinality(Closer(ahead, x, forY)) + 1
                                          + Cardinality(Further(ahead, x, forY))
                /\ IsFirst(x, ahead, forY) => Cardinality(Closer(ahead, x, forY)) = 0
                /\ \A y : IsFirst(y, Further(ahead, x, forY), forY) =>
                      Cardinality(Closer(ahead, y, forY)) = Cardinality(Closer(ahead, x, forY)) + 1
<1>1. /\ ExtensionMin + 2 \in Int /\ ExtensionMax - 1 \in Int
      /\ p.flagged \subseteq ExtensionMin + 2 .. ExtensionMax - 1
  BY BitmapFacts
<1>2. ahead \subseteq p.flagged
  BY DEF Ahead, AtOrBelow, AtOrAbove
<1>3. IsFiniteSet(ahead)
  <2>1. IsFiniteSet(ExtensionMin + 2 .. ExtensionMax - 1)
    BY <1>1, FS_Interval
  <2> QED
    BY <1>1, <1>2, <2>1, FS_Subset
<1>4. \A i \in ahead : i \in Int
  BY <1>1, <1>2
<1> HIDE DEF Ahead
<1>5. ASSUME NEW x \in ahead
      PROVE  /\ Cardinality(Closer(ahead, x, forY)) \in Nat
             /\ Cardinality(Further(ahead, x, forY)) \in Nat
             /\ Cardinality(Further(ahead, x, forY)) = 0 <=> Further(ahead, x, forY) = {}
             /\ Cardinality(ahead) = Cardinality(Closer(ahead, x, forY)) + 1
                                       + Cardinality(Further(ahead, x, forY))
  <2> DEFINE C == Closer(ahead, x, forY)
             F == Further(ahead, x, forY)
  <2>1. IsFiniteSet(C) /\ IsFiniteSet(F)
    BY <1>3, FS_Subset DEF Closer, Further
  <2>2. C \cap {x} = {} /\ (C \cup {x}) \cap F = {} /\ ahead = (C \cup {x}) \cup F
    BY <1>4 DEF Closer, Further
  <2> HIDE DEF C, F
  <2>3. IsFiniteSet(C \cup {x}) /\ Cardinality(C \cup {x}) = Cardinality(C) + 1
    <3>1. x \notin C
      BY <2>2
    <3> QED
      BY <2>1, <3>1, FS_AddElement
  <2>4. Cardinality(ahead) = Cardinality(C \cup {x}) + Cardinality(F)
    <3>1. Cardinality((C \cup {x}) \cup F) = Cardinality(C \cup {x}) + Cardinality(F)
                                                - Cardinality((C \cup {x}) \cap F)
      BY <2>1, <2>3, FS_Union
    <3>2. Cardinality((C \cup {x}) \cap F) = 0
      BY <2>2, FS_EmptySet
    <3>3. Cardinality(C \cup {x}) \in Nat /\ Cardinality(F) \in Nat
      BY <2>1, <2>3, FS_CardinalityType
    <3> QED
      BY <2>2, <3>1, <3>2, <3>3
  <2>5. Cardinality(C) \in Nat /\ Cardinality(F) \in Nat
    BY <2>1, FS_CardinalityType
  <2>6. Cardinality(F) = 0 <=> F = {}
    BY <2>1, FS_EmptySet
  <2> QED
    BY <2>3, <2>4, <2>5, <2>6 DEF C, F
<1>6. ASSUME NEW x \in ahead, IsFirst(x, ahead, forY)
      PROVE  Cardinality(Closer(ahead, x, forY)) = 0
  <2>1. Closer(ahead, x, forY) = {}
    BY <1>4, <1>6 DEF Closer, IsFirst
  <2> QED
    BY <2>1, FS_EmptySet
<1>7. ASSUME NEW x \in ahead, NEW y, IsFirst(y, Further(ahead, x, forY), forY)
      PROVE  Cardinality(Closer(ahead, y, forY)) = Cardinality(Closer(ahead, x, forY)) + 1
  <2>1. y \in Int /\ y \in ahead /\ y \in Further(ahead, x, forY)
    BY <1>4, <1>7 DEF IsFirst, Further
  <2>2. Closer(ahead, y, forY) = Closer(ahead, x, forY) \cup {x} /\ x \notin Closer(ahead, x, forY)
    <3>1. ASSUME NEW i \in ahead
          PROVE  i \in Closer(ahead, y, forY) <=> i \in Closer(ahead, x, forY) \/ i = x
      BY <1>4, <1>7, <2>1, <3>1 DEF Closer, Further, IsFirst
    <3>2. x \notin Closer(ahead, x, forY)
      BY <1>4 DEF Closer
    <3>3. Closer(ahead, y, forY) \subseteq ahead /\ Closer(ahead, x, forY) \subseteq ahead
      BY DEF Closer
    <3> QED
      BY <3>1, <3>2, <3>3
  <2>3. IsFiniteSet(Closer(ahead, x, forY))
    BY <1>3, FS_Subset DEF Closer
  <2> QED
    BY <2>2, <2>3, FS_AddElement
<1>8. Cardinality(ahead) \in Nat /\ (Cardinality(ahead) = 0 <=> ahead = {})
  BY <1>3, FS_CardinalityType, FS_EmptySet
<1> QED
  BY <1>5, <1>6, <1>7, <1>8

\* The hits are the flags ahead, nearest first, and after the last of them the
\* search has stopped.
LEMMA HitsAreNearest ==
    ASSUME NEW p \in Pools, NEW forY \in BOOLEAN, NEW start \in ExtensionMin + 1 .. ExtensionMax,
           ~(forY /\ AtWordEdge(p, start)), NEW take \in Nat \ {0},
           NEW ahead, ahead = Ahead(p, start, forY),
           NEW hits, hits = Hits(p, start, forY, take)
    PROVE  \A n \in 1 .. take :
             /\ n <= Cardinality(ahead) =>
                  \E x \in ahead : hits[n] = Hit(x) /\ Cardinality(Closer(ahead, x, forY)) = n - 1
             /\ n > Cardinality(ahead) => hits[n] = Stop
<1> DEFINE Right(n) ==
             /\ n <= Cardinality(ahead) =>
                  \E x \in ahead : hits[n] = Hit(x) /\ Cardinality(Closer(ahead, x, forY)) = n - 1
             /\ n > Cardinality(ahead) => hits[n] = Stop
           Wrong == {n \in 1 .. take : ~Right(n)}
<1>0. /\ Cardinality(ahead) \in Nat /\ (Cardinality(ahead) = 0 <=> ahead = {})
      /\ hits[1] = NextFrom(p, forY, start)
      /\ \A n \in 2 .. take : hits[n] = Onward(p, forY, hits[n - 1])
  BY AheadCounts, HitsFacts
<1>1. SUFFICES ASSUME Wrong # {} PROVE FALSE
  OBVIOUS
<1>2. PICK n \in Wrong : \A k \in Wrong : n <= k
  <2>1. Wrong \in SUBSET Nat
    OBVIOUS
  <2> HIDE DEF Wrong
  <2> QED
    BY <1>1, <2>1, LeastNatural
<1>3. n \in 1 .. take /\ ~Right(n)
  BY <1>2
<1>4. CASE n = 1
  <2>1. Finds(hits[1], ahead, forY)
    BY <1>0, NextFromFacts
  <2>2. CASE ahead = {}
    <3>1. hits[1] = Stop
      BY <2>1, <2>2 DEF Finds
    <3> QED
      BY <1>0, <1>3, <1>4, <2>2, <3>1
  <2>3. CASE ahead # {}
    <3>1. PICK x : IsFirst(x, ahead, forY) /\ hits[1] = Hit(x)
      BY <2>1, <2>3 DEF Finds
    <3>2. x \in ahead /\ Cardinality(Closer(ahead, x, forY)) = 0
      BY <3>1, AheadCounts DEF IsFirst
    <3>3. 1 <= Cardinality(ahead)
      BY <1>0, <2>3
    <3> QED
      BY <1>0, <1>3, <1>4, <3>1, <3>2, <3>3
  <2> QED
    BY <2>2, <2>3
<1>5. CASE n # 1
  <2>1. n - 1 \in 1 .. take /\ n \in 2 .. take /\ n - 1 < n
    BY <1>3, <1>5
  <2>2. n - 1 \notin Wrong
    <3> HIDE DEF Wrong
    <3> QED
      BY <1>2, <2>1
  <2>3. Right(n - 1)
    BY <2>1, <2>2
  <2>4. hits[n] = Onward(p, forY, hits[n - 1])
    BY <1>0, <2>1
  <2>5. CASE n - 1 > Cardinality(ahead)
    <3>1. hits[n] = Stop
      BY <2>3, <2>4, <2>5, Answers DEF Onward
    <3> QED
      BY <1>0, <1>3, <2>1, <2>5, <3>1
  <2>6. CASE n - 1 <= Cardinality(ahead)
    <3>1. PICK x \in ahead : hits[n - 1] = Hit(x) /\ Cardinality(Closer(ahead, x, forY)) = n - 2
      <4>1. n - 1 - 1 = n - 2
        BY <2>1
      <4> QED
        BY <2>3, <2>6, <4>1
    <3> DEFINE far == Further(ahead, x, forY)
    <3>2. Finds(hits[n], far, forY)
      BY <2>4, <3>1, OnwardFacts
    <3>3. /\ Cardinality(far) \in Nat /\ (Cardinality(far) = 0 <=> far = {})
          /\ Cardinality(ahead) = Cardinality(Closer(ahead, x, forY)) + 1 + Cardinality(far)
          /\ \A y : IsFirst(y, far, forY) =>
                Cardinality(Closer(ahead, y, forY)) = Cardinality(Closer(ahead, x, forY)) + 1
      BY AheadCounts
    <3>4. far \subseteq ahead
      BY DEF Further
    <3> HIDE DEF far
    <3>5. CASE far = {}
      <4>1. hits[n] = Stop
        BY <3>2, <3>5 DEF Finds
      <4>2. n > Cardinality(ahead)
        BY <2>1, <3>1, <3>3, <3>5
      <4> QED
        BY <1>0, <1>3, <4>1, <4>2
    <3>6. CASE far # {}
      <4>1. PICK y : IsFirst(y, far, forY) /\ hits[n] = Hit(y)
        BY <3>2, <3>6 DEF Finds
      <4>2. y \in ahead
        BY <3>4, <4>1 DEF IsFirst
      <4>3. Cardinality(Closer(ahead, y, forY)) = n - 1
        <5>1. n - 2 + 1 = n - 1
          BY <2>1
        <5> QED
          BY <3>1, <3>3, <4>1, <5>1
      <4>4. n <= Cardinality(ahead)
        <5>1. Cardinality(far) >= 1
          BY <3>3, <3>6
        <5> QED
          BY <2>1, <3>1, <3>3, <5>1
      <4> QED
        BY <1>0, <1>3, <4>1, <4>2, <4>3, <4>4
    <3> QED
      BY <3>5, <3>6
  <2> QED
    BY <1>0, <2>1, <2>5, <2>6
<1> QED
  BY <1>4, <1>5

\* The arrays named are as many of the flags ahead as are asked for, nearest first.
LEMMA ArraysFromFacts ==
    ASSUME NEW p \in Pools, NEW forY \in BOOLEAN, NEW start \in ExtensionMin + 1 .. ExtensionMax,
           ~(forY /\ AtWordEdge(p, start)), NEW take \in Nat \ {0},
           NEW ahead, ahead = Ahead(p, start, forY),
           NEW arrays, arrays = ArraysFrom(p, start, forY, take)
    PROVE  LET count == IF take <= Cardinality(ahead) THEN take ELSE Cardinality(ahead)
           IN  /\ count \in Nat
               /\ Len(arrays) = count /\ DOMAIN arrays = 1 .. count
               /\ \A n \in 1 .. count :
                     arrays[n] \in ahead /\ Cardinality(Closer(ahead, arrays[n], forY)) = n - 1
<1> DEFINE hits  == Hits(p, start, forY, take)
           found == {n \in 1 .. take : hits[n].found}
           count == IF take <= Cardinality(ahead) THEN take ELSE Cardinality(ahead)
<1>1. ArraysFrom(p, start, forY, take) = [n \in 1 .. Cardinality(found) |-> hits[n].at]
  <2>1. ArraysFrom(p, start, forY, take) =
          LET h == CHOOSE g : AreHits(g, p, start, forY, take)
          IN  [n \in 1 .. Cardinality({m \in 1 .. take : h[m].found}) |-> h[n].at]
    BY Zenon DEF ArraysFrom, AreHits
  <2> QED
    BY <2>1, Zenon DEF Hits
<1>2. \A n \in 1 .. take :
         /\ n <= Cardinality(ahead) =>
              \E x \in ahead : hits[n] = Hit(x) /\ Cardinality(Closer(ahead, x, forY)) = n - 1
         /\ n > Cardinality(ahead) => hits[n] = Stop
  BY HitsAreNearest
<1>3. Cardinality(ahead) \in Nat /\ count \in Nat /\ count <= take /\ count <= Cardinality(ahead)
  BY AheadCounts
<1> HIDE DEF hits
<1>4. ASSUME NEW n \in 1 .. take
      PROVE  /\ n <= count <=> n <= Cardinality(ahead)
             /\ hits[n].found <=> n <= Cardinality(ahead)
  BY <1>2, <1>3, Answers
<1>5. found = 1 .. count
  <2>1. 1 .. count \subseteq 1 .. take
    BY <1>3
  <2>2. \A n \in 1 .. take : n \in 1 .. count <=> n <= count
    BY <1>3
  <2> HIDE DEF count
  <2> QED
    BY <1>4, <2>1, <2>2
<1>6. Cardinality(1 .. count) = count
  <2> HIDE DEF count
  <2>1. Cardinality(1 .. count) = IF 1 > count THEN 0 ELSE count - 1 + 1
    BY <1>3, FS_Interval
  <2> QED
    BY <1>3, <2>1
<1>7. arrays = [n \in 1 .. count |-> hits[n].at]
  BY <1>1, <1>5, <1>6
<1>8. ASSUME NEW n \in 1 .. count
      PROVE  arrays[n] \in ahead /\ Cardinality(Closer(ahead, arrays[n], forY)) = n - 1
  <2>1. n \in 1 .. take /\ n <= Cardinality(ahead)
    BY <1>3
  <2>2. PICK x \in ahead : hits[n] = Hit(x) /\ Cardinality(Closer(ahead, x, forY)) = n - 1
    BY <1>2, <2>1
  <2>3. arrays[n] = x
    BY <1>7, <2>2, Answers
  <2> QED
    BY <2>2, <2>3
<1>9. Len(arrays) = count /\ DOMAIN arrays = 1 .. count
  <2> HIDE DEF count
  <2>1. arrays \in [1 .. count -> ahead]
    BY <1>7, <1>8
  <2>2. arrays \in Seq(ahead)
    BY <1>3, <2>1
  <2> QED
    BY <1>3, <2>1, <2>2
<1> QED
  BY <1>3, <1>8, <1>9

\* get_bin_array_pubkeys_for_swap names the arrays with liquidity from the active
\* bin on and nearest first, for every pool, size of the bitmaps and number of
\* arrays asked for.
THEOREM ArraysAlwaysNearestFirst == Spec => []ArraysAreNearestFirst
<1>1. pool \in Pools => ArraysAreNearestFirst
  <2> SUFFICES ASSUME pool \in Pools, NEW forY \in BOOLEAN, NEW bin \in MinBinId .. MaxBinId
               PROVE  LET start  == CHOOSE i \in ExtensionMin .. ExtensionMax : bin \in BinsOf(i)
                          ahead  == Ahead(pool, start, forY)
                          arrays == ArraysForSwap(pool, bin, forY, Take)
                      IN  ~(forY /\ AtWordEdge(pool, start)) =>
                              /\ Len(arrays) = Min({Take, Cardinality(ahead)})
                              /\ \A n \in DOMAIN arrays :
                                    /\ arrays[n] \in ahead
                                    /\ n - 1 = Cardinality({i \in ahead : IF forY THEN i > arrays[n]
                                                                          ELSE i < arrays[n]})
    BY DEF ArraysAreNearestFirst
  <2> DEFINE start == CHOOSE i \in ExtensionMin .. ExtensionMax : bin \in BinsOf(i)
  <2>1. ExtensionMin \in Int /\ ExtensionMax \in Int
    BY BitmapFacts
  <2>2. bin \in Int /\ ArrayOf(bin) \in Int /\ ArrayOf(bin) \in ExtensionMin + 2 .. ExtensionMax - 1
        /\ \A i \in Int : bin \in BinsOf(i) <=> i = ArrayOf(bin)
    BY ArrayFacts DEF BinIds
  <2>3. start = ArrayOf(bin)
    <3>1. ArrayOf(bin) \in ExtensionMin .. ExtensionMax /\ bin \in BinsOf(ArrayOf(bin))
      BY <2>1, <2>2
    <3>2. \A i \in ExtensionMin .. ExtensionMax : bin \in BinsOf(i) => i = ArrayOf(bin)
      BY <2>1, <2>2
    <3> QED
      BY <3>1, <3>2
  <2>4. start \in ExtensionMin + 1 .. ExtensionMax
    BY <2>1, <2>2, <2>3
  <2> HIDE DEF start
  <2> DEFINE ahead  == Ahead(pool, start, forY)
             arrays == ArraysForSwap(pool, bin, forY, Take)
             count  == IF Take <= Cardinality(ahead) THEN Take ELSE Cardinality(ahead)
  <2>5. arrays = ArraysFrom(pool, start, forY, Take)
    BY <2>3 DEF ArraysForSwap
  <2>6. Take \in Nat \ {0}
    BY DEF Take
  <2>7. Cardinality(ahead) \in Nat
    BY AheadCounts
  <2>8. Min({Take, Cardinality(ahead)}) = count
    BY <2>6, <2>7, MinOfTwo
  <2>9. ASSUME ~(forY /\ AtWordEdge(pool, start))
        PROVE  /\ Len(arrays) = Min({Take, Cardinality(ahead)})
               /\ \A n \in DOMAIN arrays :
                     arrays[n] \in ahead /\ n - 1 = Cardinality(Closer(ahead, arrays[n], forY))
    <3>1. /\ Len(arrays) = count /\ DOMAIN arrays = 1 .. count
          /\ \A n \in 1 .. count :
                arrays[n] \in ahead /\ Cardinality(Closer(ahead, arrays[n], forY)) = n - 1
      BY <2>4, <2>5, <2>6, <2>9, ArraysFromFacts
    <3> HIDE DEF arrays, count
    <3> QED
      BY <2>8, <3>1
  <2> QED
    BY <2>9 DEF Closer, start
<1>2. Init => pool \in Pools
  BY DEF Init
<1>3. pool \in Pools /\ [Next]_vars => (pool \in Pools)'
  BY DEF Next, Step, Quote, Replay, Enter, FindArray, Finish, CrossBin, LeaveArray, End, vars
<1> QED
  BY <1>1, <1>2, <1>3, PTL DEF Spec

-----------------------------------------------------------------------------
(* The invariant. *)

\* A search from the bin leads to the array the bin lies in, which the snapshot
\* has.
Passable(p, forY, b) ==
    LET found == ArraysForSwap(p, b, forY, 1)
    IN  found # <<>> /\ found[1] = ArrayOf(b) /\ found[1] \in p.cached

Walks == [status : Statuses, active : BinIds, iref : Int, vref : Nat, vacc : Nat,
          array : Int, left : Nat, total : Nat, fee : Nat]

(* A quote is of a pool there is, and its numbers are natural. *)
TypeOK ==
    /\ pool \in Pools
    /\ walk \in Walks
    /\ walk.status = "idle" => promised = NoPromise
    /\ walk.status # "idle" =>
          /\ call.mode \in {"exact_in", "exact_out"}
          /\ call.forY \in BOOLEAN
          /\ call.amount \in Nat

Time == call.clock.timestamp

(* While something is left, all bins behind are spent: what was paid and     *)
(* taken are sums along the way.                                           *)
Underway(k) ==
    /\ walk.fee = Fees(pool, call.forY, Time)[k]
    /\ call.mode = "exact_in" =>
          /\ walk.total = Held(pool, call.forY)[k]
          /\ walk.left = call.amount - (Ins(pool, call.forY)[k] + Fees(pool, call.forY, Time)[k])
    /\ call.mode = "exact_out" =>
          /\ walk.total = Ins(pool, call.forY)[k]
          /\ walk.left = call.amount - Held(pool, call.forY)[k]

(* What an output costs that ends k bins on: those bins in full, and of the   *)
(* next the rest.                                                          *)
Bought(p, forY, t, k, want, in, fee) ==
    \/ want = 0 /\ k = 0 /\ in = 0 /\ fee = 0
    \/ LET b == Way(p, forY)[k + 1]
           w == want - Held(p, forY)[k]
       IN  /\ w \in 1 .. Most(p, forY, b)
           /\ in = Ins(p, forY)[k] + In(forY, b, w)
           /\ fee = Fees(p, forY, t)[k] + FeeFor(p, forY, t, b, w)
           /\ Passable(p, forY, b)

Spent(k) ==
    /\ call.mode = "exact_in" =>
          /\ Held(pool, call.forY)[k] <= walk.total
          /\ walk.total <= Held(pool, call.forY)[k] + Most(pool, call.forY, walk.active)
    /\ call.mode = "exact_out" =>
          Bought(pool, call.forY, Time, k, call.amount, walk.total, walk.fee)

WalkInv ==
    walk.status \in {"finding", "crossing", "Ok"} =>
        /\ Distance \in 0 .. Steps(pool, call.forY) - 1
        /\ walk.iref = Refs(pool, Time).iref /\ walk.vref = Refs(pool, Time).vref
        /\ Entry(pool, call.clock) = "finding"
        /\ \A j \in 1 .. Distance : Passable(pool, call.forY, Way(pool, call.forY)[j])
        /\ walk.status = "crossing" =>
              /\ walk.array \in pool.cached
              /\ walk.active \in BinsOf(walk.array) => Passable(pool, call.forY, walk.active)
        /\ walk.status = "Ok" => walk.left = 0
        /\ walk.left > 0 => Underway(Distance)
        /\ walk.left = 0 => Spent(Distance)

(* What a promise is made of: the bins that are to be passed, and the input   *)
(* that pays for them and for a part of the next.                          *)
Promise(k, in) ==
    /\ promised.want \in Nat /\ promised.fee \in Nat
    /\ Bought(pool, call.forY, Time, k, promised.want, in, promised.fee)
    /\ call.amount = (in + promised.fee) - promised.short
    /\ \A j \in 1 .. k : Passable(pool, call.forY, Way(pool, call.forY)[j])

(* A replayed quote passes those bins and none beyond: it has the promised    *)
(* input, or one unit less, to spend.                                      *)
PromiseInv ==
    promised # NoPromise =>
        /\ promised.short \in {0, 1} /\ walk.status # "idle" /\ call.mode = "exact_in"
        /\ \E k \in 0 .. Steps(pool, call.forY) - 1, in \in Nat :
              Promise(k, in) /\ (Running /\ walk.left > 0 => Distance <= k)
        /\ (Running \/ walk.status = "Ok") /\ walk.left = 0 =>
              /\ promised.short = 0 => walk.total >= promised.want /\ walk.fee = promised.fee
              /\ promised.short = 1 => walk.total < promised.want
        /\ promised.short = 0 =>
              walk.status \notin {"Refused", "OutOfLiquidity", "ArrayNotCached", "BinIdOutOfRange"}

-----------------------------------------------------------------------------
(* One bin crossed. *)

Step1(forY, b) == IF forY THEN b - 1 ELSE b + 1

(* What is left is spent in the bin, which is not left behind. *)
Stops(b) ==
    /\ walk'.left = 0 /\ walk'.status = "crossing" /\ walk'.active = b
    /\ call.mode = "exact_out" =>
          /\ walk.left \in 1 .. Most(pool, call.forY, b)
          /\ walk'.total = walk.total + In(call.forY, b, walk.left)
          /\ walk'.fee = walk.fee + FeeFor(pool, call.forY, Time, b, walk.left)
    /\ call.mode = "exact_in" =>
          LET most == Most(pool, call.forY, b)
              fee  == FeeWithin(RateOf(pool, Time, b), walk.left)
              buys == OutputFor(walk.left - fee, Price[b], call.forY)
          IN  /\ walk.left <= In(call.forY, b, most) + FeeFor(pool, call.forY, Time, b, most)
              /\ walk'.fee = walk.fee + fee
              /\ \E out \in 0 .. most :
                    /\ walk'.total = walk.total + out
                    /\ \A w \in 0 .. most : (w <= buys => w <= out) /\ (buys < w => out < w)

(* The bin is emptied, and left behind unless it is the last there is. *)
Passes(b) ==
    LET most == Most(pool, call.forY, b)
        in   == In(call.forY, b, most)
        fee  == FeeFor(pool, call.forY, Time, b, most)
    IN  /\ call.mode = "exact_out" =>
              /\ walk.left > most /\ walk'.left = walk.left - most
              /\ walk'.total = walk.total + in
        /\ call.mode = "exact_in" =>
              /\ walk.left > in + fee /\ walk'.left = walk.left - (in + fee)
              /\ walk'.total = walk.total + most
        /\ walk'.fee = walk.fee + fee
        /\ \/ walk'.status = "crossing" /\ walk'.active = Step1(call.forY, b) /\ walk'.active \in BinIds
           \/ walk'.status = "BinIdOutOfRange" /\ Step1(call.forY, b) \notin BinIds
              /\ walk'.active = b

\* What the bin trades: as much as is asked of it, or all it has.
LEMMA TradeFacts ==
    ASSUME NEW p \in Pools, NEW b \in BinIds, NEW forY \in BOOLEAN, NEW t,
           NEW mode \in {"exact_in", "exact_out"},
           NEW w, w.active = b, w.left \in Nat, w.left > 0, p = pool,
           TotalFeeRate(p, w.vacc) = RateOf(p, t, b),
           NEW trade, trade = Trade(w, forY, mode), trade.ok,
           NEW most, most = Most(p, forY, b),
           NEW in, in = In(forY, b, most), NEW fee, fee = FeeFor(p, forY, t, b, most)
    PROVE  /\ trade.in \in Nat /\ trade.out \in Nat /\ trade.fee \in Nat
           /\ mode = "exact_out" =>
                \/ /\ w.left \in 1 .. most /\ trade.out = w.left
                   /\ trade.in = In(forY, b, w.left) /\ trade.fee = FeeFor(p, forY, t, b, w.left)
                \/ w.left > most /\ trade.out = most /\ trade.in = in /\ trade.fee = fee
           /\ mode = "exact_in" =>
                \/ /\ w.left <= in + fee /\ trade.in = w.left
                   /\ trade.fee = FeeWithin(RateOf(p, t, b), w.left)
                   /\ trade.out \in 0 .. most
                   /\ LET buys == OutputFor(w.left - trade.fee, Price[b], forY)
                      IN  \A v \in 0 .. most : (v <= buys => v <= trade.out)
                                              /\ (buys < v => trade.out < v)
                \/ w.left > in + fee /\ trade.out = most /\ trade.in = in + fee /\ trade.fee = fee
<1> DEFINE rate == RateOf(p, t, b)
<1>1. most \in Nat /\ in \in Nat /\ fee \in Nat /\ rate \in Rates
  BY CostFacts, BinRateFacts
<1>2. most = Reserve(p, b, forY) /\ in = InputFor(most, Price[b], forY) /\ fee = FeeOnTop(rate, in)
  BY DEF Most, In, FeeFor
<1>3. CASE most = 0
  <2>1. trade = [ok |-> TRUE, in |-> 0, out |-> 0, fee |-> 0]
    BY <1>2, <1>3 DEF Trade
  <2>2. in = 0 /\ fee = 0
    BY <1>3, CostFacts
  <2> QED
    BY <1>3, <2>1, <2>2
<1>4. CASE most # 0 /\ mode = "exact_in"
  <2>1. trade = BinSwap(p, b, w.left, rate, forY)
    BY <1>2, <1>4 DEF Trade
  <2> DEFINE within == FeeWithin(rate, w.left)
             buys == OutputFor(w.left - within, Price[b], forY)
  <2>2. /\ within \in 0 .. w.left
        /\ w.left > in + fee => trade.in = in + fee /\ trade.out = most /\ trade.fee = fee
        /\ ~(w.left > in + fee) =>
             /\ trade.in = w.left /\ trade.fee = within
             /\ trade.out \in 0 .. most
             /\ \A v \in 0 .. most : (v <= buys => v <= trade.out) /\ (buys < v => trade.out < v)
    <3> HIDE DEF rate
    <3> QED
      BY <1>1, <1>2, <2>1, BinSwapFacts
  <2>3. CASE w.left > in + fee
    BY <1>1, <1>4, <2>2, <2>3
  <2>4. CASE ~(w.left > in + fee)
    <3>1. w.left <= in + fee /\ trade.in \in Nat /\ trade.out \in Nat /\ trade.fee \in Nat
      BY <1>1, <2>2, <2>4
    <3>2. trade.fee = within /\ trade.in = w.left /\ trade.out \in 0 .. most
      BY <2>2, <2>4
    <3>3. \A v \in 0 .. most : (v <= buys => v <= trade.out) /\ (buys < v => trade.out < v)
      BY <2>2, <2>4
    <3> HIDE DEF rate
    <3> QED
      BY <1>4, <3>1, <3>2, <3>3 DEF rate
  <2> QED
    BY <2>3, <2>4
<1>5. CASE most # 0 /\ mode = "exact_out"
  <2>1. trade = BinSwapOut(p, b, w.left, rate, forY)
    BY <1>2, <1>5 DEF Trade
  <2>2. /\ trade.out = IF w.left <= most THEN w.left ELSE most
        /\ trade.in = InputFor(trade.out, Price[b], forY)
        /\ trade.fee = FeeOnTop(rate, trade.in)
    <3> HIDE DEF rate
    <3> QED
      BY <1>1, <1>2, <2>1, BinSwapOutFacts
  <2>3. trade.in = In(forY, b, trade.out) /\ trade.fee = FeeFor(p, forY, t, b, trade.out)
    BY <2>2 DEF In, FeeFor
  <2>4. trade.out \in Nat /\ trade.in \in Nat /\ trade.fee \in Nat
    <3>1. trade.out \in Nat
      BY <1>1, <2>2
    <3>2. \A v \in Nat : In(forY, b, v) \in Nat /\ FeeFor(p, forY, t, b, v) \in Nat
      BY CostFacts
    <3> QED
      BY <2>3, <3>1, <3>2
  <2>5. CASE w.left <= most
    BY <1>1, <1>5, <2>2, <2>3, <2>4, <2>5
  <2>6. CASE ~(w.left <= most)
    BY <1>1, <1>5, <2>2, <2>3, <2>4, <2>6
  <2> QED
    BY <2>5, <2>6
<1> QED
  BY <1>3, <1>4, <1>5

\* Crossing a bin overflows, stops in it or passes it.
LEMMA CrossFacts ==
    ASSUME TypeOK, CrossBin, walk.iref = Refs(pool, Time).iref, walk.vref = Refs(pool, Time).vref
    PROVE  /\ walk' \in Walks /\ walk'.array = walk.array
           /\ walk'.iref = walk.iref /\ walk'.vref = walk.vref
           /\ \/ walk'.status = "Overflow"
              \/ Stops(walk.active)
              \/ Passes(walk.active)
<1> DEFINE b     == walk.active
           forY  == call.forY
           vacc  == Volatility(pool, walk.iref, walk.vref, b)
           before == [walk EXCEPT !.vacc = vacc]
           trade == Trade(before, forY, call.mode)
           exact == call.mode = "exact_in"
           done  == [walk EXCEPT !.vacc  = vacc,
                                 !.left  = @ - (IF exact THEN trade.in ELSE trade.out),
                                 !.total = @ + (IF exact THEN trade.out ELSE trade.in),
                                 !.fee   = @ + trade.fee]
           most == Most(pool, forY, b)
           in   == In(forY, b, most)
           fee  == FeeFor(pool, forY, Time, b, most)
<1>1. /\ pool \in Pools /\ b \in BinIds /\ forY \in BOOLEAN
      /\ call.mode \in {"exact_in", "exact_out"}
      /\ walk \in Walks /\ walk.left \in Nat /\ walk.left > 0 /\ walk.status = "crossing"
      /\ walk.total \in Nat /\ walk.fee \in Nat
  BY DEF TypeOK, CrossBin, Walks
<1>2. vacc \in Nat /\ TotalFeeRate(pool, vacc) = RateOf(pool, Time, b)
  BY <1>1, BinRateFacts DEF RateOf
<1>3. \/ ~trade.ok /\ walk' = [walk EXCEPT !.status = "Overflow"]
      \/ trade.ok /\ walk' = [walk EXCEPT !.status = "Overflow"]
      \/ trade.ok /\ walk' = Advance(done, forY)
  <2>1. \E v \in {vacc} : \E tr \in {Trade([walk EXCEPT !.vacc = v], forY, call.mode)} :
          IF ~tr.ok THEN walk' = [walk EXCEPT !.status = "Overflow"]
          ELSE LET dn == [walk EXCEPT !.vacc  = v,
                                      !.left  = @ - (IF exact THEN tr.in ELSE tr.out),
                                      !.total = @ + (IF exact THEN tr.out ELSE tr.in),
                                      !.fee   = @ + tr.fee]
               IN  walk' = IF Fits(dn.total) /\ Fits(dn.fee) THEN Advance(dn, forY)
                           ELSE [walk EXCEPT !.status = "Overflow"]
    BY DEF CrossBin
  <2>2. IF ~trade.ok THEN walk' = [walk EXCEPT !.status = "Overflow"]
        ELSE walk' = IF Fits(done.total) /\ Fits(done.fee) THEN Advance(done, forY)
                     ELSE [walk EXCEPT !.status = "Overflow"]
    <3> HIDE DEF vacc
    <3> QED
      BY <2>1, Zenon
  <2> HIDE DEF trade, done
  <2> QED
    BY <2>2
<1>4. CASE walk' = [walk EXCEPT !.status = "Overflow"]
  BY <1>1, <1>4 DEF Walks, Statuses
<1>5. CASE trade.ok /\ walk' = Advance(done, forY)
  <2>1. /\ before.active = b /\ before.left = walk.left /\ before.vacc = vacc
    BY <1>1 DEF Walks
  <2> HIDE DEF vacc, before
  <2>2. /\ trade.in \in Nat /\ trade.out \in Nat /\ trade.fee \in Nat
        /\ call.mode = "exact_out" =>
             \/ /\ walk.left \in 1 .. most /\ trade.out = walk.left
                /\ trade.in = In(forY, b, walk.left)
                /\ trade.fee = FeeFor(pool, forY, Time, b, walk.left)
             \/ walk.left > most /\ trade.out = most /\ trade.in = in /\ trade.fee = fee
        /\ call.mode = "exact_in" =>
             \/ /\ walk.left <= in + fee /\ trade.in = walk.left
                /\ trade.fee = FeeWithin(RateOf(pool, Time, b), walk.left)
                /\ trade.out \in 0 .. most
                /\ LET buys == OutputFor(walk.left - trade.fee, Price[b], forY)
                   IN  \A v \in 0 .. most : (v <= buys => v <= trade.out)
                                           /\ (buys < v => trade.out < v)
             \/ walk.left > in + fee /\ trade.out = most /\ trade.in = in + fee /\ trade.fee = fee
    BY <1>1, <1>2, <1>5, <2>1, TradeFacts
  <2>3. most \in Nat /\ in \in Nat /\ fee \in Nat
    BY <1>1, CostFacts
  <2> HIDE DEF trade
  <2>4. /\ walk.left - (IF exact THEN trade.in ELSE trade.out) \in Nat
        /\ walk.total + (IF exact THEN trade.out ELSE trade.in) \in Nat
        /\ walk.fee + trade.fee \in Nat
    <3> HIDE DEF most, in, fee
    <3> QED
      BY <1>1, <2>2, <2>3
  <2>5. /\ done \in Walks /\ done.array = walk.array /\ done.iref = walk.iref
        /\ done.vref = walk.vref /\ done.status = "crossing" /\ done.active = b
        /\ done.left = walk.left - (IF exact THEN trade.in ELSE trade.out)
        /\ done.total = walk.total + (IF exact THEN trade.out ELSE trade.in)
        /\ done.fee = walk.fee + trade.fee
    BY <1>1, <1>2, <2>4 DEF Walks
  <2> HIDE DEF done, most, in, fee
  <2>6. /\ walk' \in Walks /\ walk'.array = walk.array
        /\ walk'.iref = walk.iref /\ walk'.vref = walk.vref
        /\ walk'.left = done.left /\ walk'.total = done.total /\ walk'.fee = done.fee
        /\ done.left = 0 => walk'.status = "crossing" /\ walk'.active = b
        /\ done.left # 0 =>
             \/ walk'.status = "crossing" /\ walk'.active = Step1(forY, b) /\ walk'.active \in BinIds
             \/ walk'.status = "BinIdOutOfRange" /\ Step1(forY, b) \notin BinIds /\ walk'.active = b
    <3>1. CASE done.left = 0
      BY <1>5, <2>5, <3>1 DEF Advance
    <3>2. CASE done.left # 0 /\ Step1(forY, b) \in BinIds
      <4>1. walk' = [done EXCEPT !.active = Step1(forY, b)]
        BY <1>5, <2>5, <3>2 DEF Advance, Step1, BinIds
      <4> QED
        BY <2>5, <3>2, <4>1 DEF Walks
    <3>3. CASE done.left # 0 /\ Step1(forY, b) \notin BinIds
      <4>1. walk' = [done EXCEPT !.status = "BinIdOutOfRange"]
        BY <1>5, <2>5, <3>3 DEF Advance, Step1, BinIds
      <4> QED
        BY <2>5, <3>3, <4>1 DEF Walks, Statuses
    <3> QED
      BY <3>1, <3>2, <3>3
  <2>7. CASE call.mode = "exact_out"
    <3>1. CASE walk.left \in 1 .. most /\ trade.out = walk.left
               /\ trade.in = In(forY, b, walk.left)
               /\ trade.fee = FeeFor(pool, forY, Time, b, walk.left)
      <4>1. done.left = 0
        BY <1>1, <2>5, <2>7, <3>1
      <4>2. walk'.total = walk.total + In(forY, b, walk.left)
            /\ walk'.fee = walk.fee + FeeFor(pool, forY, Time, b, walk.left)
        BY <2>5, <2>6, <2>7, <3>1
      <4>3. Stops(b)
        BY <2>6, <2>7, <3>1, <4>1, <4>2 DEF Stops, most
      <4> QED
        BY <2>6, <4>3
    <3>2. CASE walk.left > most /\ trade.out = most /\ trade.in = in /\ trade.fee = fee
      <4>1. done.left = walk.left - most /\ done.left # 0
        BY <1>1, <2>3, <2>5, <2>7, <3>2
      <4>2. walk'.total = walk.total + in /\ walk'.fee = walk.fee + fee
        BY <2>5, <2>6, <2>7, <3>2
      <4>3. Passes(b)
        BY <2>6, <2>7, <3>2, <4>1, <4>2 DEF Passes, most, in, fee
      <4> QED
        BY <2>6, <4>3
    <3> QED
      BY <2>2, <2>7, <3>1, <3>2
  <2>8. CASE call.mode = "exact_in"
    <3>1. CASE /\ walk.left <= in + fee /\ trade.in = walk.left
               /\ trade.fee = FeeWithin(RateOf(pool, Time, b), walk.left)
               /\ trade.out \in 0 .. most
               /\ LET buys == OutputFor(walk.left - trade.fee, Price[b], forY)
                  IN  \A v \in 0 .. most : (v <= buys => v <= trade.out)
                                          /\ (buys < v => trade.out < v)
      <4>1. done.left = 0
        BY <1>1, <2>5, <2>8, <3>1
      <4>2. walk'.total = walk.total + trade.out
            /\ walk'.fee = walk.fee + FeeWithin(RateOf(pool, Time, b), walk.left)
        BY <2>5, <2>6, <2>8, <3>1
      <4>3. Stops(b)
        BY <2>6, <2>8, <3>1, <4>1, <4>2 DEF Stops, most, in, fee
      <4> QED
        BY <2>6, <4>3
    <3>2. CASE walk.left > in + fee /\ trade.out = most /\ trade.in = in + fee /\ trade.fee = fee
      <4>1. done.left = walk.left - (in + fee) /\ done.left # 0
        BY <1>1, <2>3, <2>5, <2>8, <3>2
      <4>2. walk'.total = walk.total + most /\ walk'.fee = walk.fee + fee
        BY <2>5, <2>6, <2>8, <3>2
      <4>3. Passes(b)
        BY <2>6, <2>8, <3>2, <4>1, <4>2 DEF Passes, most, in, fee
      <4> QED
        BY <2>6, <4>3
    <3> QED
      BY <2>2, <2>8, <3>1, <3>2
  <2> QED
    BY <1>1, <2>7, <2>8
<1> QED
  BY <1>3, <1>4, <1>5

-----------------------------------------------------------------------------
(* The steps. *)

\* An array found is an index.
LEMMA FirstFacts ==
    ASSUME NEW p \in Pools, NEW forY \in BOOLEAN, NEW b \in BinIds,
           NEW found, found = ArraysForSwap(p, b, forY, 1), found # <<>>
    PROVE  found[1] \in Int
<1> DEFINE start == ArrayOf(b)
           hits  == Hits(p, start, forY, 1)
           count == Cardinality({m \in 1 .. 1 : hits[m].found})
<1>1. start \in Int
  BY ArrayFacts
<1>2. found = [n \in 1 .. count |-> hits[n].at]
  <2>1. ArraysFrom(p, start, forY, 1) =
          LET h == CHOOSE g : AreHits(g, p, start, forY, 1)
          IN  [n \in 1 .. Cardinality({m \in 1 .. 1 : h[m].found}) |-> h[n].at]
    BY Zenon DEF ArraysFrom, AreHits
  <2> QED
    BY <2>1, Zenon DEF Hits, ArraysForSwap
<1>3. hits[1] = NextFrom(p, forY, start)
  <2>1. 1 \in Nat \ {0}
    OBVIOUS
  <2> QED
    BY <2>1, HitsFacts
<1> HIDE DEF start, hits
<1>4. \A n \in 1 .. 1 : n = 1
  OBVIOUS
<1>5. {m \in 1 .. 1 : hits[m].found} # {}
  <2>1. SUFFICES ASSUME {m \in 1 .. 1 : hits[m].found} = {} PROVE FALSE
    OBVIOUS
  <2>2. count = 0
    BY <2>1, FS_EmptySet
  <2>3. found = <<>>
    <3> HIDE DEF count
    <3> QED
      BY <1>2, <2>2
  <2> QED
    BY <2>3
<1>6. NextFrom(p, forY, start).found /\ {m \in 1 .. 1 : hits[m].found} = {1}
  BY <1>3, <1>4, <1>5
<1>7. count = 1
  BY <1>6, FS_Singleton
<1>8. found[1] = NextFrom(p, forY, start).at
  <2> HIDE DEF count
  <2> QED
    BY <1>2, <1>3, <1>7
<1>9. NextFrom(p, forY, start).at \in p.flagged
  BY <1>1, <1>6, FoundIsFlagged
<1> QED
  BY <1>8, <1>9, FlagFacts

\* A quote that is entered is at the start of its way.
LEMMA EnterFacts ==
    ASSUME pool \in Pools, NEW mode \in {"exact_in", "exact_out"}, NEW forY \in BOOLEAN,
           NEW amount \in Nat, NEW clock, Enter(mode, forY, amount, clock)
    PROVE  /\ pool' = pool
           /\ call'.mode = mode /\ call'.forY = forY /\ call'.amount = amount /\ call'.clock = clock
           /\ walk' \in Walks
           /\ walk'.status = Entry(pool, clock)
           /\ walk'.active = pool.active /\ walk'.left = amount
           /\ walk'.total = 0 /\ walk'.fee = 0
           /\ WalkInv'
<1> DEFINE refs == Refs(pool, clock.timestamp)
<1>1. /\ pool' = pool
      /\ call' = [mode |-> mode, forY |-> forY, amount |-> amount, clock |-> clock]
      /\ walk' = [status |-> Entry(pool, clock),
                  active |-> pool.active, iref |-> refs.iref, vref |-> refs.vref,
                  vacc |-> pool.vacc, array |-> NoArray,
                  left |-> amount, total |-> 0, fee |-> 0]
  BY Zenon DEF Enter, Refs
<1>2. /\ pool.active \in BinIds /\ pool.vacc \in Nat /\ NoArray \in Int
      /\ refs.iref \in Int /\ refs.vref \in Nat
      /\ Entry(pool, clock) \in {"finding", "Refused", "Overflow"}
  BY RefsFacts, SnapshotAssumption, BinAssumption DEF BinIds, NoArray, Entry
<1> HIDE DEF refs
<1>3. walk' \in Walks
  BY <1>1, <1>2 DEF Walks, Statuses
<1>4. /\ call'.mode = mode /\ call'.forY = forY /\ call'.amount = amount /\ call'.clock = clock
      /\ walk'.status = Entry(pool, clock)
      /\ walk'.active = pool.active /\ walk'.left = amount
      /\ walk'.total = 0 /\ walk'.fee = 0 /\ walk'.iref = refs.iref /\ walk'.vref = refs.vref
  BY <1>1
<1>5. ASSUME Entry(pool, clock) = "finding" PROVE WalkInv'
  <2>1. Distance' = 0
    <3>1. pool.active \in Int
      BY <1>2, BinAssumption DEF BinIds
    <3> QED
      BY <1>1, <1>4, <3>1 DEF Distance
  <2>2. /\ Steps(pool, forY) \in Nat \ {0}
        /\ Held(pool, forY)[0] = 0 /\ Ins(pool, forY)[0] = 0
        /\ Fees(pool, forY, clock.timestamp)[0] = 0
        /\ Most(pool, forY, pool.active) \in Nat
    <3>1. Steps(pool, forY) \in Nat \ {0}
      BY WayFacts
    <3>2. /\ Held(pool, forY)[0] = 0 /\ Ins(pool, forY)[0] = 0
          /\ Fees(pool, forY, clock.timestamp)[0] = 0
      BY WaySums
    <3>3. Most(pool, forY, pool.active) \in Nat
      BY <1>2, CostFacts
    <3> QED
      BY <3>1, <3>2, <3>3
  <2>3. Underway(0)'
    BY <1>1, <1>4, <2>2 DEF Underway, Time
  <2>4. walk'.left = 0 => Spent(0)'
    BY <1>1, <1>4, <2>2 DEF Spent, Bought, Time
  <2>5. Distance' \in 0 .. Steps(pool', call'.forY) - 1
    BY <1>1, <1>4, <2>1, <2>2
  <2>6. Entry(pool', call'.clock) = "finding"
    BY <1>1, <1>4, <1>5
  <2>7. walk'.status = "finding"
    BY <1>4, <1>5
  <2>8. walk'.iref = Refs(pool', Time').iref /\ walk'.vref = Refs(pool', Time').vref
    BY <1>1, <1>4 DEF refs, Time
  <2>9. \A j \in 1 .. Distance' : FALSE
    BY <2>1
  <2> QED
    BY <2>1, <2>3, <2>4, <2>5, <2>6, <2>7, <2>8, <2>9 DEF WalkInv
<1>6. ASSUME Entry(pool, clock) # "finding" PROVE WalkInv'
  BY <1>2, <1>4, <1>6 DEF WalkInv
<1> QED
  BY <1>1, <1>3, <1>4, <1>5, <1>6

\* Where a walk moves to another loop, what it has paid and taken stays.
LEMMA QuietFacts ==
    ASSUME pool' = pool, call' = call,
           walk'.active = walk.active, walk'.left = walk.left,
           walk'.total = walk.total, walk'.fee = walk.fee, NEW k
    PROVE  /\ Distance' = Distance /\ Time' = Time
           /\ Underway(k)' <=> Underway(k)
           /\ Spent(k)' <=> Spent(k)
<1>1. Distance' = Distance /\ Time' = Time
  BY DEF Distance, Time
<1>2. Underway(k)' <=> Underway(k)
  BY <1>1 DEF Underway
<1>3. Spent(k)' <=> Spent(k)
  BY <1>1 DEF Spent
<1> QED
  BY <1>1, <1>2, <1>3

\* Finding an array: from a bin that can be passed, the array it lies in.
LEMMA FindStep ==
    ASSUME TypeOK, WalkInv, FindArray
    PROVE  /\ pool' = pool /\ call' = call /\ promised' = promised
           /\ walk' \in Walks /\ WalkInv'
           /\ walk'.active = walk.active /\ walk'.left = walk.left
           /\ walk'.total = walk.total /\ walk'.fee = walk.fee
           /\ walk'.status \in {"crossing", "OutOfLiquidity", "ArrayNotCached"}
           /\ Passable(pool, call.forY, walk.active) => walk'.status = "crossing"
<1> DEFINE found == ArraysForSwap(pool, walk.active, call.forY, 1)
<1>1. /\ walk \in Walks /\ walk.active \in BinIds /\ pool \in Pools
      /\ walk.status = "finding" /\ walk.left > 0 /\ call.forY \in BOOLEAN
  BY DEF TypeOK, FindArray, Walks
<1>2. found # <<>> => found[1] \in Int
  BY <1>1, FirstFacts
<1>3. /\ found = <<>> => walk' = [walk EXCEPT !.status = "OutOfLiquidity"]
      /\ found # <<>> /\ found[1] \notin pool.cached =>
            walk' = [walk EXCEPT !.status = "ArrayNotCached"]
      /\ found # <<>> /\ found[1] \in pool.cached =>
            walk' = [walk EXCEPT !.array = found[1], !.status = "crossing"]
      /\ pool' = pool /\ call' = call /\ promised' = promised
  <2>1. CASE found = <<>>
    BY <2>1 DEF FindArray, End
  <2>2. CASE found # <<>> /\ found[1] \notin pool.cached
    BY <2>2 DEF FindArray, End
  <2>3. CASE found # <<>> /\ found[1] \in pool.cached
    BY <2>3 DEF FindArray, End
  <2> QED
    BY <2>1, <2>2, <2>3
<1>4. Passable(pool, call.forY, walk.active) <=>
        found # <<>> /\ found[1] = ArrayOf(walk.active) /\ found[1] \in pool.cached
  BY DEF Passable
<1>5. \A i \in Int : walk.active \in BinsOf(i) <=> i = ArrayOf(walk.active)
  BY <1>1, ArrayFacts
<1> HIDE DEF found
<1>6. /\ walk' \in Walks
      /\ walk'.active = walk.active /\ walk'.left = walk.left
      /\ walk'.total = walk.total /\ walk'.fee = walk.fee
      /\ walk'.iref = walk.iref /\ walk'.vref = walk.vref
      /\ walk'.status \in {"crossing", "OutOfLiquidity", "ArrayNotCached"}
      /\ walk'.status = "crossing" <=> found # <<>> /\ found[1] \in pool.cached
      /\ walk'.status = "crossing" => walk'.array = found[1]
  <2>1. CASE found = <<>>
    BY <1>1, <1>3, <2>1 DEF Walks, Statuses
  <2>2. CASE found # <<>> /\ found[1] \notin pool.cached
    BY <1>1, <1>3, <2>2 DEF Walks, Statuses
  <2>3. CASE found # <<>> /\ found[1] \in pool.cached
    BY <1>1, <1>2, <1>3, <2>3 DEF Walks, Statuses
  <2> QED
    BY <2>1, <2>2, <2>3
<1>7. WalkInv'
  <2>1. SUFFICES ASSUME walk'.status = "crossing" PROVE WalkInv'
    BY <1>6 DEF WalkInv
  <2>2. /\ walk'.array \in pool'.cached
        /\ walk'.active \in BinsOf(walk'.array) => Passable(pool', call'.forY, walk'.active)
    BY <1>2, <1>3, <1>4, <1>5, <1>6, <2>1
  <2>3. /\ Distance \in 0 .. Steps(pool, call.forY) - 1
        /\ walk.iref = Refs(pool, Time).iref /\ walk.vref = Refs(pool, Time).vref
        /\ Entry(pool, call.clock) = "finding"
        /\ \A j \in 1 .. Distance : Passable(pool, call.forY, Way(pool, call.forY)[j])
        /\ Underway(Distance)
    BY <1>1 DEF WalkInv
  <2>4. Distance' = Distance /\ Time' = Time /\ (Underway(Distance)' <=> Underway(Distance))
    <3>1. \A k : Distance' = Distance /\ Time' = Time /\ (Underway(k)' <=> Underway(k))
      BY <1>3, <1>6, QuietFacts
    <3> QED
      BY <3>1
  <2> QED
    BY <1>1, <1>3, <1>6, <2>1, <2>2, <2>3, <2>4 DEF WalkInv
<1> QED
  BY <1>3, <1>4, <1>6, <1>7

\* The end of a quote: nothing is left.
LEMMA FinishStep ==
    ASSUME TypeOK, WalkInv, Finish
    PROVE  /\ pool' = pool /\ call' = call /\ promised' = promised
           /\ walk' \in Walks /\ WalkInv'
           /\ walk'.left = walk.left /\ walk'.total = walk.total /\ walk'.fee = walk.fee
           /\ walk'.status \in {"Ok", "Overflow"} /\ walk.left = 0
<1>1. /\ walk \in Walks /\ walk.status = "finding" /\ walk.left = 0
      /\ pool' = pool /\ call' = call /\ promised' = promised
      /\ \E s \in {"Ok", "Overflow"} : walk' = [walk EXCEPT !.status = s]
  BY DEF TypeOK, Finish, End
<1>2. /\ walk' \in Walks /\ walk'.active = walk.active /\ walk'.left = walk.left
      /\ walk'.total = walk.total /\ walk'.fee = walk.fee
      /\ walk'.iref = walk.iref /\ walk'.vref = walk.vref
      /\ walk'.status \in {"Ok", "Overflow"}
  BY <1>1 DEF Walks, Statuses
<1>3. /\ Distance \in 0 .. Steps(pool, call.forY) - 1
      /\ walk.iref = Refs(pool, Time).iref /\ walk.vref = Refs(pool, Time).vref
      /\ Entry(pool, call.clock) = "finding"
      /\ \A j \in 1 .. Distance : Passable(pool, call.forY, Way(pool, call.forY)[j])
      /\ Spent(Distance)
  BY <1>1 DEF WalkInv
<1>4. Distance' = Distance /\ Time' = Time /\ (Spent(Distance)' <=> Spent(Distance))
  <2>1. \A k : Distance' = Distance /\ Time' = Time /\ (Spent(k)' <=> Spent(k))
    BY <1>1, <1>2, QuietFacts
  <2> QED
    BY <2>1
<1>5. WalkInv'
  BY <1>1, <1>2, <1>3, <1>4 DEF WalkInv
<1> QED
  BY <1>1, <1>2, <1>5

\* The end of an array: the walk looks for the next.
LEMMA LeaveStep ==
    ASSUME TypeOK, WalkInv, LeaveArray
    PROVE  /\ pool' = pool /\ call' = call /\ promised' = promised
           /\ walk' \in Walks /\ WalkInv' /\ walk'.active = walk.active
           /\ walk'.left = walk.left /\ walk'.total = walk.total /\ walk'.fee = walk.fee
           /\ walk'.status = "finding" /\ walk.status = "crossing"
<1>1. /\ walk \in Walks /\ walk.status = "crossing"
      /\ pool' = pool /\ call' = call /\ promised' = promised
      /\ walk' = [walk EXCEPT !.status = "finding", !.array = NoArray]
  BY DEF TypeOK, LeaveArray
<1>2. /\ walk' \in Walks /\ walk'.active = walk.active /\ walk'.left = walk.left
      /\ walk'.total = walk.total /\ walk'.fee = walk.fee
      /\ walk'.iref = walk.iref /\ walk'.vref = walk.vref
      /\ walk'.status = "finding"
  <2>1. NoArray \in Int
    BY BinAssumption DEF NoArray
  <2> QED
    BY <1>1, <2>1 DEF Walks, Statuses
<1>3. /\ Distance \in 0 .. Steps(pool, call.forY) - 1
      /\ walk.iref = Refs(pool, Time).iref /\ walk.vref = Refs(pool, Time).vref
      /\ Entry(pool, call.clock) = "finding"
      /\ \A j \in 1 .. Distance : Passable(pool, call.forY, Way(pool, call.forY)[j])
      /\ walk.left > 0 => Underway(Distance)
      /\ walk.left = 0 => Spent(Distance)
  BY <1>1 DEF WalkInv
<1>4. /\ Distance' = Distance /\ Time' = Time
      /\ Spent(Distance)' <=> Spent(Distance)
      /\ Underway(Distance)' <=> Underway(Distance)
  <2>1. \A k : /\ Distance' = Distance /\ Time' = Time
               /\ Spent(k)' <=> Spent(k)
               /\ Underway(k)' <=> Underway(k)
    BY <1>1, <1>2, QuietFacts
  <2> QED
    BY <2>1
<1>5. WalkInv'
  BY <1>1, <1>2, <1>3, <1>4 DEF WalkInv
<1> QED
  BY <1>1, <1>2, <1>5

\* The active bin is the one the way comes to after the distance walked.
LEMMA HereFacts ==
    ASSUME TypeOK, call.forY \in BOOLEAN, Distance \in 0 .. Steps(pool, call.forY) - 1
    PROVE  /\ Distance + 1 \in 1 .. Steps(pool, call.forY)
           /\ walk.active = Way(pool, call.forY)[Distance + 1]
           /\ walk.active \in BinIds /\ walk.active \in Int
           /\ Step1(call.forY, walk.active) \in BinIds <=>
                Distance + 1 \in 0 .. Steps(pool, call.forY) - 1
<1>1. /\ pool \in Pools /\ walk.active \in BinIds /\ walk.active \in Int
      /\ pool.active \in Int /\ MinBinId \in Int /\ MaxBinId \in Int
      /\ MinBinId <= walk.active /\ walk.active <= MaxBinId
      /\ MinBinId <= pool.active /\ pool.active <= MaxBinId
  BY SnapshotAssumption, BinAssumption DEF TypeOK, Walks, BinIds
<1>2. /\ Steps(pool, call.forY) \in Nat \ {0}
      /\ \A n \in 1 .. Steps(pool, call.forY) :
            Way(pool, call.forY)[n] = IF call.forY THEN pool.active - n + 1 ELSE pool.active + n - 1
  BY <1>1, WayFacts
<1>3. Distance + 1 \in 1 .. Steps(pool, call.forY) /\ Distance \in Int
  BY <1>2
<1>4. walk.active = Way(pool, call.forY)[Distance + 1]
  <2>1. Way(pool, call.forY)[Distance + 1] =
          IF call.forY THEN pool.active - (Distance + 1) + 1 ELSE pool.active + (Distance + 1) - 1
    BY <1>2, <1>3
  <2> QED
    BY <1>1, <2>1 DEF Distance
<1>5. Step1(call.forY, walk.active) \in BinIds <=>
        Distance + 1 \in 0 .. Steps(pool, call.forY) - 1
  <2> DEFINE here == walk.active
             from == pool.active
  <2>1. /\ here \in Int /\ from \in Int /\ MinBinId \in Int /\ MaxBinId \in Int
        /\ MinBinId <= here /\ here <= MaxBinId /\ MinBinId <= from /\ from <= MaxBinId
    BY <1>1
  <2>2. CASE call.forY
    <3>1. Distance = from - here /\ Steps(pool, call.forY) = from - MinBinId + 1
          /\ Step1(call.forY, walk.active) = here - 1
      BY <2>2 DEF Step1, Steps, Distance
    <3>2. from - here >= 0
      BY <1>3, <2>1, <3>1
    <3> HIDE DEF here, from
    <3> QED
      BY <2>1, <3>1, <3>2 DEF BinIds
  <2>3. CASE ~call.forY
    <3>1. Distance = here - from /\ Steps(pool, call.forY) = MaxBinId - from + 1
          /\ Step1(call.forY, walk.active) = here + 1
      BY <2>3 DEF Step1, Steps, Distance
    <3>2. here - from >= 0
      BY <1>3, <2>1, <3>1
    <3> HIDE DEF here, from
    <3> QED
      BY <2>1, <3>1, <3>2 DEF BinIds
  <2> QED
    BY <2>2, <2>3
<1> QED
  BY <1>1, <1>3, <1>4, <1>5

\* Crossing a bin: the bin can be passed, and what it gave and took is in the sums.
LEMMA CrossStep ==
    ASSUME TypeOK, WalkInv, CrossBin
    PROVE  /\ pool' = pool /\ call' = call /\ promised' = promised
           /\ walk' \in Walks /\ WalkInv'
           /\ \/ walk'.status = "Overflow"
              \/ Stops(walk.active) /\ Distance' = Distance
              \/ Passes(walk.active) /\ (walk'.status = "crossing" => Distance' = Distance + 1)
<1> DEFINE b    == walk.active
           forY == call.forY
           n    == Steps(pool, forY)
           most == Most(pool, forY, b)
           in   == In(forY, b, most)
           fee  == FeeFor(pool, forY, Time, b, most)
<1>0. PICK k : k = Distance
  OBVIOUS
<1>1. /\ pool' = pool /\ call' = call /\ promised' = promised
      /\ walk.status = "crossing" /\ walk.left > 0 /\ b \in BinsOf(walk.array)
      /\ pool \in Pools /\ walk \in Walks /\ forY \in BOOLEAN
      /\ call.mode \in {"exact_in", "exact_out"} /\ call.amount \in Nat
  BY DEF CrossBin, TypeOK
<1>2. /\ k \in 0 .. n - 1
      /\ walk.iref = Refs(pool, Time).iref /\ walk.vref = Refs(pool, Time).vref
      /\ Entry(pool, call.clock) = "finding"
      /\ \A j \in 1 .. k : Passable(pool, forY, Way(pool, forY)[j])
      /\ walk.array \in pool.cached /\ Passable(pool, forY, b)
      /\ Underway(k)
  BY <1>0, <1>1 DEF WalkInv
<1>3. /\ walk' \in Walks /\ walk'.array = walk.array
      /\ walk'.iref = walk.iref /\ walk'.vref = walk.vref
      /\ walk'.status = "Overflow" \/ Stops(b) \/ Passes(b)
  BY <1>1, <1>2, CrossFacts
<1>4. /\ k + 1 \in 1 .. n /\ b = Way(pool, forY)[k + 1] /\ b \in BinIds /\ b \in Int
      /\ Step1(forY, b) \in BinIds <=> k + 1 \in 0 .. n - 1
      /\ n \in Nat
  BY <1>0, <1>1, <1>2, HereFacts, WayFacts
<1>5. /\ Held(pool, forY)[k] \in Nat /\ Ins(pool, forY)[k] \in Nat /\ Fees(pool, forY, Time)[k] \in Nat
      /\ Held(pool, forY)[k + 1] = Held(pool, forY)[k] + most
      /\ Ins(pool, forY)[k + 1] = Ins(pool, forY)[k] + in
      /\ Fees(pool, forY, Time)[k + 1] = Fees(pool, forY, Time)[k] + fee
      /\ most \in Nat /\ in \in Nat /\ fee \in Nat
  <2>1. k \in 0 .. n /\ k \in Int /\ (k + 1) - 1 = k
    BY <1>2, <1>4
  <2>2. Held(pool, forY)[k] \in Nat /\ Ins(pool, forY)[k] \in Nat /\ Fees(pool, forY, Time)[k] \in Nat
    BY <1>1, <2>1, WaySums
  <2>3. \A m \in 1 .. n : b = Way(pool, forY)[m] =>
                /\ Held(pool, forY)[m] = Held(pool, forY)[m - 1] + most
                /\ Ins(pool, forY)[m] = Ins(pool, forY)[m - 1] + in
                /\ Fees(pool, forY, Time)[m] = Fees(pool, forY, Time)[m - 1] + fee
    BY <1>1, <1>4, WaySums
  <2>4. most \in Nat /\ in \in Nat /\ fee \in Nat
    BY <1>1, <1>4, CostFacts
  <2> HIDE DEF n, most, in, fee, b
  <2> QED
    BY <1>4, <2>1, <2>2, <2>3, <2>4
<1>6. walk.left \in Nat /\ walk.total \in Nat /\ walk.fee \in Nat
  BY <1>1 DEF Walks
<1>7. Time' = Time /\ Entry(pool', call'.clock) = "finding"
  BY <1>1, <1>2 DEF Time
<1>8. CASE walk'.status = "Overflow"
  BY <1>1, <1>3, <1>8 DEF WalkInv
<1>9. CASE Stops(b)
  <2>1. walk'.left = 0 /\ walk'.status = "crossing" /\ walk'.active = b
    BY <1>9 DEF Stops
  <2>2. Distance' = k
    BY <1>0, <1>1, <2>1 DEF Distance
  <2>3. Spent(k)'
    <3>1. ASSUME call.mode = "exact_in"
          PROVE  /\ Held(pool, forY)[k] <= walk'.total
                 /\ walk'.total <= Held(pool, forY)[k] + most
      <4>1. walk.total = Held(pool, forY)[k]
        BY <1>2, <3>1 DEF Underway
      <4>2. PICK out \in 0 .. most : walk'.total = walk.total + out
        BY <1>9, <3>1 DEF Stops
      <4> HIDE DEF most
      <4> QED
        BY <1>5, <4>1, <4>2
    <3>2. ASSUME call.mode = "exact_out"
          PROVE  Bought(pool, forY, Time, k, call.amount, walk'.total, walk'.fee)
      <4>1. /\ walk.total = Ins(pool, forY)[k] /\ walk.fee = Fees(pool, forY, Time)[k]
            /\ walk.left = call.amount - Held(pool, forY)[k]
        BY <1>2, <3>2 DEF Underway
      <4>2. /\ walk.left \in 1 .. most
            /\ walk'.total = walk.total + In(forY, b, walk.left)
            /\ walk'.fee = walk.fee + FeeFor(pool, forY, Time, b, walk.left)
        BY <1>9, <3>2 DEF Stops
      <4> QED
        BY <1>2, <1>4, <4>1, <4>2 DEF Bought
    <3>3. walk'.active = b /\ call' = call /\ pool' = pool
      BY <1>1, <2>1
    <3> QED
      BY <1>7, <3>1, <3>2, <3>3 DEF Spent
  <2>4. WalkInv'
    <3>1. Passable(pool', call'.forY, walk'.active) /\ walk'.array \in pool'.cached
      BY <1>1, <1>2, <1>3, <2>1
    <3> QED
      BY <1>1, <1>2, <1>3, <1>7, <2>1, <2>2, <2>3, <3>1 DEF WalkInv
  <2> QED
    BY <1>0, <1>1, <1>3, <1>9, <2>2, <2>4
<1>10. CASE Passes(b)
  <2>1. CASE walk'.status = "BinIdOutOfRange"
    BY <1>1, <1>3, <1>10, <2>1 DEF WalkInv
  <2>2. CASE walk'.status = "crossing" /\ walk'.active = Step1(forY, b) /\ walk'.active \in BinIds
    <3>1. k + 1 \in 0 .. n - 1
      BY <1>4, <2>2
    <3>2. Distance' = k + 1
      <4>1. pool.active \in Int
        BY <1>1, SnapshotAssumption, BinAssumption
      <4>2. Distance' = IF forY THEN pool.active - walk'.active ELSE walk'.active - pool.active
        BY <1>1 DEF Distance
      <4>3. k = IF forY THEN pool.active - b ELSE b - pool.active
        BY <1>0 DEF Distance
      <4> HIDE DEF b
      <4> QED
        BY <1>4, <2>2, <4>1, <4>2, <4>3 DEF Step1
    <3>3. walk'.left > 0 /\ Underway(k + 1)'
      <4>1. /\ walk'.fee = walk.fee + fee
            /\ call.mode = "exact_out" =>
                  /\ walk.left > most /\ walk'.left = walk.left - most
                  /\ walk'.total = walk.total + in
            /\ call.mode = "exact_in" =>
                  /\ walk.left > in + fee /\ walk'.left = walk.left - (in + fee)
                  /\ walk'.total = walk.total + most
        BY <1>10 DEF Passes
      <4>2. /\ walk.fee = Fees(pool, forY, Time)[k]
            /\ call.mode = "exact_in" =>
                  /\ walk.total = Held(pool, forY)[k]
                  /\ walk.left = call.amount - (Ins(pool, forY)[k] + Fees(pool, forY, Time)[k])
            /\ call.mode = "exact_out" =>
                  /\ walk.total = Ins(pool, forY)[k]
                  /\ walk.left = call.amount - Held(pool, forY)[k]
        BY <1>2 DEF Underway
      <4> HIDE DEF most, in, fee
      <4>3. walk'.left > 0 /\ walk'.fee = Fees(pool, forY, Time)[k + 1]
        BY <1>1, <1>5, <1>6, <4>1, <4>2
      <4>4. call.mode = "exact_in" =>
                  /\ walk'.total = Held(pool, forY)[k + 1]
                  /\ walk'.left = call.amount - (Ins(pool, forY)[k + 1] + Fees(pool, forY, Time)[k + 1])
        BY <1>1, <1>5, <1>6, <4>1, <4>2
      <4>5. call.mode = "exact_out" =>
                  /\ walk'.total = Ins(pool, forY)[k + 1]
                  /\ walk'.left = call.amount - Held(pool, forY)[k + 1]
        BY <1>1, <1>5, <1>6, <4>1, <4>2
      <4>6. call' = call /\ pool' = pool /\ Time' = Time
        BY <1>1, <1>7
      <4> QED
        BY <4>3, <4>4, <4>5, <4>6 DEF Underway
    <3>4. \A j \in 1 .. k + 1 : Passable(pool, forY, Way(pool, forY)[j])
      <4>1. \A j \in 1 .. k + 1 : j \in 1 .. k \/ j = k + 1
        BY <1>2, <1>4
      <4> QED
        BY <1>2, <1>4, <4>1
    <3>5. walk'.active \in BinsOf(walk'.array) => Passable(pool, forY, walk'.active)
      <4>1. walk.array \in Int /\ walk'.active \in Int
        BY <1>1, <2>2, BinAssumption DEF Walks, BinIds
      <4>2. ASSUME walk'.active \in BinsOf(walk'.array)
            PROVE  ArrayOf(walk'.active) = ArrayOf(b)
        BY <1>1, <1>3, <1>4, <4>1, <4>2, ArrayFacts
      <4> QED
        BY <1>2, <4>2 DEF Passable, ArraysForSwap
    <3>6. WalkInv'
      <4> HIDE DEF n, b
      <4>1. walk'.array \in pool'.cached
        BY <1>1, <1>2, <1>3
      <4> QED
        BY <1>1, <1>2, <1>3, <1>7, <2>2, <3>1, <3>2, <3>3, <3>4, <3>5, <4>1 DEF WalkInv, n
    <3> QED
      BY <1>0, <1>1, <1>3, <1>10, <3>2, <3>6
  <2> QED
    BY <1>10, <2>1, <2>2 DEF Passes
<1> QED
  BY <1>3, <1>8, <1>9, <1>10

\* A caller asks for a quote.
LEMMA QuoteStep ==
    ASSUME TypeOK, NEW mode \in {"exact_in", "exact_out"}, NEW forY \in BOOLEAN,
           NEW n \in Amounts, NEW c \in Clocks, Quote(mode, forY, n, c)
    PROVE  TypeOK' /\ WalkInv' /\ promised' = NoPromise
<1>1. pool \in Pools /\ n \in Nat /\ Enter(mode, forY, n, c) /\ promised' = promised
      /\ promised = NoPromise
  BY SnapshotAssumption DEF TypeOK, Quote
<1>2. /\ pool' = pool /\ call'.mode = mode /\ call'.forY = forY /\ call'.amount = n
      /\ walk' \in Walks /\ WalkInv'
  BY <1>1, EnterFacts
<1> QED
  BY <1>1, <1>2 DEF TypeOK

\* A caller replays an exact-out quote with what it was told to pay, or a unit less.
LEMMA ReplayStep ==
    ASSUME TypeOK, WalkInv, NEW short \in {0, 1}, Replay(short)
    PROVE  /\ TypeOK' /\ WalkInv'
           /\ walk.status = "Ok" /\ call.mode = "exact_out" /\ walk.left = 0
           /\ promised'.want = call.amount /\ promised'.fee = walk.fee /\ promised'.short = short
           /\ pool' = pool /\ call'.mode = "exact_in" /\ call'.forY = call.forY
           /\ call'.amount = (walk.total + walk.fee) - short /\ call'.amount \in Nat
           /\ call'.clock = call.clock
           /\ walk'.status = "finding" /\ walk'.active = pool.active
           /\ walk'.left = call'.amount /\ walk'.total = 0 /\ walk'.fee = 0
<1>1. /\ walk.status = "Ok" /\ call.mode = "exact_out" /\ walk \in Walks
      /\ pool \in Pools /\ call.forY \in BOOLEAN
      /\ promised' = [want |-> call.amount, amountIn |-> walk.total + walk.fee,
                      fee |-> walk.fee, short |-> short]
      /\ promised'.amountIn >= short
      /\ Enter("exact_in", call.forY, promised'.amountIn - short, call.clock)
  BY DEF TypeOK, Replay
<1>2. /\ promised'.amountIn - short = (walk.total + walk.fee) - short
      /\ promised'.amountIn - short \in Nat
  <2>1. walk.total + walk.fee \in Nat /\ promised'.amountIn = walk.total + walk.fee
    BY <1>1 DEF Walks
  <2>2. PICK a \in Nat : a = promised'.amountIn /\ a = walk.total + walk.fee
    BY <2>1, Zenon
  <2>3. a >= short
    BY <1>1, <2>2, Zenon
  <2>4. a - short \in Nat
    BY <2>3
  <2> QED
    BY <2>2, <2>4, Zenon
<1>3. walk.left = 0 /\ Entry(pool, call.clock) = "finding"
  BY <1>1 DEF WalkInv
<1>4. /\ pool' = pool /\ call'.mode = "exact_in" /\ call'.forY = call.forY
      /\ call'.amount = promised'.amountIn - short /\ call'.clock = call.clock
      /\ walk' \in Walks /\ WalkInv'
      /\ walk'.status = Entry(pool, call.clock)
      /\ walk'.active = pool.active /\ walk'.left = promised'.amountIn - short
      /\ walk'.total = 0 /\ walk'.fee = 0
  <2>1. \A m \in {"exact_in", "exact_out"}, a \in Nat : Enter(m, call.forY, a, call.clock) =>
           /\ pool' = pool /\ call'.mode = m /\ call'.forY = call.forY
           /\ call'.amount = a /\ call'.clock = call.clock
           /\ walk' \in Walks /\ WalkInv'
           /\ walk'.status = Entry(pool, call.clock)
           /\ walk'.active = pool.active /\ walk'.left = a
           /\ walk'.total = 0 /\ walk'.fee = 0
    BY <1>1, EnterFacts
  <2> QED
    BY <1>1, <1>2, <2>1
<1>5. TypeOK'
  BY <1>1, <1>2, <1>3, <1>4 DEF TypeOK
<1>6. promised'.want = call.amount /\ promised'.fee = walk.fee /\ promised'.short = short
  BY <1>1
<1>7. walk'.status = "finding"
  BY <1>3, <1>4
<1>8. call'.amount = (walk.total + walk.fee) - short /\ call'.amount \in Nat
  BY <1>2, <1>4, Zenon
<1>9. walk'.left = call'.amount
  BY <1>4
<1> QED
  BY <1>1, <1>3, <1>4, <1>5, <1>6, <1>7, <1>8, <1>9, Zenon

\* Nothing is asked for before the first quote.
LEMMA InitFacts == Init => TypeOK /\ WalkInv /\ PromiseInv
<1> SUFFICES ASSUME Init PROVE TypeOK /\ WalkInv /\ PromiseInv
  OBVIOUS
<1>1. /\ pool \in Pools /\ promised = NoPromise
      /\ walk = [status |-> "idle", active |-> pool.active, iref |-> 0, vref |-> 0, vacc |-> 0,
                 array |-> NoArray, left |-> 0, total |-> 0, fee |-> 0]
  BY DEF Init, Idle
<1>2. pool.active \in BinIds /\ NoArray \in Int
  BY <1>1, SnapshotAssumption, BinAssumption DEF BinIds, NoArray
<1>3. walk \in Walks /\ walk.status = "idle"
  BY <1>1, <1>2 DEF Walks, Statuses
<1> QED
  BY <1>1, <1>3 DEF TypeOK, WalkInv, PromiseInv

\* Every step keeps the types and the sums.
LEMMA WalkStep ==
    ASSUME TypeOK, WalkInv, [Next]_vars
    PROVE  TypeOK' /\ WalkInv'
<1>1. ASSUME NEW mode \in {"exact_in", "exact_out"}, NEW forY \in BOOLEAN,
             NEW n \in Amounts, NEW c \in Clocks, Quote(mode, forY, n, c)
      PROVE  TypeOK' /\ WalkInv'
  BY <1>1, QuoteStep
<1>2. ASSUME NEW short \in {0, 1}, Replay(short)
      PROVE  TypeOK' /\ WalkInv'
  BY <1>2, ReplayStep
<1>3. ASSUME pool' = pool, call' = call, promised' = promised, walk' \in Walks,
             walk.status # "idle", walk'.status # "idle"
      PROVE  TypeOK'
  BY <1>3 DEF TypeOK
<1>4. CASE FindArray
  BY <1>3, <1>4, FindStep DEF FindArray
<1>5. CASE Finish
  BY <1>3, <1>5, FinishStep DEF Finish
<1>6. CASE CrossBin
  <2>1. walk'.status # "idle"
    BY <1>6, CrossStep DEF Stops, Passes
  <2> QED
    BY <1>3, <1>6, <2>1, CrossStep DEF CrossBin
<1>7. CASE LeaveArray
  BY <1>3, <1>7, LeaveStep
<1>8. CASE UNCHANGED vars
  <2>1. pool' = pool /\ call' = call /\ promised' = promised /\ walk' = walk
    BY <1>8 DEF vars
  <2>2. Distance' = Distance /\ Time' = Time
    BY <2>1 DEF Distance, Time
  <2>3. TypeOK'
    BY <2>1 DEF TypeOK
  <2>4. \A k : (Underway(k)' <=> Underway(k)) /\ (Spent(k)' <=> Spent(k))
    BY <2>1, QuietFacts
  <2>5. (Underway(Distance)' <=> Underway(Distance)) /\ (Spent(Distance)' <=> Spent(Distance))
    BY <2>2, <2>4
  <2>6. WalkInv'
    BY <2>1, <2>2, <2>5 DEF WalkInv
  <2> QED
    BY <2>3, <2>6
<1> QED
  BY <1>1, <1>2, <1>4, <1>5, <1>6, <1>7, <1>8 DEF Next, Step

\* A walk never leaves the types, and what it has paid and taken is what the bins
\* behind it hold.
THEOREM WalkAlwaysAddsUp == Spec => [](TypeOK /\ WalkInv)
<1>1. Init => TypeOK /\ WalkInv
  BY InitFacts
<1>2. TypeOK /\ WalkInv /\ [Next]_vars => (TypeOK /\ WalkInv)'
  BY WalkStep
<1> QED
  BY <1>1, <1>2, PTL DEF Spec

\* A quote delivers the whole reserve of every bin it left behind and at most the
\* active bin's, for every pool, price and amount.
THEOREM AlwaysNearestBinsFirst == Spec => []NearestBinsFirst
<1>1. TypeOK /\ WalkInv => NearestBinsFirst
  <2> SUFFICES ASSUME TypeOK, WalkInv, Running \/ walk.status = "Ok"
               PROVE  NearestBinsFirst
    BY DEF NearestBinsFirst
  <2> DEFINE k    == Distance
             most == Most(pool, call.forY, walk.active)
             held == Held(pool, call.forY)[k]
  <2>1. /\ pool \in Pools /\ walk \in Walks /\ walk.active \in BinIds /\ call.forY \in BOOLEAN
        /\ call.mode \in {"exact_in", "exact_out"} /\ call.amount \in Nat /\ walk.left \in Nat
    BY DEF TypeOK, Walks, Running
  <2>2. /\ k \in 0 .. Steps(pool, call.forY) - 1
        /\ walk.left > 0 => Underway(k)
        /\ walk.left = 0 => Spent(k)
    BY DEF WalkInv, Running
  <2>3. /\ held \in Nat /\ most \in Nat /\ walk.active = Way(pool, call.forY)[k + 1]
        /\ k = 0 => held = 0
    <3>1. Steps(pool, call.forY) \in Nat /\ k \in 0 .. Steps(pool, call.forY)
      BY <2>1, <2>2, WayFacts
    <3>2. held \in Nat /\ (k = 0 => held = 0)
      BY <2>1, <3>1, WaySums
    <3>3. most \in Nat
      BY <2>1, CostFacts
    <3>4. walk.active = Way(pool, call.forY)[k + 1]
      BY <2>1, <2>2, HereFacts
    <3> QED
      BY <3>2, <3>3, <3>4
  <2>4. Delivered \in held .. held + most
    <3>1. CASE walk.left > 0
      BY <2>1, <2>2, <2>3, <3>1 DEF Underway, Delivered
    <3>2. CASE walk.left = 0 /\ call.mode = "exact_in"
      BY <2>1, <2>2, <2>3, <3>2 DEF Spent, Delivered, Walks
    <3>3. CASE walk.left = 0 /\ call.mode = "exact_out"
      <4>1. Bought(pool, call.forY, Time, k, call.amount, walk.total, walk.fee)
        BY <2>2, <3>3 DEF Spent
      <4>2. \/ call.amount = 0 /\ k = 0
            \/ call.amount - held \in 1 .. most
        BY <2>3, <4>1 DEF Bought
      <4>3. Delivered = call.amount
        BY <2>1, <3>3 DEF Delivered
      <4> HIDE DEF held, most, k
      <4> QED
        BY <2>1, <2>3, <4>2, <4>3
    <3> QED
      BY <2>1, <3>1, <3>2, <3>3
  <2> QED
    BY <2>4 DEF NearestBinsFirst, Held, Most
<1> QED
  BY <1>1, WalkAlwaysAddsUp, PTL

-----------------------------------------------------------------------------
(* The promise. *)

\* An output of nothing costs nothing, and one of something something.
LEMMA BoughtFacts ==
    ASSUME NEW p \in Pools, NEW forY \in BOOLEAN, NEW t, NEW k \in 0 .. Steps(p, forY) - 1,
           NEW want \in Nat, NEW in \in Nat, NEW fee \in Nat,
           Bought(p, forY, t, k, want, in, fee)
    PROVE  \/ want = 0 /\ in = 0 /\ fee = 0
           \/ /\ want > 0 /\ in > 0
              /\ \E b \in BinIds, w \in Nat :
                    /\ b = Way(p, forY)[k + 1] /\ w > 0 /\ w <= Most(p, forY, b)
                    /\ want = Held(p, forY)[k] + w
                    /\ in = Ins(p, forY)[k] + In(forY, b, w)
                    /\ fee = Fees(p, forY, t)[k] + FeeFor(p, forY, t, b, w)
                    /\ Passable(p, forY, b)
<1> DEFINE b == Way(p, forY)[k + 1]
           w == want - Held(p, forY)[k]
<1>1. Steps(p, forY) \in Nat /\ k \in 0 .. Steps(p, forY) /\ k + 1 \in 1 .. Steps(p, forY)
  BY WayFacts
<1>2. b \in BinIds
  BY <1>1, WayFacts
<1>3. Held(p, forY)[k] \in Nat /\ Ins(p, forY)[k] \in Nat /\ Most(p, forY, b) \in Nat
      /\ \A v \in Nat : In(forY, b, v) \in Nat /\ (v > 0 => In(forY, b, v) > 0)
  <2>1. Held(p, forY)[k] \in Nat /\ Ins(p, forY)[k] \in Nat
    BY <1>1, WaySums
  <2> QED
    BY <1>2, <2>1, CostFacts
<1>4. \/ want = 0 /\ in = 0 /\ fee = 0
      \/ /\ w \in 1 .. Most(p, forY, b)
         /\ in = Ins(p, forY)[k] + In(forY, b, w)
         /\ fee = Fees(p, forY, t)[k] + FeeFor(p, forY, t, b, w)
         /\ Passable(p, forY, b)
  BY DEF Bought
<1> HIDE DEF b
<1>5. ASSUME w \in 1 .. Most(p, forY, b), in = Ins(p, forY)[k] + In(forY, b, w)
      PROVE  w \in Nat /\ w > 0 /\ w <= Most(p, forY, b) /\ want = Held(p, forY)[k] + w
             /\ want > 0 /\ in > 0
  <2>1. w \in Nat /\ w > 0 /\ w <= Most(p, forY, b) /\ want = Held(p, forY)[k] + w /\ want > 0
    BY <1>3, <1>5
  <2>2. In(forY, b, w) \in Nat /\ In(forY, b, w) > 0
    BY <1>3, <2>1
  <2> HIDE DEF w
  <2> QED
    BY <1>3, <1>5, <2>1, <2>2
<1> HIDE DEF w
<1> QED
  BY <1>2, <1>4, <1>5 DEF b

\* A step that keeps the pool, the call and the promise keeps what it is made of.
LEMMA PromiseKept ==
    ASSUME pool' = pool, call' = call, promised' = promised, NEW k, NEW in
    PROVE  Promise(k, in)' <=> Promise(k, in)
<1>1. Time' = Time
  BY DEF Time
<1> QED
  BY <1>1 DEF Promise

\* A promise that is made can be kept.
LEMMA PromiseMade ==
    ASSUME TypeOK, WalkInv, NEW short \in {0, 1}, Replay(short)
    PROVE  PromiseInv'
<1>1. /\ TypeOK' /\ WalkInv'
      /\ walk.status = "Ok" /\ call.mode = "exact_out" /\ walk.left = 0
      /\ promised'.want = call.amount /\ promised'.fee = walk.fee /\ promised'.short = short
      /\ pool' = pool /\ call'.mode = "exact_in" /\ call'.forY = call.forY
      /\ call'.amount = (walk.total + walk.fee) - short /\ call'.amount \in Nat
      /\ call'.clock = call.clock
      /\ walk'.status = "finding" /\ walk'.active = pool.active
      /\ walk'.left = call'.amount /\ walk'.total = 0 /\ walk'.fee = 0
  BY ReplayStep
<1>2. /\ pool \in Pools /\ call.forY \in BOOLEAN /\ call.amount \in Nat
      /\ walk.total \in Nat /\ walk.fee \in Nat
  BY <1>1 DEF TypeOK, Walks
<1>3. PICK k : k = Distance
  OBVIOUS
<1>4. /\ k \in 0 .. Steps(pool, call.forY) - 1
      /\ \A j \in 1 .. k : Passable(pool, call.forY, Way(pool, call.forY)[j])
      /\ Bought(pool, call.forY, Time, k, call.amount, walk.total, walk.fee)
  BY <1>1, <1>3 DEF WalkInv, Spent
<1>5. \/ call.amount = 0 /\ walk.total = 0 /\ walk.fee = 0
      \/ call.amount > 0 /\ walk.total > 0
  <2>1. PICK t : t = Time
    OBVIOUS
  <2>2. PICK want \in Nat, i \in Nat, fee \in Nat :
          want = call.amount /\ i = walk.total /\ fee = walk.fee
    BY <1>2
  <2>3. PICK p \in Pools, forY \in BOOLEAN : p = pool /\ forY = call.forY
    BY <1>2
  <2>4. k \in 0 .. Steps(p, forY) - 1 /\ Bought(p, forY, t, k, want, i, fee)
    BY <1>4, <2>1, <2>2, <2>3
  <2>5. (want = 0 /\ i = 0 /\ fee = 0) \/ (want > 0 /\ i > 0)
    BY <2>4, BoughtFacts
  <2> QED
    BY <2>2, <2>5
<1>6. PICK in \in Nat : in = walk.total
  BY <1>2
<1>7. Promise(k, in)'
  <2>1. Time' = Time
    BY <1>1 DEF Time
  <2> QED
    BY <1>1, <1>2, <1>4, <1>6, <2>1 DEF Promise
<1>8. Distance' <= k
  <2>1. Distance' = 0
    <3>1. pool.active \in Int
      BY <1>2, SnapshotAssumption, BinAssumption
    <3> QED
      BY <1>1, <3>1 DEF Distance
  <2> QED
    BY <1>4, <2>1
<1>9. walk'.left = 0 =>
         /\ short = 0 => walk'.total >= promised'.want /\ walk'.fee = promised'.fee
         /\ short = 1 => walk'.total < promised'.want
  <2> SUFFICES ASSUME walk'.left = 0
               PROVE  /\ short = 0 => walk'.total >= promised'.want /\ walk'.fee = promised'.fee
                      /\ short = 1 => walk'.total < promised'.want
    OBVIOUS
  <2>1. (walk.total + walk.fee) - short = 0
    BY <1>1, Zenon
  <2>2. ASSUME short = 0 PROVE call.amount = 0 /\ walk.fee = 0
    BY <1>2, <1>5, <2>1, <2>2
  <2>3. ASSUME short = 1 PROVE call.amount > 0
    BY <1>2, <1>5, <2>1, <2>3
  <2> QED
    BY <1>1, <2>2, <2>3
<1>10. \E l \in 0 .. Steps(pool', call'.forY) - 1, i \in Nat :
          Promise(l, i)' /\ (Running' /\ walk'.left > 0 => Distance' <= l)
  BY <1>1, <1>4, <1>7, <1>8
<1> QED
  BY <1>1, <1>9, <1>10 DEF PromiseInv

\* Of a promised input some is left when d bins are behind.
Spending(p, forY, t, k, want, in, fee, short, d, left, b) ==
    /\ Bought(p, forY, t, k, want, in, fee)
    /\ left > 0 /\ left = ((in + fee) - short) - (Ins(p, forY)[d] + Fees(p, forY, t)[d])
    /\ b = Way(p, forY)[d + 1]

\* It is more than the next bin takes before the last bin of the promise, and in
\* that one just what buys the rest of the output, or less.
Pays(p, forY, t, k, want, fee, short, d, left, b) ==
    LET most == Most(p, forY, b)
        all  == In(forY, b, most) + FeeFor(p, forY, t, b, most)
        held == Held(p, forY)[d]
        f    == FeeWithin(RateOf(p, t, b), left)
        w    == want - held
        buys == OutputFor(left - f, Price[b], forY)
    IN  /\ left > all => d < k
        /\ left <= all /\ d < k => short = 1 /\ held + most < want
        /\ d = k =>
              /\ Passable(p, forY, b) /\ w \in 0 .. most
              /\ short = 0 => Fees(p, forY, t)[d] + f = fee /\ w <= buys
              /\ short = 1 => buys < w

LEMMA PromisedSpend ==
    ASSUME NEW p \in Pools, NEW forY \in BOOLEAN, NEW t, NEW k \in 0 .. Steps(p, forY) - 1,
           NEW want \in Nat, NEW in \in Nat, NEW fee \in Nat, NEW short \in {0, 1},
           NEW d \in 0 .. k, NEW left \in Nat, NEW b \in BinIds,
           Spending(p, forY, t, k, want, in, fee, short, d, left, b)
    PROVE  Pays(p, forY, t, k, want, fee, short, d, left, b)
<1> DEFINE most == Most(p, forY, b)
           all  == In(forY, b, most) + FeeFor(p, forY, t, b, most)
           held == Held(p, forY)[d]
<1>0. /\ Bought(p, forY, t, k, want, in, fee)
      /\ left > 0 /\ left = ((in + fee) - short) - (Ins(p, forY)[d] + Fees(p, forY, t)[d])
      /\ b = Way(p, forY)[d + 1]
  BY DEF Spending
<1>1. /\ Steps(p, forY) \in Nat /\ d \in 0 .. Steps(p, forY) /\ k \in 0 .. Steps(p, forY)
      /\ d + 1 \in 1 .. Steps(p, forY) /\ d \in Nat /\ k \in Nat /\ d <= k
  BY WayFacts
<1>2. /\ Held(p, forY)[d] \in Nat /\ Ins(p, forY)[d] \in Nat /\ Fees(p, forY, t)[d] \in Nat
      /\ Held(p, forY)[k] \in Nat /\ Ins(p, forY)[k] \in Nat /\ Fees(p, forY, t)[k] \in Nat
  BY <1>1, WaySums
<1>3. /\ most \in Nat /\ In(forY, b, most) \in Nat /\ FeeFor(p, forY, t, b, most) \in Nat
  BY CostFacts
<1>4. PICK c \in BinIds, w \in Nat :
         /\ c = Way(p, forY)[k + 1] /\ w > 0 /\ w <= Most(p, forY, c)
         /\ want = Held(p, forY)[k] + w
         /\ in = Ins(p, forY)[k] + In(forY, c, w)
         /\ fee = Fees(p, forY, t)[k] + FeeFor(p, forY, t, c, w)
         /\ Passable(p, forY, c)
  <2>1. ~(want = 0 /\ in = 0 /\ fee = 0)
    BY <1>0, <1>2
  <2> QED
    BY <1>0, <2>1, BoughtFacts
<1>5. In(forY, c, w) \in Nat /\ In(forY, c, w) > 0 /\ FeeFor(p, forY, t, c, w) \in Nat
  BY <1>4, CostFacts
<1>6. CASE d = k
  <2>1. c = b /\ w <= most
    BY <1>0, <1>4, <1>6
  <2>2. left = (In(forY, b, w) + FeeFor(p, forY, t, b, w)) - short
    BY <1>0, <1>2, <1>4, <1>5, <1>6, <2>1
  <2>3. In(forY, b, w) <= In(forY, b, most) /\ FeeFor(p, forY, t, b, w) <= FeeFor(p, forY, t, b, most)
    BY <1>3, <2>1, CostFacts
  <2>4. left <= all
    BY <1>3, <1>5, <2>1, <2>2, <2>3
  <2> DEFINE rate == RateOf(p, t, b)
             i    == In(forY, b, w)
             f    == FeeWithin(rate, left)
  <2>5. rate \in Rates /\ Price[b] \in Nat \ {0} /\ i = InputFor(w, Price[b], forY)
        /\ FeeFor(p, forY, t, b, w) = FeeOnTop(rate, i) /\ i \in Nat
    BY <1>5, <2>1, BinRateFacts, ReserveFacts DEF In, FeeFor
  <2> HIDE DEF rate, i
  <2>6. /\ FeeWithin(rate, i + FeeOnTop(rate, i)) = FeeOnTop(rate, i)
        /\ i + FeeOnTop(rate, i) > 0 =>
              FeeWithin(rate, i + FeeOnTop(rate, i) - 1) >= FeeOnTop(rate, i)
    BY <2>5, FeeRoundTrip
  <2>7. FeeOnTop(rate, i) \in Nat /\ i > 0 /\ left = (i + FeeOnTop(rate, i)) - short
    BY <1>5, <2>1, <2>2, <2>5 DEF i
  <2>8. /\ w <= OutputFor(i, Price[b], forY)
        /\ \A n \in Nat : n < i => OutputFor(n, Price[b], forY) < w
    BY <2>5, PriceFacts
  <2>9. ASSUME short = 0
        PROVE  Fees(p, forY, t)[d] + f = fee /\ w <= OutputFor(left - f, Price[b], forY)
    <3>1. left = i + FeeOnTop(rate, i)
      BY <2>5, <2>7, <2>9
    <3>2. f = FeeOnTop(rate, i)
      BY <2>6, <3>1
    <3>3. left - f = i
      BY <2>5, <2>7, <3>1, <3>2
    <3> QED
      BY <1>4, <1>6, <2>1, <2>5, <2>8, <3>2, <3>3
  <2>10. ASSUME short = 1
         PROVE  OutputFor(left - f, Price[b], forY) < w
    <3>1. left = i + FeeOnTop(rate, i) - 1 /\ i + FeeOnTop(rate, i) > 0
      BY <2>5, <2>7, <2>10
    <3>2. f >= FeeOnTop(rate, i)
      BY <2>6, <3>1
    <3>3. f \in 0 .. left
      BY <2>5, FeeWithinFacts
    <3>4. left - f \in Nat /\ left - f < i
      <4> HIDE DEF f
      <4> QED
        BY <2>5, <2>7, <3>1, <3>2, <3>3
    <3> QED
      BY <2>8, <3>4
  <2>11. want - Held(p, forY)[d] = w /\ w \in 0 .. most
    BY <1>2, <1>3, <1>4, <1>6, <2>1
  <2>12. ~(left > all)
    BY <1>3, <2>4
  <2> QED
    BY <1>0, <1>1, <1>4, <1>6, <2>1, <2>9, <2>10, <2>11, <2>12 DEF rate, Pays
<1>7. CASE d < k
  <2>1. d + 1 \in 0 .. Steps(p, forY) /\ d + 1 <= k /\ (d + 1) - 1 = d
    BY <1>1, <1>7
  <2>2. /\ Held(p, forY)[d + 1] <= Held(p, forY)[k]
        /\ Ins(p, forY)[d + 1] <= Ins(p, forY)[k]
        /\ Fees(p, forY, t)[d + 1] <= Fees(p, forY, t)[k]
    BY <1>1, <2>1, WaySums
  <2>3. /\ Held(p, forY)[d + 1] = Held(p, forY)[d] + most
        /\ Ins(p, forY)[d + 1] = Ins(p, forY)[d] + In(forY, b, most)
        /\ Fees(p, forY, t)[d + 1] = Fees(p, forY, t)[d] + FeeFor(p, forY, t, b, most)
    <3>1. \A m \in 1 .. Steps(p, forY) : b = Way(p, forY)[m] =>
             /\ Held(p, forY)[m] = Held(p, forY)[m - 1] + most
             /\ Ins(p, forY)[m] = Ins(p, forY)[m - 1] + In(forY, b, most)
             /\ Fees(p, forY, t)[m] = Fees(p, forY, t)[m - 1] + FeeFor(p, forY, t, b, most)
      BY WaySums
    <3> QED
      BY <1>0, <1>1, <2>1, <3>1
  <2>4. Held(p, forY)[d] + most < want
    BY <1>2, <1>3, <1>4, <2>2, <2>3
  <2>5. left <= all => short = 1
    BY <1>0, <1>2, <1>3, <1>4, <1>5, <2>2, <2>3
  <2> QED
    BY <1>0, <1>1, <1>7, <2>4, <2>5 DEF Pays
<1> QED
  BY <1>1, <1>6, <1>7

\* While a replayed quote has something left, its next bin is one of the promise,
\* and the rest pays for what the promise has left.
LEMMA PromiseAhead ==
    ASSUME TypeOK, WalkInv, PromiseInv, promised # NoPromise, Running, walk.left > 0
    PROVE  /\ Passable(pool, call.forY, walk.active)
           /\ \E k \in 0 .. Steps(pool, call.forY) - 1, in \in Nat :
                /\ Promise(k, in) /\ Distance <= k
                /\ Held(pool, call.forY)[Distance] \in Nat
                /\ Most(pool, call.forY, walk.active) \in Nat
                /\ walk.total = Held(pool, call.forY)[Distance]
                /\ walk.fee = Fees(pool, call.forY, Time)[Distance]
                /\ promised.want \in Nat
                /\ Pays(pool, call.forY, Time, k, promised.want, promised.fee, promised.short,
                        Distance, walk.left, walk.active)
<1>1. PICK k \in 0 .. Steps(pool, call.forY) - 1, in \in Nat : Promise(k, in) /\ Distance <= k
  BY DEF PromiseInv
<1>2. /\ promised.short \in {0, 1} /\ call.mode = "exact_in"
      /\ pool \in Pools /\ call.forY \in BOOLEAN /\ walk.left \in Nat
  BY DEF PromiseInv, TypeOK, Walks
<1>3. /\ promised.want \in Nat /\ promised.fee \in Nat
      /\ Bought(pool, call.forY, Time, k, promised.want, in, promised.fee)
      /\ call.amount = (in + promised.fee) - promised.short
      /\ \A j \in 1 .. k : Passable(pool, call.forY, Way(pool, call.forY)[j])
  BY <1>1 DEF Promise
<1>4. /\ Distance \in 0 .. Steps(pool, call.forY) - 1
      /\ walk.total = Held(pool, call.forY)[Distance]
      /\ walk.fee = Fees(pool, call.forY, Time)[Distance]
      /\ walk.left = call.amount - (Ins(pool, call.forY)[Distance] + Fees(pool, call.forY, Time)[Distance])
  BY <1>2 DEF WalkInv, Underway, Running
<1>5. /\ walk.active = Way(pool, call.forY)[Distance + 1] /\ walk.active \in BinIds
      /\ Distance \in 0 .. Steps(pool, call.forY) /\ Distance \in 0 .. k
  <2>1. Steps(pool, call.forY) \in Nat
    BY <1>2, WayFacts
  <2> QED
    BY <1>1, <1>2, <1>4, <2>1, HereFacts
<1>6. Held(pool, call.forY)[Distance] \in Nat /\ Most(pool, call.forY, walk.active) \in Nat
  <2>1. Held(pool, call.forY)[Distance] \in Nat
    BY <1>2, <1>5, WaySums
  <2> QED
    BY <1>2, <1>5, <2>1, CostFacts
<1>7. Spending(pool, call.forY, Time, k, promised.want, in, promised.fee, promised.short,
               Distance, walk.left, walk.active)
  BY <1>3, <1>4, <1>5 DEF Spending
<1>8. Pays(pool, call.forY, Time, k, promised.want, promised.fee, promised.short,
           Distance, walk.left, walk.active)
  <2>1. PICK p \in Pools, forY \in BOOLEAN : p = pool /\ forY = call.forY
    BY <1>2
  <2>2. PICK t : t = Time
    OBVIOUS
  <2>3. PICK want \in Nat, fee \in Nat, short \in {0, 1} :
           want = promised.want /\ fee = promised.fee /\ short = promised.short
    BY <1>2, <1>3
  <2>4. PICK left \in Nat, b \in BinIds : left = walk.left /\ b = walk.active
    BY <1>2, <1>5
  <2>5. PICK d \in 0 .. k : d = Distance
    BY <1>5
  <2>6. k \in 0 .. Steps(p, forY) - 1 /\ Spending(p, forY, t, k, want, in, fee, short, d, left, b)
    BY <1>7, <2>1, <2>2, <2>3, <2>4, <2>5
  <2>7. Pays(p, forY, t, k, want, fee, short, d, left, b)
    BY <2>6, PromisedSpend, ZenonT(60)
  <2> QED
    BY <2>1, <2>2, <2>3, <2>4, <2>5, <2>7
<1>9. Passable(pool, call.forY, walk.active)
  <2>1. CASE Distance = k
    BY <1>8, <2>1 DEF Pays
  <2>2. CASE Distance # k
    <3>1. Distance + 1 \in 1 .. k
      BY <1>5, <2>2
    <3> QED
      BY <1>3, <1>5, <3>1
  <2> QED
    BY <2>1, <2>2
<1> QED
  BY <1>1, <1>3, <1>4, <1>6, <1>8, <1>9

\* A bin crossed on the way of the promise.
LEMMA PromiseCross ==
    ASSUME TypeOK, WalkInv, PromiseInv, promised # NoPromise, CrossBin
    PROVE  PromiseInv'
<1>1. /\ pool' = pool /\ call' = call /\ promised' = promised /\ walk' \in Walks
      /\ \/ walk'.status = "Overflow"
         \/ Stops(walk.active) /\ Distance' = Distance
         \/ Passes(walk.active) /\ (walk'.status = "crossing" => Distance' = Distance + 1)
  BY CrossStep
<1>2. Running /\ walk.left > 0 /\ walk \in Walks
      /\ promised.short \in {0, 1} /\ call.mode = "exact_in"
  BY DEF CrossBin, Running, TypeOK, PromiseInv
<1>3. call.forY \in BOOLEAN /\ Distance \in 0 .. Steps(pool, call.forY) - 1
  BY DEF CrossBin, WalkInv, TypeOK
<1> DEFINE b    == walk.active
           most == Most(pool, call.forY, b)
           all  == In(call.forY, b, most) + FeeFor(pool, call.forY, Time, b, most)
           held == Held(pool, call.forY)[Distance]
           f    == FeeWithin(RateOf(pool, Time, b), walk.left)
           w    == promised.want - held
           buys == OutputFor(walk.left - f, Price[b], call.forY)
<1>4. PICK k \in 0 .. Steps(pool, call.forY) - 1, in \in Nat :
         /\ Promise(k, in) /\ Distance <= k
         /\ held \in Nat /\ most \in Nat /\ promised.want \in Nat
         /\ walk.total = held /\ walk.fee = Fees(pool, call.forY, Time)[Distance]
         /\ walk.left > all => Distance < k
         /\ walk.left <= all /\ Distance < k => promised.short = 1 /\ held + most < promised.want
         /\ Distance = k =>
               /\ w \in 0 .. most
               /\ promised.short = 0 => walk.fee + f = promised.fee /\ w <= buys
               /\ promised.short = 1 => buys < w
  BY <1>2, PromiseAhead DEF Pays
<1> HIDE DEF held
<1>5. Promise(k, in)'
  BY <1>1, <1>4, PromiseKept
<1>6. CASE walk'.status = "Overflow"
  BY <1>1, <1>2, <1>4, <1>5, <1>6 DEF PromiseInv, Running
<1>7. CASE Stops(b) /\ Distance' = Distance
  <2>1. /\ walk'.left = 0 /\ walk'.status = "crossing"
        /\ walk.left <= all /\ walk'.fee = walk.fee + f
        /\ \E out \in 0 .. most :
              /\ walk'.total = walk.total + out
              /\ \A v \in 0 .. most : (v <= buys => v <= out) /\ (buys < v => out < v)
    BY <1>2, <1>7 DEF Stops
  <2>2. PICK out \in 0 .. most :
              /\ walk'.total = held + out
              /\ \A v \in 0 .. most : (v <= buys => v <= out) /\ (buys < v => out < v)
    BY <1>4, <2>1
  <2> HIDE DEF most, all, f, buys
  <2>3. CASE Distance = k
    <3>1. w \in 0 .. most
      BY <1>4, <2>3
    <3>2. held + w = promised.want
      BY <1>4
    <3>3. ASSUME promised.short = 0
          PROVE  walk'.total >= promised.want /\ walk'.fee = promised.fee
      <4>1. w <= out
        BY <1>4, <2>2, <2>3, <3>1, <3>3
      <4>2. walk'.fee = promised.fee
        BY <1>4, <2>1, <2>3, <3>3
      <4> HIDE DEF w
      <4> QED
        BY <1>4, <2>2, <3>1, <3>2, <4>1, <4>2
    <3>4. ASSUME promised.short = 1
          PROVE  walk'.total < promised.want
      <4>1. out < w
        BY <1>4, <2>2, <2>3, <3>1, <3>4
      <4> HIDE DEF w
      <4> QED
        BY <1>4, <2>2, <3>1, <3>2, <4>1
    <3> QED
      BY <1>1, <1>2, <1>3, <1>4, <1>5, <1>7, <2>1, <3>3, <3>4 DEF PromiseInv, Running
  <2>4. CASE Distance < k
    <3>1. promised.short = 1 /\ held + most < promised.want
      BY <1>4, <2>1, <2>4
    <3>2. walk'.total < promised.want
      BY <1>4, <2>2, <3>1
    <3> QED
      BY <1>1, <1>2, <1>3, <1>4, <1>5, <1>7, <2>1, <3>1, <3>2 DEF PromiseInv, Running
  <2>5. Distance = k \/ Distance < k
    BY <1>3, <1>4
  <2> QED
    BY <2>3, <2>4, <2>5
<1>8. CASE Passes(b) /\ (walk'.status = "crossing" => Distance' = Distance + 1)
  <2>1. /\ walk.left > all /\ walk'.left = walk.left - all
        /\ \/ walk'.status = "crossing"
           \/ walk'.status = "BinIdOutOfRange" /\ Step1(call.forY, b) \notin BinIds
    BY <1>2, <1>8 DEF Passes
  <2>2. Distance < k
    BY <1>4, <2>1
  <2>3. Distance + 1 \in 0 .. Steps(pool, call.forY) - 1 /\ Distance + 1 <= k
    <3>1. Steps(pool, call.forY) \in Nat
      BY <1>3, WayFacts DEF TypeOK
    <3> HIDE DEF most, all, f, w, buys
    <3> QED
      BY <1>3, <1>4, <2>2, <3>1
  <2>4. Step1(call.forY, b) \in BinIds
    BY <1>3, <2>3, HereFacts
  <2>5. walk'.status = "crossing" /\ Distance' <= k
    BY <1>8, <2>1, <2>3, <2>4
  <2>6. walk'.left # 0
    <3>1. walk.left \in Nat /\ all \in Nat
      <4>1. pool \in Pools /\ b \in BinIds
        BY <1>2 DEF TypeOK, Walks
      <4>2. In(call.forY, b, most) \in Nat /\ FeeFor(pool, call.forY, Time, b, most) \in Nat
        BY <1>3, <1>4, <4>1, CostFacts
      <4> QED
        BY <1>2, <4>2 DEF Walks
    <3> HIDE DEF all
    <3> QED
      BY <2>1, <3>1
  <2> QED
    BY <1>1, <1>2, <1>4, <1>5, <2>5, <2>6 DEF PromiseInv, Running
<1> QED
  BY <1>1, <1>6, <1>7, <1>8

\* A step of the walk that moves nothing keeps the promise, unless it ends it.
LEMMA PromiseQuiet ==
    ASSUME PromiseInv, promised # NoPromise, Running,
           pool' = pool, call' = call, promised' = promised,
           walk'.active = walk.active, walk'.left = walk.left,
           walk'.total = walk.total, walk'.fee = walk.fee, walk'.status # "idle",
           promised.short = 0 => walk'.status \notin
              {"Refused", "OutOfLiquidity", "ArrayNotCached", "BinIdOutOfRange"}
    PROVE  PromiseInv'
<1>1. PICK k \in 0 .. Steps(pool, call.forY) - 1, in \in Nat :
         Promise(k, in) /\ (walk.left > 0 => Distance <= k)
  BY DEF PromiseInv
<1>2. Promise(k, in)'
  BY <1>1, PromiseKept
<1>3. Distance' = Distance
  BY DEF Distance
<1>4. \E j \in 0 .. Steps(pool', call'.forY) - 1, i \in Nat :
         Promise(j, i)' /\ (Running' /\ walk'.left > 0 => Distance' <= j)
  BY <1>1, <1>2, <1>3
<1>5. walk'.left = 0 =>
         /\ promised'.short = 0 => walk'.total >= promised'.want /\ walk'.fee = promised'.fee
         /\ promised'.short = 1 => walk'.total < promised'.want
  BY DEF PromiseInv
<1> QED
  BY <1>4, <1>5 DEF PromiseInv

\* Every step keeps the promise.
LEMMA PromiseStep ==
    ASSUME TypeOK, WalkInv, PromiseInv, [Next]_vars
    PROVE  PromiseInv'
<1>1. ASSUME promised' = NoPromise PROVE PromiseInv'
  BY <1>1 DEF PromiseInv
<1>2. ASSUME NEW mode \in {"exact_in", "exact_out"}, NEW forY \in BOOLEAN,
             NEW n \in Amounts, NEW c \in Clocks, Quote(mode, forY, n, c)
      PROVE  PromiseInv'
  BY <1>1, <1>2, QuoteStep
<1>3. ASSUME NEW short \in {0, 1}, Replay(short)
      PROVE  PromiseInv'
  BY <1>3, PromiseMade
<1>4. CASE FindArray
  <2>1. /\ pool' = pool /\ call' = call /\ promised' = promised
        /\ walk'.active = walk.active /\ walk'.left = walk.left
        /\ walk'.total = walk.total /\ walk'.fee = walk.fee
        /\ walk'.status \in {"crossing", "OutOfLiquidity", "ArrayNotCached"}
        /\ Passable(pool, call.forY, walk.active) => walk'.status = "crossing"
    BY <1>4, FindStep
  <2>2. Running /\ walk.left > 0
    BY <1>4 DEF FindArray, Running
  <2>3. CASE promised # NoPromise
    <3>1. walk'.status = "crossing"
      BY <2>1, <2>2, <2>3, PromiseAhead
    <3> QED
      BY <2>1, <2>2, <2>3, <3>1, PromiseQuiet
  <2> QED
    BY <1>1, <2>1, <2>3
<1>5. CASE Finish
  <2>1. /\ pool' = pool /\ call' = call /\ promised' = promised
        /\ walk'.active = walk.active /\ walk'.left = walk.left
        /\ walk'.total = walk.total /\ walk'.fee = walk.fee
        /\ walk'.status \in {"Ok", "Overflow"}
    BY <1>5 DEF Finish, End, TypeOK, Walks
  <2>2. Running
    BY <1>5 DEF Finish, Running
  <2>3. CASE promised # NoPromise
    BY <2>1, <2>2, <2>3, PromiseQuiet
  <2> QED
    BY <1>1, <2>1, <2>3
<1>6. CASE CrossBin
  <2>1. promised' = promised
    BY <1>6 DEF CrossBin
  <2> QED
    BY <1>1, <1>6, <2>1, PromiseCross
<1>7. CASE LeaveArray
  <2>1. /\ pool' = pool /\ call' = call /\ promised' = promised
        /\ walk'.active = walk.active /\ walk'.left = walk.left
        /\ walk'.total = walk.total /\ walk'.fee = walk.fee
        /\ walk'.status = "finding" /\ walk.status = "crossing"
    BY <1>7, LeaveStep
  <2>2. Running
    BY <2>1 DEF Running
  <2>3. CASE promised # NoPromise
    BY <2>1, <2>2, <2>3, PromiseQuiet
  <2> QED
    BY <1>1, <2>1, <2>3
<1>8. CASE UNCHANGED vars
  <2>1. pool' = pool /\ call' = call /\ promised' = promised /\ walk' = walk
    BY <1>8 DEF vars
  <2>2. Distance' = Distance /\ Time' = Time
    BY <2>1 DEF Distance, Time
  <2>3. \A k, in : Promise(k, in)' <=> Promise(k, in)
    BY <2>1, PromiseKept
  <2> QED
    BY <2>1, <2>2, <2>3 DEF PromiseInv, Running
<1> QED
  BY <1>2, <1>3, <1>4, <1>5, <1>6, <1>7, <1>8 DEF Next, Step

\* A walk keeps its promise in every state.
THEOREM PromiseAlwaysKept == Spec => [](TypeOK /\ WalkInv /\ PromiseInv)
<1>1. Init => TypeOK /\ WalkInv /\ PromiseInv
  BY InitFacts
<1>2. TypeOK /\ WalkInv /\ PromiseInv /\ [Next]_vars => (TypeOK /\ WalkInv /\ PromiseInv)'
  BY WalkStep, PromiseStep
<1> QED
  BY <1>1, <1>2, PTL DEF Spec

\* The exact-in quoter honours every exact-out quote: the quoted input never runs
\* out of bins, and where it ends it bought the output at the quoted fee.
THEOREM ExactOutAlwaysHonoured == Spec => []ExactOutIsHonoured
<1>1. TypeOK /\ WalkInv /\ PromiseInv => ExactOutIsHonoured
  <2> SUFFICES ASSUME TypeOK, WalkInv, PromiseInv, promised # NoPromise, promised.short = 0
               PROVE  ExactOutIsHonoured
    BY DEF ExactOutIsHonoured
  <2>1. walk.status = "Ok" => walk.left = 0
    BY DEF WalkInv
  <2> QED
    BY <2>1 DEF PromiseInv, ExactOutIsHonoured
<1> QED
  BY <1>1, PromiseAlwaysKept, PTL

\* The quoted input is the least: one unit less never buys the output.
THEOREM ExactOutAlwaysMinimal == Spec => []ExactOutIsMinimal
<1>1. TypeOK /\ WalkInv /\ PromiseInv => ExactOutIsMinimal
  <2> SUFFICES ASSUME TypeOK, WalkInv, PromiseInv, promised # NoPromise, promised.short = 1,
                      walk.status = "Ok"
               PROVE  walk.total < promised.want
    BY DEF ExactOutIsMinimal
  <2>1. walk.left = 0
    BY DEF WalkInv
  <2> QED
    BY <2>1 DEF PromiseInv
<1> QED
  BY <1>1, PromiseAlwaysKept, PTL
=============================================================================
