---------------------------- MODULE MarketProofs -----------------------------
(***************************************************************************)
(* What holds of PumpfunCurve and PoolQuotes for every width, reserve,     *)
(* rate, schedule and set of amounts, of the curve in a build with         *)
(* overflow checks: a market keeps its product, a curve can pay for the    *)
(* tokens it has sold, and nobody profits by rounding.                     *)
(*                                                                         *)
(* The arithmetic is nonlinear, so each quote has a lemma of its own in    *)
(* which every product is a named number.                                  *)
(***************************************************************************)
EXTENDS PoolQuotes, TLAPS, NaturalsInduction, WellFoundedInduction

-----------------------------------------------------------------------------
(* Numbers.                                                                *)

\* A nonempty set of naturals has a least element.
LEMMA LeastNatural ==
    ASSUME NEW S \in SUBSET Nat, S # {}
    PROVE  \E x \in S : \A y \in S : x <= y
<1>1. \E R : IsWellFoundedOn(R, Nat) /\ \A x, y \in Nat : y < x => <<y, x>> \in R
  <2>1. \A x, y \in Nat : y < x => <<y, x>> \in OpToRel(<, Nat)
    BY DEF OpToRel
  <2> QED
    BY <2>1, NatLessThanWellFounded, Zenon
<1>2. PICK R : IsWellFoundedOn(R, Nat) /\ \A x, y \in Nat : y < x => <<y, x>> \in R
  BY <1>1
<1>3. PICK x \in S : \A y \in S : <<y, x>> \notin R
  BY <1>2, WFMin
<1>4. ASSUME NEW y \in S
      PROVE  x <= y
  <2>1. x \in Nat /\ y \in Nat
    OBVIOUS
  <2>2. ~ (y < x)
    BY <1>2, <1>3, <2>1, Zenon
  <2> QED
    BY <2>1, <2>2
<1> QED
  BY <1>4

\* Min is the only element that is below all others.
LEMMA MinIs ==
    ASSUME NEW S \in SUBSET Nat, NEW x \in S, \A y \in S : x <= y
    PROVE  Min(S) = x
<1>1. Min(S) \in S /\ \A y \in S : Min(S) <= y
  BY DEF Min
<1>2. x \in Nat /\ Min(S) \in Nat /\ Min(S) <= x /\ x <= Min(S)
  BY <1>1
<1> HIDE DEF Min
<1> QED
  BY <1>2

\* A nonempty set of positions has a greatest one.
LEMMA GreatestPosition ==
    ASSUME NEW n \in Nat, NEW S \in SUBSET (1 .. n), S # {}
    PROVE  \E x \in S : \A y \in S : y <= x
<1> DEFINE D == {n - x : x \in S}
<1>1. D \in SUBSET Nat
  OBVIOUS
<1>2. D # {}
  OBVIOUS
<1>3. PICK d \in D : \A e \in D : d <= e
  <2> HIDE DEF D
  <2> QED
    BY <1>1, <1>2, LeastNatural
<1>4. PICK x \in S : d = n - x
  BY <1>3
<1>5. ASSUME NEW y \in S
      PROVE  y <= x
  <2>1. n - x <= n - y
    BY <1>3, <1>4
  <2> QED
    BY <2>1
<1> QED
  BY <1>4, <1>5

\* Max is the greatest element of a nonempty set of positions.
LEMMA MaxFacts ==
    ASSUME NEW n \in Nat, NEW S \in SUBSET (1 .. n), S # {}
    PROVE  Max(S) \in S /\ \A y \in S : y <= Max(S)
<1>1. PICK x \in S : \A y \in S : y <= x
  BY GreatestPosition
<1>2. x \in S /\ \A y \in S : x >= y
  BY <1>1
<1>3. Max(S) \in S /\ \A y \in S : Max(S) >= y
  BY <1>2 DEF Max
<1> QED
  BY <1>3

\* A product does not fall when a factor grows.
LEMMA TimesMonotone ==
    ASSUME NEW a \in Nat, NEW b \in Nat, NEW c \in Nat, a <= b
    PROVE  a * c <= b * c
<1>1. PICK d \in Nat : b = a + d
  <2>1. b - a \in Nat /\ b = a + (b - a)
    OBVIOUS
  <2> QED
    BY <2>1
<1>2. b * c = a * c + d * c
  BY <1>1
<1>3. d * c \in Nat /\ a * c \in Nat
  OBVIOUS
<1> QED
  BY <1>2, <1>3

\* What a division by a positive number returns.
LEMMA DivFacts ==
    ASSUME NEW a \in Nat, NEW b \in Nat \ {0}
    PROVE  /\ a \div b \in Nat
           /\ b * (a \div b) <= a
           /\ a < b * (a \div b) + b
  OBVIOUS

\* A number below the modulus is its own remainder.
LEMMA ModFacts ==
    ASSUME NEW m \in Nat \ {0}, NEW n \in Nat, n < m
    PROVE  n % m = n
  OBVIOUS

\* An element of a sequence is of its type.
LEMMA ElementOfSeq ==
    ASSUME NEW X, NEW s \in Seq(X), NEW i \in DOMAIN s
    PROVE  s[i] \in X
  OBVIOUS

-----------------------------------------------------------------------------
(* Arithmetic. *)

\* DivCeil is the least number whose product reaches its dividend.
LEMMA CeilFacts ==
    ASSUME NEW a \in Nat, NEW b \in Nat \ {0}
    PROVE  /\ DivCeil(a, b) \in Nat
           /\ a <= b * DivCeil(a, b)
<1> DEFINE s == a + b - 1
<1>1. s \in Nat
  OBVIOUS
<1>2. s \div b \in Nat /\ s < b * (s \div b) + b
  BY <1>1, DivFacts
<1> QED
  BY <1>2 DEF DivCeil

-----------------------------------------------------------------------------
(* The quotes. *)

\* Whatever the market cap, the tier lookup returns rates of the schedule, or
\* no fees where it has no tiers.
LEMMA TierIsOfSchedule ==
    ASSUME NEW tiers \in Schedules, NEW cap \in Nat
    PROVE  CalculateFeeTier(tiers, cap) \in Tariff
<1>1. tiers \in Seq([threshold : Nat, fees : [lp : Nat, protocol : Nat, creator : Nat]])
  BY ScheduleAssumption
<1>2. \A i \in DOMAIN tiers : tiers[i].fees \in Tariff
  BY DEF Tariff
<1>3. CASE tiers = <<>>
  BY <1>3 DEF CalculateFeeTier, Tariff
<1>4. CASE tiers # <<>>
  <2> DEFINE reached == {i \in DOMAIN tiers : cap >= tiers[i].threshold}
  <2>1. 1 \in DOMAIN tiers /\ tiers[1].threshold \in Nat
    <3>1. 1 \in DOMAIN tiers
      BY <1>1, <1>4
    <3>2. tiers[1] \in [threshold : Nat, fees : [lp : Nat, protocol : Nat, creator : Nat]]
      BY <1>1, <3>1, ElementOfSeq
    <3> QED
      BY <3>1, <3>2
  <2>2. CASE cap < tiers[1].threshold
    BY <1>2, <1>4, <2>1, <2>2 DEF CalculateFeeTier
  <2>3. CASE ~ (cap < tiers[1].threshold)
    <3>1. reached # {}
      BY <2>1, <2>3
    <3>2. Len(tiers) \in Nat /\ reached \in SUBSET (1 .. Len(tiers))
      BY <1>1
    <3>3. Max(reached) \in DOMAIN tiers
      <4>1. Max(reached) \in reached
        <5> HIDE DEF reached
        <5> QED
          BY <3>1, <3>2, MaxFacts
      <4>2. reached \subseteq DOMAIN tiers
        OBVIOUS
      <4> HIDE DEF reached
      <4> QED
        BY <4>1, <4>2
    <3>4. CalculateFeeTier(tiers, cap) = tiers[Max(reached)].fees
      BY <1>4, <2>3 DEF CalculateFeeTier
    <3> HIDE DEF reached
    <3> QED
      BY <1>2, <3>3, <3>4
  <2> QED
    BY <2>2, <2>3
<1> QED
  BY <1>3, <1>4

\* Rates a quote is computed with leave something of the amount.
LEMMA TariffIsRates ==
    Tariff \subseteq Rates
<1>1. NoFees \in Rates
  BY WidthAssumption DEF NoFees, Rates
<1>2. \A tiers \in Schedules : \A i \in DOMAIN tiers : tiers[i].fees \in Rates
  BY ScheduleAssumption
<1> QED
  BY <1>1, <1>2 DEF Tariff

\* A fee is a natural number.
LEMMA FeeIsNatural ==
    ASSUME NEW amount \in Nat, NEW fees \in Rates
    PROVE  TotalFee(amount, fees) \in Nat
<1>1. fees.protocol \in Nat /\ fees.creator \in Nat
  BY DEF Rates
<1>2. amount * fees.protocol \in Nat /\ amount * fees.creator \in Nat
  BY <1>1
<1>3. FeeOn(amount, fees.protocol) \in Nat /\ FeeOn(amount, fees.creator) \in Nat
  BY <1>2, CeilFacts, WidthAssumption DEF FeeOn
<1> QED
  BY <1>3 DEF TotalFee

\* Grossing up never lowers an amount.
LEMMA GrossUpFacts ==
    ASSUME NEW net \in Nat, NEW fees \in Rates
    PROVE  GrossUp(net, fees) \in Nat /\ net <= GrossUp(net, fees)
<1> DEFINE A == AfterFees(fees)
           G == GrossUp(net, fees)
<1>1. A \in Nat \ {0} /\ A <= FeeDenominator /\ FeeDenominator \in Nat
  BY WidthAssumption DEF AfterFees, Rates
<1>2. net * FeeDenominator \in Nat
  BY <1>1
<1> HIDE DEF A
<1>3. G \in Nat /\ net * FeeDenominator <= A * G
  BY <1>1, <1>2, CeilFacts DEF GrossUp, A
<1>4. A * net <= FeeDenominator * net
  BY <1>1, TimesMonotone
<1>5. CASE G < net
  <2> HIDE DEF G
  <2>1. G + 1 <= net
    BY <1>3, <1>5
  <2>2. (G + 1) * A <= net * A
    BY <1>1, <1>3, <2>1, TimesMonotone
  <2>3. (G + 1) * A = A * G + A
    BY <1>1, <1>3
  <2>4. net * A = A * net /\ FeeDenominator * net = net * FeeDenominator
    BY <1>1
  <2>5. A * G \in Nat /\ A * net \in Nat
    BY <1>1, <1>3
  <2> QED
    BY <1>1, <1>2, <1>3, <1>4, <2>2, <2>3, <2>4, <2>5
<1>6. CASE ~ (G < net)
  BY <1>3, <1>6
<1> QED
  BY <1>3, <1>5, <1>6

\* The constant product, rounded down: a reserve `into` grows by `more` and the
\* other pays `out`.  It keeps at least one unit, and the product does not fall.
LEMMA PaidOut ==
    ASSUME NEW into \in Nat \ {0}, NEW from \in Nat \ {0}, NEW more \in Nat,
           NEW out, out = (from * more) \div (into + more)
    PROVE  /\ out \in 0 .. from - 1
           /\ into * from <= (into + more) * (from - out)
<1> DEFINE d == into + more
           F == from * more
           P == d * out
           K == into * from
<1>1. d \in Nat \ {0} /\ F \in Nat /\ K \in Nat
  OBVIOUS
<1>2. out \in Nat /\ P <= F
  BY <1>1, DivFacts
<1>3. P \in Nat
  BY <1>1, <1>2
<1>4. d * from = K + F
  OBVIOUS
<1>5. K >= 1
  <2>1. 1 * from <= into * from
    BY TimesMonotone
  <2> QED
    BY <2>1
<1>6. out < from
  <2>1. CASE from <= out
    <3>1. from * d <= out * d
      BY <1>1, <1>2, <2>1, TimesMonotone
    <3>2. from * d = d * from /\ out * d = P
      BY <1>1, <1>2
    <3> QED
      BY <1>1, <1>2, <1>3, <1>4, <1>5, <3>1, <3>2
  <2> QED
    BY <1>2, <2>1
<1>7. d * (from - out) = d * from - P
  BY <1>1, <1>2
<1>8. K <= d * (from - out)
  <2> HIDE DEF d, F, P, K
  <2> QED
    BY <1>1, <1>2, <1>3, <1>4, <1>7
<1> QED
  BY <1>2, <1>6, <1>8

\* The constant product, rounded up: a reserve pays `out` of left + out, and the
\* other grows by what that costs.
LEMMA PaidIn ==
    ASSUME NEW into \in Nat, NEW left \in Nat \ {0}, NEW out \in Nat,
           NEW net, net = DivCeil(into * out, left)
    PROVE  net \in Nat /\ into * (left + out) <= (into + net) * left
<1> DEFINE N == into * out
           L == left * net
           K == into * left
<1>1. N \in Nat /\ K \in Nat
  OBVIOUS
<1>2. net \in Nat /\ N <= L
  BY <1>1, CeilFacts
<1>3. into * (left + out) = K + N /\ (into + net) * left = K + L
  BY <1>2
<1>4. L \in Nat
  BY <1>2
<1> HIDE DEF N, L, K
<1> QED
  BY <1>1, <1>2, <1>3, <1>4

\* Products of u64 numbers, and sums of two, fit a u128.
LEMMA WideFacts ==
    ASSUME NEW a \in 0 .. U64 - 1, NEW b \in 0 .. U64 - 1
    PROVE  Wide(a * b) = a * b /\ Wide(a + b) = a + b
<1> DEFINE P == a * b
           S == U64 * U64
<1>1. U64 \in Nat \ {0} /\ U128 = S
  BY WidthAssumption
<1>2. P \in Nat /\ S \in Nat \ {0}
  BY <1>1
<1>3. P <= a * U64 /\ a * U64 = U64 * a
  BY <1>1, TimesMonotone
<1>4. (a + 1) * U64 <= S /\ (a + 1) * U64 = a * U64 + U64
  BY <1>1, TimesMonotone
<1>5. P < S
  <2>1. a * U64 \in Nat
    BY <1>1
  <2> HIDE DEF P, S
  <2> QED
    BY <1>1, <1>2, <1>3, <1>4, <2>1
<1>6. a + b < S
  <2> DEFINE R == (U64 - 1) * (U64 - 1)
  <2>1. R \in Nat /\ S = R + 2 * U64 - 1
    BY <1>1
  <2> HIDE DEF R, S
  <2> QED
    BY <1>1, <1>2, <2>1
<1> HIDE DEF P, S
<1>7. Wide(P) = P
  BY <1>1, <1>2, <1>5, ModFacts DEF Wide
<1>8. Wide(a + b) = a + b
  BY <1>1, <1>2, <1>6, ModFacts DEF Wide
<1> QED
  BY <1>7, <1>8 DEF P

\* A number below U64 passes either width unchanged.
LEMMA NarrowFacts ==
    ASSUME NEW a \in 0 .. U64 - 1
    PROVE  Narrow(a) = a /\ Wide(a) = a
<1>1. \A b \in 0 .. U64 - 1 : Wide(a + b) = a + b
  BY WideFacts
<1>2. Wide(a) = a
  <2>1. 0 \in 0 .. U64 - 1 /\ a + 0 = a
    BY WidthAssumption
  <2> QED
    BY <1>1, <2>1
<1>3. Narrow(a) = a
  BY WidthAssumption, ModFacts DEF Narrow
<1> QED
  BY <1>2, <1>3

-----------------------------------------------------------------------------
(* The quotes: how each moves the reserves. *)

\* calculate_buy charges the amount and pays out of the token reserve.
LEMMA BuyMoves ==
    ASSUME Checked, NEW c, NEW amount \in 1 .. U64 - 1, NEW fees \in Rates,
           c.virtual_quote \in 1 .. U64 - 1, c.virtual_token \in 1 .. U64 - 1,
           NEW q, q = CalculateBuy(c, amount, fees), q.outcome = "Ok"
    PROVE  /\ q.amount_in = amount
           /\ q.amount_out \in Nat
           /\ q.token = c.virtual_token - q.amount_out
           /\ q.token \in Nat \ {0}
           /\ q.quote \in c.virtual_quote .. c.virtual_quote + amount
           /\ c.virtual_quote * c.virtual_token <= q.quote * q.token
<1> DEFINE Q == c.virtual_quote
           T == c.virtual_token
           fee == TotalFee(amount, fees)
           net == amount - fee
           out == Wide(T * net) \div Wide(Q + net)
<1>1. fee \in Nat
  BY FeeIsNatural, WidthAssumption
<1>2. ~ (net < 0)
  BY "Panic" # "Ok" DEF CalculateBuy, Refused
<1>3. net \in 0 .. amount /\ net \in 0 .. U64 - 1
  BY <1>1, <1>2, WidthAssumption
<1>4. q = Quoted(amount, out, fee, Wide(Q + net), Wide(T - out))
  BY <1>2 DEF CalculateBuy
<1>5. Wide(T * net) = T * net /\ Wide(Q + net) = Q + net
  <2> HIDE DEF net
  <2> QED
    BY <1>3, WideFacts, WidthAssumption
<1>6. out = (T * net) \div (Q + net)
  BY <1>5
<1>7. out \in 0 .. T - 1 /\ Q * T <= (Q + net) * (T - out)
  <2>1. Q \in Nat \ {0} /\ T \in Nat \ {0} /\ net \in Nat
    BY <1>3, WidthAssumption
  <2> HIDE DEF Q, T, net, out
  <2> QED
    BY <1>6, <2>1, PaidOut
<1> HIDE DEF net, out, fee
<1>8. out \in 0 .. U64 - 1 /\ T - out \in 0 .. U64 - 1 /\ T - out \in Nat \ {0}
  BY <1>7, WidthAssumption
<1>9. Narrow(amount) = amount /\ Narrow(out) = out /\ Wide(T - out) = T - out
  BY <1>8, NarrowFacts, WidthAssumption
<1>10. /\ q.amount_in = amount /\ q.amount_out = out
       /\ q.quote = Q + net /\ q.token = T - out
  BY <1>4, <1>5, <1>9 DEF Quoted
<1> QED
  BY <1>3, <1>7, <1>8, <1>10, WidthAssumption

\* calculate_sell takes the amount and pays the proceeds, of which the seller
\* gets what the fees leave.
LEMMA SellMoves ==
    ASSUME Checked, NEW c, NEW amount \in 1 .. U64 - 1, NEW fees \in Rates,
           c.virtual_quote \in 1 .. U64 - 1, c.virtual_token \in 1 .. U64 - 1,
           NEW q, q = CalculateSell(c, amount, fees), q.outcome = "Ok"
    PROVE  /\ q.amount_in = amount
           /\ q.amount_out \in 0 .. c.virtual_quote - q.quote
           /\ q.token = c.virtual_token + amount
           /\ q.quote \in 1 .. c.virtual_quote
           /\ c.virtual_quote * c.virtual_token <= q.quote * q.token
<1> DEFINE Q == c.virtual_quote
           T == c.virtual_token
           gross == (Q * amount) \div (T + amount)
           fee == TotalFee(gross, fees)
           out == gross - fee
<1>1. gross \in 0 .. Q - 1 /\ T * Q <= (T + amount) * (Q - gross)
  <2>1. Q \in Nat \ {0} /\ T \in Nat \ {0} /\ amount \in Nat
    BY WidthAssumption
  <2> HIDE DEF Q, T
  <2> QED
    BY <2>1, PaidOut
<1>2. ~ (out < 0)
  BY "Panic" # "Ok" DEF CalculateSell, Refused
<1>3. q = Quoted(amount, out, fee, Q - gross, T + amount)
  BY <1>2 DEF CalculateSell
<1> HIDE DEF gross
<1>4. fee \in Nat
  BY <1>1, FeeIsNatural
<1>5. out \in 0 .. gross /\ out \in 0 .. U64 - 1
  BY <1>1, <1>2, <1>4, WidthAssumption
<1> HIDE DEF fee, out
<1>6. Narrow(amount) = amount /\ Narrow(out) = out
  BY <1>5, NarrowFacts, WidthAssumption
<1>7. /\ q.amount_in = amount /\ q.amount_out = out
      /\ q.quote = Q - gross /\ q.token = T + amount
  BY <1>3, <1>6 DEF Quoted
<1>8. T * Q = Q * T /\ (T + amount) * (Q - gross) = (Q - gross) * (T + amount)
  BY <1>1, WidthAssumption
<1> QED
  BY <1>1, <1>5, <1>7, <1>8, WidthAssumption

\* calculate_buy_exact_out leaves the token reserve without the amount, and
\* charges at least what it adds to the quote reserve.
LEMMA BuyExactOutMoves ==
    ASSUME NEW c, NEW amount \in Nat, NEW fees \in Rates,
           c.virtual_quote \in Nat, c.virtual_token \in Nat,
           amount \in 0 .. U64 - 1,
           GrossUp(DivCeil(c.virtual_quote * amount, c.virtual_token - amount), fees) < U64,
           NEW q, q = CalculateBuyExactOut(c, amount, fees), q.outcome = "Ok"
    PROVE  /\ q.amount_out = amount
           /\ q.token = c.virtual_token - amount
           /\ q.token \in Nat \ {0}
           /\ q.quote \in Nat
           /\ q.amount_in \in Nat
           /\ q.quote \in c.virtual_quote .. c.virtual_quote + q.amount_in
           /\ c.virtual_quote * c.virtual_token <= q.quote * q.token
<1> DEFINE Q == c.virtual_quote
           T == c.virtual_token
           left == T - amount
           net == DivCeil(Q * amount, left)
           gross == GrossUp(net, fees)
<1>1. ~ (amount >= T)
  BY "InsufficientReserves" # "Ok" DEF CalculateBuyExactOut, Refused
<1>2. q = Quoted(gross, amount, TotalFee(gross, fees), Q + net, left)
  BY <1>1 DEF CalculateBuyExactOut
<1>3. left \in Nat \ {0} /\ T = left + amount
  BY <1>1
<1>4. net \in Nat /\ Q * T <= (Q + net) * left
  <2> HIDE DEF Q, T, left
  <2>1. Q \in Nat
    BY DEF Q
  <2> QED
    BY <1>3, <2>1, PaidIn
<1> HIDE DEF net, left
<1>5. gross \in Nat /\ net <= gross
  BY <1>4, GrossUpFacts
<1>6. gross \in 0 .. U64 - 1
  BY <1>5, WidthAssumption DEF net, left
<1> HIDE DEF gross
<1>7. Narrow(gross) = gross /\ Narrow(amount) = amount
  BY <1>6, NarrowFacts
<1>8. /\ q.amount_in = gross /\ q.amount_out = amount
      /\ q.quote = Q + net /\ q.token = left
  BY <1>2, <1>7 DEF Quoted
<1> QED
  BY <1>3, <1>4, <1>5, <1>8 DEF left

-----------------------------------------------------------------------------
(* The trading of a curve. *)

\* The product of the reserves is at least the one the curve began with.
ProductKept ==
    StartQuote * StartToken <= curve.virtual_quote * curve.virtual_token

\* Inductive: the bound on the SOL drawn keeps the quote reserve within a u64,
\* the account of the tokens keeps the token reserve so, and since the holders
\* cannot sell more tokens than they bought, the product keeps the quote reserve
\* from falling below what the curve began with: it can pay.
IInv == TypeOK /\ HoldersNeverProfit /\ ProductKept

\* The market cap is defined wherever trading has led.
LEMMA MarketCapIsNatural ==
    ASSUME IInv
    PROVE  MarketCap(curve) \in Nat
<1>1. curve.virtual_quote \in Nat /\ curve.virtual_token \in Nat \ {0}
  BY DEF IInv, TypeOK
<1>2. curve.virtual_quote * TotalSupply \in Nat
  BY <1>1, StartAssumption
<1> QED
  BY <1>1, <1>2, DivFacts DEF MarketCap

\* What a quote is computed from, wherever trading has led.
LEMMA QuotedState ==
    ASSUME IInv
    PROVE  /\ curve.virtual_quote \in 1 .. U64 - 1
           /\ curve.virtual_quote <= StartQuote + StartSol
           /\ curve.virtual_token \in 1 .. U64 - 1
           /\ FeesOf(curve) \in Tariff
           /\ FeesOf(curve) \in Rates
<1>1. /\ curve.real_quote \in Nat /\ curve.real_token \in Nat
      /\ holders.sol \in Nat /\ holders.tokens \in Nat
      /\ curve.virtual_quote \in Nat /\ curve.virtual_token \in Nat \ {0}
      /\ curve.virtual_quote = curve.real_quote + StartQuote
      /\ curve.virtual_token = curve.real_token + StartToken - StartReal
      /\ holders.tokens = StartReal - curve.real_token
      /\ holders.sol + curve.real_quote <= StartSol
      /\ fee_tiers \in Schedules
  BY DEF IInv, TypeOK, HoldersNeverProfit
<1>2. curve.virtual_quote \in 1 .. U64 - 1 /\ curve.virtual_quote <= StartQuote + StartSol
  BY <1>1, StartAssumption, WidthAssumption
<1>3. curve.virtual_token \in 1 .. U64 - 1
  BY <1>1, StartAssumption, WidthAssumption
<1>4. MarketCap(curve) \in Nat
  BY MarketCapIsNatural
<1>5. FeesOf(curve) \in Tariff
  BY <1>1, <1>4, TierIsOfSchedule DEF FeesOf
<1> QED
  BY <1>2, <1>3, <1>5, TariffIsRates

\* A state whose product is not below that of a state that keeps it keeps it.
LEMMA ProductTransitive ==
    ASSUME IInv, NEW quote \in Nat, NEW token \in Nat,
           curve.virtual_quote * curve.virtual_token <= quote * token
    PROVE  StartQuote * StartToken <= quote * token
<1> DEFINE K0 == StartQuote * StartToken
           K1 == curve.virtual_quote * curve.virtual_token
           K2 == quote * token
<1>1. K0 \in Nat /\ K1 \in Nat /\ K2 \in Nat
  BY QuotedState, StartAssumption
<1>2. K0 <= K1 /\ K1 <= K2
  BY DEF IInv, ProductKept
<1> HIDE DEF K0, K1, K2
<1>3. K0 <= K2
  BY <1>1, <1>2
<1> QED
  BY <1>3 DEF K0, K2

\* What a quote of either kind tells a buyer, and what the buy then does.
LEMMA BuyStep ==
    ASSUME Checked, IInv, NEW amount \in Amounts, NEW kind \in {"ExactIn", "ExactOut"},
           Buy(kind, amount)
    PROVE  IInv' /\ curve.virtual_quote * curve.virtual_token
                       <= curve'.virtual_quote * curve'.virtual_token
<1> DEFINE q == Quote("Buy", kind, amount)
           fees == FeesOf(curve)
<1>1. /\ q.outcome = "Ok" /\ q.amount_in <= holders.sol /\ q.amount_out <= curve.real_token
      /\ curve' = Moved(q)
      /\ holders' = [sol |-> holders.sol - q.amount_in,
                     tokens |-> holders.tokens + q.amount_out]
      /\ fee_tiers' = fee_tiers
  BY DEF Buy
<1>2. amount \in 1 .. U64 - 1
  <2>1. amount \in 0 .. U64 - 1
    BY WidthAssumption
  <2>2. amount # 0
    BY <1>1, "ZeroAmount" # "Ok", "BondingCurveCompleted" # "Ok"
       DEF Quote, CalculateSwap, Tested, Refused
  <2> QED
    BY <2>1, <2>2
<1>3. /\ kind = "ExactIn" => q = CalculateBuy(curve, amount, fees)
      /\ kind = "ExactOut" => q = CalculateBuyExactOut(curve, amount, fees)
  BY <1>1, "ZeroAmount" # "Ok", "BondingCurveCompleted" # "Ok"
     DEF Quote, CalculateSwap, Tested, Refused
<1> HIDE DEF q, fees
<1>4. /\ q.amount_in \in Nat /\ q.amount_out \in Nat
      /\ q.token = curve.virtual_token - q.amount_out
      /\ q.token \in Nat \ {0}
      /\ q.quote \in curve.virtual_quote .. curve.virtual_quote + q.amount_in
      /\ curve.virtual_quote * curve.virtual_token <= q.quote * q.token
  <2>1. CASE kind = "ExactIn"
    BY <1>1, <1>2, <1>3, <2>1, QuotedState, BuyMoves DEF fees
  <2>2. CASE kind = "ExactOut"
    <3>1. q.amount_out = amount
      <4>1. q.outcome = "Ok" /\ q = CalculateBuyExactOut(curve, amount, fees)
        BY <1>1, <1>3, <2>2
      <4>2. amount < curve.virtual_token
        BY <1>2, <4>1, QuotedState, "InsufficientReserves" # "Ok"
           DEF CalculateBuyExactOut, Refused
      <4>3. Narrow(amount) = amount
        BY <1>2, NarrowFacts
      <4> QED
        BY <1>2, <4>1, <4>2, <4>3, QuotedState DEF CalculateBuyExactOut, Quoted
    <3>2. /\ amount \in 0 .. StartReal
          /\ curve.virtual_quote \in 0 .. StartQuote + StartSol
          /\ curve.virtual_token - amount \in StartToken - StartReal .. StartToken
      BY <1>1, <1>2, <3>1, QuotedState, StartAssumption DEF IInv, TypeOK
    <3>3. GrossUp(DivCeil(curve.virtual_quote * amount, curve.virtual_token - amount), fees)
            < U64
      BY <3>2, QuotedState, PriceAssumption DEF fees
    <3>4. amount \in Nat /\ curve.virtual_quote \in Nat /\ curve.virtual_token \in Nat
      BY <1>2, QuotedState
    <3> QED
      BY <1>1, <1>2, <1>3, <2>2, <3>3, <3>4, QuotedState, BuyExactOutMoves DEF fees
  <2> QED
    BY <2>1, <2>2
<1>5. /\ curve'.virtual_quote = q.quote /\ curve'.virtual_token = q.token
      /\ curve'.real_quote = curve.real_quote + q.quote - curve.virtual_quote
      /\ curve'.real_token = curve.real_token + q.token - curve.virtual_token
      /\ curve'.complete \in BOOLEAN
      /\ curve' = [virtual_quote |-> curve'.virtual_quote, virtual_token |-> curve'.virtual_token,
                   real_quote |-> curve'.real_quote, real_token |-> curve'.real_token,
                   complete |-> curve'.complete]
  BY <1>1 DEF Moved
<1>6. /\ curve.real_quote \in Nat /\ curve.real_token \in Nat
      /\ holders.sol \in Nat /\ holders.tokens \in Nat
      /\ curve.virtual_quote \in Nat /\ curve.virtual_token \in Nat
      /\ curve.virtual_quote = curve.real_quote + StartQuote
      /\ curve.virtual_token = curve.real_token + StartToken - StartReal
      /\ holders.tokens = StartReal - curve.real_token
      /\ holders.sol + curve.real_quote <= StartSol
      /\ fee_tiers \in Schedules
  BY DEF IInv, TypeOK, HoldersNeverProfit
<1>7. /\ curve'.real_quote \in Nat /\ curve'.real_token \in Nat
      /\ curve'.virtual_quote \in Nat /\ curve'.virtual_token \in Nat \ {0}
      /\ curve'.virtual_quote = curve'.real_quote + StartQuote
      /\ curve'.virtual_token = curve'.real_token + StartToken - StartReal
  BY <1>1, <1>4, <1>5, <1>6, StartAssumption
<1>8. curve' \in [virtual_quote : Nat, virtual_token : Nat \ {0},
                  real_quote : Nat, real_token : Nat, complete : BOOLEAN]
  BY <1>5, <1>7
<1>9. /\ holders'.sol \in Nat /\ holders'.tokens \in Nat
      /\ holders' \in [sol : Nat, tokens : Nat]
      /\ holders'.tokens = StartReal - curve'.real_token
      /\ holders'.sol + curve'.real_quote <= StartSol
  BY <1>1, <1>4, <1>5, <1>6, StartAssumption
<1>10. ProductKept'
  <2>1. q.quote \in Nat /\ q.token \in Nat
    BY <1>4, <1>6
  <2>2. StartQuote * StartToken <= q.quote * q.token
    BY <1>4, <2>1, ProductTransitive
  <2> QED
    BY <1>5, <2>2 DEF ProductKept
<1>11. IInv'
  BY <1>1, <1>6, <1>7, <1>8, <1>9, <1>10 DEF IInv, TypeOK, HoldersNeverProfit
<1> QED
  BY <1>4, <1>5, <1>11

\* While no more tokens are in the curve than at first, a product that is kept
\* means a quote reserve that is kept.
LEMMA ProductBoundsQuote ==
    ASSUME NEW quote \in Nat, NEW token \in Nat, token <= StartToken,
           StartQuote * StartToken <= quote * token
    PROVE  StartQuote <= quote
<1> DEFINE K0 == StartQuote * StartToken
           K1 == quote * StartToken
           K2 == quote * token
<1>1. StartQuote \in Nat /\ StartToken \in Nat \ {0}
  BY StartAssumption
<1>2. K0 \in Nat /\ K1 \in Nat /\ K2 \in Nat
  BY <1>1
<1>3. K2 <= K1
  <2>1. token * quote <= StartToken * quote
    BY <1>1, TimesMonotone
  <2> QED
    BY <1>1, <2>1
<1>4. CASE quote < StartQuote
  <2>1. quote + 1 <= StartQuote
    BY <1>1, <1>4
  <2>2. (quote + 1) * StartToken <= K0
    BY <1>1, <2>1, TimesMonotone
  <2>3. (quote + 1) * StartToken = K1 + StartToken
    BY <1>1
  <2>4. K0 <= K2
    OBVIOUS
  <2> HIDE DEF K0, K1, K2
  <2> QED
    BY <1>1, <1>2, <1>3, <2>2, <2>3, <2>4
<1> QED
  BY <1>1, <1>4

\* The same of a sell.
LEMMA SellStep ==
    ASSUME Checked, IInv, NEW amount \in Amounts, Sell(amount)
    PROVE  IInv' /\ curve.virtual_quote * curve.virtual_token
                       <= curve'.virtual_quote * curve'.virtual_token
<1> DEFINE q == Quote("Sell", "ExactIn", amount)
           fees == FeesOf(curve)
<1>1. /\ q.outcome = "Ok" /\ amount <= holders.tokens
      /\ curve' = Moved(q)
      /\ holders' = [sol |-> holders.sol + q.amount_out,
                     tokens |-> holders.tokens - q.amount_in]
      /\ fee_tiers' = fee_tiers
  BY DEF Sell
<1>2. amount \in 1 .. U64 - 1
  <2>1. amount \in 0 .. U64 - 1
    BY WidthAssumption
  <2>2. amount # 0
    BY <1>1, "ZeroAmount" # "Ok", "BondingCurveCompleted" # "Ok"
       DEF Quote, CalculateSwap, Tested, Refused
  <2> QED
    BY <2>1, <2>2
<1>3. q = CalculateSell(curve, amount, fees)
  BY <1>1, "ZeroAmount" # "Ok", "BondingCurveCompleted" # "Ok", "Sell" # "Buy"
     DEF Quote, CalculateSwap, Tested, Refused
<1> HIDE DEF q, fees
<1>4. /\ q.amount_in = amount
      /\ q.amount_out \in 0 .. curve.virtual_quote - q.quote
      /\ q.token = curve.virtual_token + amount
      /\ q.quote \in 1 .. curve.virtual_quote
      /\ curve.virtual_quote * curve.virtual_token <= q.quote * q.token
  BY <1>1, <1>2, <1>3, QuotedState, SellMoves DEF fees
<1>5. /\ curve'.virtual_quote = q.quote /\ curve'.virtual_token = q.token
      /\ curve'.real_quote = curve.real_quote + q.quote - curve.virtual_quote
      /\ curve'.real_token = curve.real_token + q.token - curve.virtual_token
      /\ curve'.complete \in BOOLEAN
      /\ curve' = [virtual_quote |-> curve'.virtual_quote, virtual_token |-> curve'.virtual_token,
                   real_quote |-> curve'.real_quote, real_token |-> curve'.real_token,
                   complete |-> curve'.complete]
  BY <1>1 DEF Moved
<1>6. /\ curve.real_quote \in Nat /\ curve.real_token \in Nat
      /\ holders.sol \in Nat /\ holders.tokens \in Nat
      /\ curve.virtual_quote \in Nat /\ curve.virtual_token \in Nat
      /\ curve.virtual_quote = curve.real_quote + StartQuote
      /\ curve.virtual_token = curve.real_token + StartToken - StartReal
      /\ holders.tokens = StartReal - curve.real_token
      /\ holders.sol + curve.real_quote <= StartSol
      /\ fee_tiers \in Schedules
  BY DEF IInv, TypeOK, HoldersNeverProfit
<1>7. q.quote \in Nat /\ q.token \in Nat /\ q.token <= StartToken
  BY <1>1, <1>2, <1>4, <1>6, StartAssumption
<1>8. StartQuote * StartToken <= q.quote * q.token
  BY <1>4, <1>7, ProductTransitive
<1>9. StartQuote <= q.quote
  BY <1>7, <1>8, ProductBoundsQuote
<1>10. /\ curve'.real_quote \in Nat /\ curve'.real_token \in Nat
       /\ curve'.virtual_quote \in Nat /\ curve'.virtual_token \in Nat \ {0}
       /\ curve'.virtual_quote = curve'.real_quote + StartQuote
       /\ curve'.virtual_token = curve'.real_token + StartToken - StartReal
  BY <1>2, <1>4, <1>5, <1>6, <1>7, <1>9, StartAssumption
<1>11. curve' \in [virtual_quote : Nat, virtual_token : Nat \ {0},
                   real_quote : Nat, real_token : Nat, complete : BOOLEAN]
  BY <1>5, <1>10
<1>12. /\ holders'.sol \in Nat /\ holders'.tokens \in Nat
       /\ holders' \in [sol : Nat, tokens : Nat]
       /\ holders'.tokens = StartReal - curve'.real_token
       /\ holders'.sol + curve'.real_quote <= StartSol
  BY <1>1, <1>2, <1>4, <1>5, <1>6, StartAssumption
<1>13. ProductKept'
  BY <1>5, <1>8 DEF ProductKept
<1>14. IInv'
  BY <1>1, <1>6, <1>10, <1>11, <1>12, <1>13 DEF IInv, TypeOK, HoldersNeverProfit
<1> QED
  BY <1>4, <1>5, <1>14

\* A new curve satisfies the invariant.
LEMMA InitIInv == Init => IInv
<1> SUFFICES ASSUME Init PROVE IInv
  OBVIOUS
<1>1. /\ curve = [virtual_quote |-> StartQuote, virtual_token |-> StartToken,
                  real_quote |-> 0, real_token |-> StartReal, complete |-> FALSE]
      /\ fee_tiers \in Schedules
      /\ holders = [sol |-> StartSol, tokens |-> 0]
  BY DEF Init
<1>2. TypeOK
  BY <1>1, StartAssumption DEF TypeOK
<1>3. HoldersNeverProfit
  BY <1>1, StartAssumption DEF HoldersNeverProfit
<1>4. StartQuote * StartToken \in Nat
  BY StartAssumption
<1>5. ProductKept
  BY <1>1, <1>4 DEF ProductKept
<1> QED
  BY <1>2, <1>3, <1>5 DEF IInv

\* Every step keeps the invariant and does not lower the product.
LEMMA NextIInv ==
    ASSUME Checked, IInv, [Next]_vars
    PROVE  IInv' /\ curve'.virtual_quote * curve'.virtual_token
                       >= curve.virtual_quote * curve.virtual_token
<1> DEFINE K == curve.virtual_quote * curve.virtual_token
<1>1. K \in Int
  BY QuotedState
<1>2. CASE \E amount \in Amounts, kind \in {"ExactIn", "ExactOut"} : Buy(kind, amount)
  <2>1. IInv' /\ K <= K'
    BY <1>2, BuyStep
  <2> QED
    BY <2>1
<1>3. CASE \E amount \in Amounts : Sell(amount)
  <2>1. IInv' /\ K <= K'
    BY <1>3, SellStep
  <2> QED
    BY <2>1
<1>4. CASE Reschedule
  <2>1. fee_tiers' \in Schedules /\ curve' = curve /\ holders' = holders
    BY <1>4 DEF Reschedule
  <2> QED
    BY <1>1, <2>1 DEF IInv, TypeOK, HoldersNeverProfit, ProductKept
<1>5. CASE UNCHANGED vars
  <2>1. fee_tiers' = fee_tiers /\ curve' = curve /\ holders' = holders
    BY <1>5 DEF vars
  <2> QED
    BY <1>1, <2>1 DEF IInv, TypeOK, HoldersNeverProfit, ProductKept
<1> QED
  BY <1>2, <1>3, <1>4, <1>5 DEF Next

\* The invariant holds of every reachable state.
LEMMA AlwaysIInv ==
    ASSUME Checked
    PROVE  Spec => []IInv
<1>1. IInv /\ [Next]_vars => IInv'
  BY NextIInv
<1> QED
  BY InitIInv, <1>1, PTL DEF Spec

\* TypeOK for every curve: the virtual reserves never lose their distance from
\* the real ones, the real ones are never overdrawn, and the tokens add up.
THEOREM TypeCorrect ==
    ASSUME Checked
    PROVE  Spec => []TypeOK
<1>1. IInv => TypeOK
  BY DEF IInv
<1> QED
  BY AlwaysIInv, <1>1, PTL

\* HoldersNeverProfit: no sequence of quoted trades, across fee tiers and changes
\* of schedule, takes out SOL that was not put in.
THEOREM NobodyProfits ==
    ASSUME Checked
    PROVE  Spec => []HoldersNeverProfit
<1>1. IInv => HoldersNeverProfit
  BY DEF IInv
<1> QED
  BY AlwaysIInv, <1>1, PTL

\* ProductNeverFalls: the rounding of every quote goes to the curve.
THEOREM ProductNeverLowered ==
    ASSUME Checked
    PROVE  Spec => ProductNeverFalls
<1>1. IInv /\ [Next]_vars
        => [curve'.virtual_quote * curve'.virtual_token
               >= curve.virtual_quote * curve.virtual_token]_vars
  BY NextIInv
<1> QED
  BY AlwaysIInv, <1>1, PTL DEF Spec, ProductNeverFalls

-----------------------------------------------------------------------------
(* What the two kinds of quote make of each other's amounts.               *)

\* DivCeil exceeds its quotient by less than one, and is the least number whose
\* product reaches the dividend.
LEMMA CeilTight ==
    ASSUME NEW a \in Nat, NEW b \in Nat \ {0}
    PROVE  /\ b * DivCeil(a, b) <= a + b - 1
           /\ \A k \in Nat : a <= b * k => DivCeil(a, b) <= k
<1> DEFINE s == a + b - 1
           d == s \div b
<1>1. s \in Nat /\ d \in Nat /\ b * d <= s /\ s < b * d + b
  <2>1. s \in Nat
    OBVIOUS
  <2> QED
    BY <2>1, DivFacts
<1>2. DivCeil(a, b) = d
  BY DEF DivCeil
<1>3. ASSUME NEW k \in Nat, a <= b * k, k < d
      PROVE  FALSE
  <2>1. (k + 1) * b <= d * b
    BY <1>1, <1>3, TimesMonotone
  <2>2. (k + 1) * b = b * k + b /\ d * b = b * d /\ b * k \in Nat /\ b * d \in Nat
    BY <1>1
  <2> HIDE DEF d
  <2> QED
    BY <1>1, <1>3, <2>1, <2>2 DEF s
<1> HIDE DEF d
<1> QED
  BY <1>1, <1>2, <1>3

\* A quotient is the greatest number whose product the dividend reaches.
LEMMA DivGreatest ==
    ASSUME NEW a \in Nat, NEW b \in Nat \ {0}, NEW k \in Nat, k * b <= a
    PROVE  k <= a \div b
<1> DEFINE d == a \div b
<1>1. d \in Nat /\ a < b * d + b
  BY DivFacts
<1> HIDE DEF d
<1>2. CASE d < k
  <2>1. (d + 1) * b <= k * b
    BY <1>1, <1>2, TimesMonotone
  <2>2. (d + 1) * b = b * d + b /\ k * b \in Nat /\ b * d \in Nat
    BY <1>1
  <2> QED
    BY <1>1, <2>1, <2>2
<1>3. CASE ~ (d < k)
  BY <1>1, <1>3 DEF d
<1> QED
  BY <1>2, <1>3

\* A factor that is the same on both sides can be dropped.
LEMMA FactorDropped ==
    ASSUME NEW d \in Nat \ {0}, NEW x \in Int, NEW y \in Int, d * x < d * y
    PROVE  x < y
<1>1. CASE y <= x
  <2>1. PICK z \in Nat : x = y + z
    <3>1. x - y \in Nat /\ x = y + (x - y)
      BY <1>1
    <3> QED
      BY <3>1
  <2>2. d * x = d * y + d * z
    BY <2>1
  <2>3. d * z \in Nat /\ d * y \in Int
    OBVIOUS
  <2> QED
    BY <2>2, <2>3
<1> QED
  BY <1>1

\* Asking for what an amount would give costs no more than the amount.
LEMMA PriceOfOutput ==
    ASSUME NEW to \in Nat, NEW from \in Nat, NEW amount \in Nat, NEW out \in Nat,
           out < from, out * (to + amount) <= from * amount
    PROVE  DivCeil(to * out, from - out) <= amount
<1> DEFINE left == from - out
<1>1. left \in Nat \ {0} /\ to * out \in Nat
  OBVIOUS
<1>2. /\ out * (to + amount) = to * out + out * amount
      /\ from * amount = left * amount + out * amount
      /\ out * amount \in Nat /\ left * amount \in Nat
  BY <1>1
<1>3. to * out <= left * amount
  <2> HIDE DEF left
  <2> QED
    BY <1>1, <1>2
<1> QED
  BY <1>1, <1>3, CeilTight

\* Paying what was asked for an output gives no less of it.
LEMMA OutputOfPrice ==
    ASSUME NEW to \in Nat \ {0}, NEW from \in Nat, NEW out \in Nat, out < from,
           NEW due, due = to * out, NEW left, left = from - out,
           NEW price, price = DivCeil(due, left)
    PROVE  /\ price \in Nat
           /\ out <= (from * price) \div (to + price)
           /\ out > 0 => price > 0
<1>1. left \in Nat \ {0} /\ to * out \in Nat
  OBVIOUS
<1>2. price \in Nat /\ to * out <= left * price
  BY <1>1, CeilFacts
<1>3. /\ out * (to + price) = to * out + out * price
      /\ from * price = left * price + out * price
      /\ out * price \in Nat /\ left * price \in Nat
      /\ to + price \in Nat \ {0}
  BY <1>1, <1>2
<1>4. out * (to + price) <= from * price
  BY <1>1, <1>2, <1>3
<1>5. from * price \in Nat
  BY <1>2
<1>6. out <= (from * price) \div (to + price)
  BY <1>3, <1>4, <1>5, DivGreatest
<1>7. ASSUME out > 0, price = 0
      PROVE  FALSE
  <2>1. 1 * to <= out * to
    BY <1>7, TimesMonotone
  <2>2. out * to = to * out /\ left * price = 0
    BY <1>1, <1>7
  <2> QED
    BY <1>2, <2>1, <2>2
<1> QED
  BY <1>2, <1>6, <1>7

\* Two fees, each rounded up, come to at least their share of the amount and to
\* less than two units more.
LEMMA TotalFeeFacts ==
    ASSUME NEW amount \in Nat, NEW fees \in Rates
    PROVE  /\ TotalFee(amount, fees) \in Nat
           /\ FeeDenominator * (amount - TotalFee(amount, fees)) <= amount * AfterFees(fees)
           /\ amount * AfterFees(fees)
                <= FeeDenominator * (amount - TotalFee(amount, fees)) + 2 * FeeDenominator - 2
<1> DEFINE D == FeeDenominator
           p == fees.protocol
           c == fees.creator
           P == amount * p
           C == amount * c
           x == FeeOn(amount, p)
           y == FeeOn(amount, c)
<1>1. D \in Nat \ {0} /\ p \in Nat /\ c \in Nat
  BY WidthAssumption DEF Rates
<1>2. P \in Nat /\ C \in Nat
  BY <1>1
<1> HIDE DEF D, p, c
<1>3. x \in Nat /\ P <= D * x /\ D * x <= P + D - 1
  BY <1>1, <1>2, CeilFacts, CeilTight DEF FeeOn, D
<1>4. y \in Nat /\ C <= D * y /\ D * y <= C + D - 1
  BY <1>1, <1>2, CeilFacts, CeilTight DEF FeeOn, D
<1>5. TotalFee(amount, fees) = x + y
  BY DEF TotalFee, p, c
<1>6. amount * AfterFees(fees) = amount * D - P - C
  <2>1. AfterFees(fees) = D - (p + c)
    BY DEF AfterFees, D, p, c
  <2>2. amount * (D - (p + c)) = amount * D - amount * p - amount * c
    BY <1>1
  <2> QED
    BY <2>1, <2>2
<1> HIDE DEF x, y, P, C
<1>7. D * (amount - (x + y)) = amount * D - D * x - D * y
  BY <1>1, <1>3, <1>4
<1>8. D * x \in Nat /\ D * y \in Nat /\ amount * D \in Nat
  BY <1>1, <1>3, <1>4
<1>9. /\ D * (amount - (x + y)) <= amount * D - P - C
      /\ amount * D - P - C <= D * (amount - (x + y)) + 2 * D - 2
  BY <1>1, <1>2, <1>3, <1>4, <1>7, <1>8
<1>10. x + y \in Nat
  BY <1>3, <1>4
<1> QED
  BY <1>5, <1>6, <1>9, <1>10 DEF D

\* Asking a curve for the tokens a buy gives costs no more than the buy: the fees
\* are at least their share, and both roundings of the price go the asker's way.
LEMMA BuyAgrees ==
    ASSUME Checked, NEW c, NEW amount \in 1 .. U64 - 1, NEW fees \in Rates,
           c.virtual_quote \in 1 .. U64 - 1, c.virtual_token \in 1 .. U64 - 1,
           NEW bought, bought = CalculateBuy(c, amount, fees), bought.outcome = "Ok",
           NEW back, back = CalculateBuyExactOut(c, bought.amount_out, fees),
           back.outcome = "Ok"
    PROVE  back.amount_in <= amount
<1> DEFINE Q == c.virtual_quote
           T == c.virtual_token
           D == FeeDenominator
           A == AfterFees(fees)
           fee == TotalFee(amount, fees)
           net == amount - fee
           out == (T * net) \div (Q + net)
           price == DivCeil(Q * out, T - out)
           gross == GrossUp(price, fees)
<1>1. /\ Q \in Nat \ {0} /\ T \in Nat \ {0} /\ D \in Nat \ {0}
      /\ A \in Nat \ {0} /\ amount \in Nat /\ U64 \in Nat \ {0}
  BY WidthAssumption DEF AfterFees, Rates
<1>2. /\ fee \in Nat /\ D * net <= amount * A
  BY <1>1, TotalFeeFacts
<1>3. ~ (net < 0)
  BY "Panic" # "Ok" DEF CalculateBuy, Refused
<1>4. net \in Nat /\ net \in 0 .. U64 - 1
  BY <1>2, <1>3, WidthAssumption
<1>5. Wide(T * net) = T * net /\ Wide(Q + net) = Q + net
  <2> HIDE DEF net
  <2> QED
    BY <1>4, WideFacts, WidthAssumption
<1>6. bought = Quoted(amount, out, fee, Q + net, Wide(T - out))
  BY <1>3, <1>5 DEF CalculateBuy
<1>7. out \in 0 .. T - 1 /\ out * (Q + net) <= T * net
  <2> HIDE DEF Q, T, net
  <2>1. T * net \in Nat /\ Q + net \in Nat \ {0}
    BY <1>1, <1>4
  <2>2. out \in Nat /\ (Q + net) * out <= T * net
    BY <2>1, DivFacts
  <2>3. (Q + net) * out = out * (Q + net)
    BY <1>1, <1>4, <2>2
  <2>4. out < T
    <3>1. out = (T * net) \div (Q + net)
      OBVIOUS
    <3> HIDE DEF out
    <3>2. out \in 0 .. T - 1
      BY <1>1, <1>4, <3>1, PaidOut
    <3> QED
      BY <1>1, <3>2
  <2> QED
    BY <1>1, <2>2, <2>3, <2>4
<1> HIDE DEF out
<1>8. bought.amount_out = out
  <2>1. out \in 0 .. U64 - 1
    BY <1>1, <1>7
  <2> QED
    BY <1>6, <2>1, NarrowFacts DEF Quoted
<1>9. back = Quoted(gross, out, TotalFee(gross, fees), Q + price, T - out)
  BY <1>1, <1>7, <1>8 DEF CalculateBuyExactOut
<1>10. price \in Nat /\ price <= net
  <2> HIDE DEF Q, T, net
  <2>1. Q * out \in Nat /\ T - out \in Nat \ {0}
    BY <1>1, <1>7
  <2>2. price \in Nat
    BY <2>1, CeilFacts
  <2>3. out \in Nat /\ out < T
    BY <1>1, <1>7
  <2>4. price <= net
    BY <1>1, <1>4, <1>7, <2>3, PriceOfOutput
  <2> QED
    BY <2>2, <2>4
<1> HIDE DEF net, price
<1>11. price * D <= A * amount
  <2>1. price * D <= net * D
    BY <1>1, <1>4, <1>10, TimesMonotone
  <2>2. net * D = D * net /\ amount * A = A * amount
    BY <1>1, <1>4
  <2>3. price * D \in Nat /\ net * D \in Nat /\ A * amount \in Nat
    BY <1>1, <1>4, <1>10
  <2> HIDE DEF D, A
  <2> QED
    BY <1>2, <2>1, <2>2, <2>3
<1>12. gross \in Nat /\ gross <= amount
  <2>1. price * D \in Nat
    BY <1>1, <1>10
  <2>2. gross = DivCeil(price * D, A)
    BY DEF GrossUp
  <2> HIDE DEF gross, D, A
  <2> QED
    BY <1>1, <1>11, <2>1, <2>2, CeilFacts, CeilTight
<1> HIDE DEF gross
<1>13. Narrow(gross) = gross
  BY <1>1, <1>12, NarrowFacts
<1> QED
  BY <1>9, <1>12, <1>13 DEF Quoted

\* Selling the tokens a curve asked for an amount gives the amount but for one
\* unit, and is not refused: the price rounds up, so the curve pays at least what
\* it grossed the amount up to, and each of two fees takes less than one unit
\* more than its share.
LEMMA SellAgrees ==
    ASSUME NEW c, NEW amount \in 1 .. U64 - 1, NEW fees \in Rates,
           c.virtual_quote \in 1 .. U64 - 1, c.virtual_token \in 1 .. U64 - 1,
           NEW asked, asked = CalculateSellExactOut(c, amount, fees), asked.outcome = "Ok",
           asked.amount_in = asked.token - c.virtual_token,
           NEW sold, sold = CalculateSell(c, asked.amount_in, fees)
    PROVE  /\ asked.amount_in > 0
           /\ sold.outcome = "Ok"
           /\ sold.amount_out >= amount - 1
<1> DEFINE Q == c.virtual_quote
           T == c.virtual_token
           D == FeeDenominator
           A == AfterFees(fees)
           gross == GrossUp(amount, fees)
           tokens == DivCeil(T * gross, Q - gross)
           paid == (Q * tokens) \div (T + tokens)
           fee == TotalFee(paid, fees)
           out == paid - fee
<1>1. /\ Q \in Nat \ {0} /\ T \in Nat \ {0} /\ D \in Nat \ {0}
      /\ A \in Nat \ {0} /\ amount \in Nat \ {0} /\ U64 \in Nat \ {0}
      /\ Q < U64
  BY WidthAssumption DEF AfterFees, Rates
<1>2. gross \in Nat \ {0} /\ amount * D <= A * gross
  <2>1. gross \in Nat /\ amount <= gross
    BY <1>1, GrossUpFacts
  <2>2. amount * D \in Nat
    BY <1>1
  <2>3. gross = DivCeil(amount * D, A)
    BY DEF GrossUp
  <2> HIDE DEF gross, A, D
  <2>4. amount * D <= A * gross
    BY <1>1, <2>2, <2>3, CeilFacts
  <2> QED
    BY <1>1, <2>1, <2>4
<1>3. ~ (gross >= Q)
  BY "InsufficientReserves" # "Ok" DEF CalculateSellExactOut, Refused
<1>4. asked = Quoted(tokens, amount, TotalFee(gross, fees), Q - gross, T + tokens)
  BY <1>3 DEF CalculateSellExactOut
<1> HIDE DEF gross
<1>5. tokens \in Nat \ {0} /\ gross <= paid
  <2> DEFINE due == T * gross
             left == Q - gross
  <2>1. tokens = DivCeil(due, left)
    OBVIOUS
  <2>2. gross \in Nat /\ gross < Q /\ gross > 0
    BY <1>1, <1>2, <1>3
  <2> HIDE DEF Q, T, tokens
  <2>3. tokens \in Nat /\ gross <= (Q * tokens) \div (T + tokens) /\ tokens > 0
    <3>1. T \in Nat \ {0} /\ Q \in Nat /\ gross \in Nat /\ gross < Q
      BY <1>1, <2>2
    <3>3. due = T * gross /\ left = Q - gross
      OBVIOUS
    <3> HIDE DEF due, left
    <3>2. /\ tokens \in Nat
          /\ gross <= (Q * tokens) \div (T + tokens)
          /\ gross > 0 => tokens > 0
      BY <2>1, <3>1, <3>3, OutputOfPrice
    <3> QED
      BY <2>2, <3>2
  <2> QED
    BY <2>3
<1>6. paid \in Nat /\ paid <= Q - 1
  <2>1. paid = (Q * tokens) \div (T + tokens) /\ tokens \in Nat
    BY <1>5
  <2> HIDE DEF Q, T, tokens, paid
  <2>2. paid \in 0 .. Q - 1
    BY <1>1, <2>1, PaidOut
  <2> QED
    BY <1>1, <2>2
<1> HIDE DEF tokens, paid
<1>7. asked.amount_in = tokens
  <2>1. asked.token = T + tokens
    BY <1>4 DEF Quoted
  <2> QED
    BY <1>1, <1>5, <2>1
<1>8. sold = IF out < 0 /\ Checked THEN Refused("Panic")
             ELSE Quoted(tokens, out, fee, Q - paid, T + tokens)
  BY <1>7 DEF CalculateSell, paid
<1>9. /\ fee \in Nat /\ paid * A <= D * out + 2 * D - 2
  BY <1>6, TotalFeeFacts
<1>10. out \in Int
  BY <1>6, <1>9
<1>11. out > amount - 2
  <2>1. gross * A <= paid * A
    BY <1>1, <1>2, <1>5, <1>6, TimesMonotone
  <2>2. /\ A * gross = gross * A /\ amount * D = D * amount
        /\ gross * A \in Nat /\ paid * A \in Nat /\ D * amount \in Nat
        /\ D * out \in Int
    BY <1>1, <1>2, <1>6, <1>10
  <2>3. D * (amount - 2) = D * amount - 2 * D
    BY <1>1
  <2>4. D * (amount - 2) < D * out
    <3> HIDE DEF D, A, out
    <3> QED
      BY <1>1, <1>2, <1>9, <2>1, <2>2, <2>3
  <2> QED
    BY <1>1, <1>10, <2>4, FactorDropped
<1> HIDE DEF out
<1>12. out \in 0 .. U64 - 1 /\ ~ (out < 0)
  BY <1>1, <1>6, <1>9, <1>10, <1>11 DEF out
<1>13. sold.outcome = "Ok" /\ sold.amount_out = out
  BY <1>8, <1>12, NarrowFacts DEF Quoted
<1> QED
  BY <1>1, <1>5, <1>7, <1>10, <1>11, <1>13

\* ExactOutAgrees: on any curve, at any tier, the two kinds of quote agree.
THEOREM ExactOutAlwaysAgrees ==
    ASSUME Checked
    PROVE  Spec => []ExactOutAgrees
<1>1. IInv => ExactOutAgrees
  <2> SUFFICES ASSUME IInv, NEW amount \in Amounts
               PROVE  LET bought == Quote("Buy", "ExactIn", amount)
                          back   == Quote("Buy", "ExactOut", bought.amount_out)
                          asked  == Quote("Sell", "ExactOut", amount)
                          sold   == Quote("Sell", "ExactIn", asked.amount_in)
                      IN  /\ bought.outcome = "Ok" /\ back.outcome = "Ok"
                               => back.amount_in <= amount
                          /\ /\ asked.outcome = "Ok"
                             /\ asked.amount_in = asked.token - curve.virtual_token
                             => sold.outcome = "Ok" /\ sold.amount_out >= amount - 1
    BY DEF ExactOutAgrees
  <2> DEFINE fees   == FeesOf(curve)
             bought == Quote("Buy", "ExactIn", amount)
             back   == Quote("Buy", "ExactOut", bought.amount_out)
             asked  == Quote("Sell", "ExactOut", amount)
             sold   == Quote("Sell", "ExactIn", asked.amount_in)
  <2>1. /\ fees \in Rates
        /\ curve.virtual_quote \in 1 .. U64 - 1 /\ curve.virtual_token \in 1 .. U64 - 1
    BY QuotedState
  <2>2. amount \in 0 .. U64 - 1
    BY WidthAssumption
  <2>3. ASSUME NEW direction \in {"Buy", "Sell"}, NEW kind, NEW n,
               Quote(direction, kind, n).outcome = "Ok"
        PROVE  ~ curve.complete /\ n # 0
    BY <2>3, "ZeroAmount" # "Ok", "BondingCurveCompleted" # "Ok"
       DEF Quote, CalculateSwap, Tested, Refused
  <2>4. ASSUME ~ curve.complete, NEW n, n # 0
        PROVE  /\ Quote("Buy", "ExactIn", n) = CalculateBuy(curve, n, fees)
               /\ Quote("Buy", "ExactOut", n) = CalculateBuyExactOut(curve, n, fees)
               /\ Quote("Sell", "ExactIn", n) = CalculateSell(curve, n, fees)
               /\ Quote("Sell", "ExactOut", n) = CalculateSellExactOut(curve, n, fees)
    BY <2>4 DEF Quote, CalculateSwap, Tested
  <2>5. ASSUME bought.outcome = "Ok", back.outcome = "Ok"
        PROVE  back.amount_in <= amount
    <3>1. ~ curve.complete /\ amount # 0 /\ bought.amount_out # 0
      BY <2>3, <2>5
    <3>2. /\ bought = CalculateBuy(curve, amount, fees)
          /\ back = CalculateBuyExactOut(curve, bought.amount_out, fees)
      BY <2>4, <3>1
    <3>3. amount \in 1 .. U64 - 1
      BY <2>2, <3>1
    <3> HIDE DEF bought, back, fees
    <3> QED
      BY <2>1, <2>5, <3>2, <3>3, BuyAgrees
  <2>6. ASSUME asked.outcome = "Ok", asked.amount_in = asked.token - curve.virtual_token
        PROVE  sold.outcome = "Ok" /\ sold.amount_out >= amount - 1
    <3>1. ~ curve.complete /\ amount # 0
      BY <2>3, <2>6
    <3>2. asked = CalculateSellExactOut(curve, amount, fees)
      BY <2>4, <3>1
    <3>3. amount \in 1 .. U64 - 1
      BY <2>2, <3>1
    <3> DEFINE s == CalculateSell(curve, asked.amount_in, fees)
    <3> HIDE DEF asked, fees
    <3>4. asked.amount_in > 0 /\ s.outcome = "Ok" /\ s.amount_out >= amount - 1
      <4> HIDE DEF s
      <4> QED
        BY <2>1, <2>6, <3>2, <3>3, SellAgrees DEF s
    <3>5. sold = s
      BY <2>4, <3>1, <3>4
    <3> QED
      BY <3>4, <3>5
  <2> QED
    BY <2>5, <2>6
<1> QED
  BY AlwaysIInv, <1>1, PTL

\* FeesAreOfTheTier: the rates of a quote are those of the one tier whose range
\* holds the market cap, whatever the schedule.
THEOREM FeesAlwaysOfTheTier ==
    ASSUME Checked
    PROVE  Spec => []FeesAreOfTheTier
<1>1. IInv => FeesAreOfTheTier
  <2> DEFINE cap == MarketCap(curve)
             tiers == fee_tiers
             n == Len(tiers)
  <2> SUFFICES ASSUME IInv, NEW i \in DOMAIN tiers,
                      cap >= (IF i = 1 THEN 0 ELSE tiers[i].threshold),
                      i < n => cap < tiers[i + 1].threshold
               PROVE  FeesOf(curve) = tiers[i].fees
    BY DEF FeesAreOfTheTier
  <2>1. cap \in Nat
    BY MarketCapIsNatural
  <2>2. /\ tiers \in Seq([threshold : Nat, fees : [lp : Nat, protocol : Nat, creator : Nat]])
        /\ Ascending(tiers)
    BY ScheduleAssumption DEF IInv, TypeOK
  <2>3. /\ n \in Nat /\ DOMAIN tiers = 1 .. n
        /\ \A j \in 1 .. n : tiers[j].threshold \in Nat
    <3>1. n \in Nat /\ DOMAIN tiers = 1 .. n
      BY <2>2
    <3>2. \A j \in 1 .. n :
             tiers[j] \in [threshold : Nat, fees : [lp : Nat, protocol : Nat, creator : Nat]]
      BY <2>2, <3>1, ElementOfSeq
    <3> QED
      BY <3>1, <3>2
  <2> DEFINE reached == {j \in DOMAIN tiers : cap >= tiers[j].threshold}
  <2> HIDE DEF cap, tiers, n
  <2>4. tiers # <<>> /\ i \in 1 .. n /\ 1 \in 1 .. n
    BY <2>3 DEF n, tiers
  <2>5. FeesOf(curve) = IF cap < tiers[1].threshold THEN tiers[1].fees
                        ELSE tiers[Max(reached)].fees
    BY <2>4 DEF FeesOf, CalculateFeeTier, cap, tiers
  <2>6. \A j, k \in 1 .. n : j < k => tiers[j].threshold < tiers[k].threshold
    BY <2>2, <2>3 DEF Ascending
  <2>7. CASE cap < tiers[1].threshold
    <3>1. i = 1
      BY <2>1, <2>3, <2>4, <2>6, <2>7
    <3> QED
      BY <2>5, <2>7, <3>1
  <2>8. CASE ~ (cap < tiers[1].threshold)
    <3>1. cap >= tiers[i].threshold
      BY <2>1, <2>3, <2>4, <2>8
    <3>2. ASSUME NEW j \in reached
          PROVE  j <= i
      <4>1. CASE i < j
        <5>1. i + 1 \in 1 .. n /\ i < n
          BY <2>3, <2>4, <4>1
        <5>2. cap < tiers[i + 1].threshold /\ tiers[i + 1].threshold \in Nat
          BY <2>3, <5>1
        <5>3. tiers[i + 1].threshold <= tiers[j].threshold
          <6>1. j \in 1 .. n /\ (j = i + 1 \/ i + 1 < j)
            BY <2>3, <2>4, <4>1
          <6> QED
            BY <2>3, <2>6, <5>1, <6>1
        <5>4. tiers[j].threshold \in Nat /\ cap >= tiers[j].threshold
          BY <2>3
        <5> QED
          BY <2>1, <5>2, <5>3, <5>4
      <4> QED
        BY <2>3, <2>4, <4>1
    <3>3. i \in reached
      BY <2>3, <2>4, <3>1
    <3>4. reached \in SUBSET (1 .. n)
      BY <2>3
    <3> HIDE DEF reached
    <3>5. Max(reached) \in reached /\ i <= Max(reached)
      BY <2>3, <3>3, <3>4, MaxFacts
    <3>6. Max(reached) = i
      <4> DEFINE top == Max(reached)
      <4> HIDE DEF top
      <4>0. top \in reached /\ top \in 1 .. n
        BY <3>4, <3>5 DEF top
      <4>1. top <= i /\ top \in Nat /\ i \in Nat /\ i <= top
        BY <2>3, <2>4, <3>2, <3>5, <4>0 DEF top
      <4> QED
        BY <4>1 DEF top
    <3> QED
      BY <2>5, <2>8, <3>6
  <2> QED
    BY <2>7, <2>8
<1> QED
  BY AlwaysIInv, <1>1, PTL

-----------------------------------------------------------------------------
(* The quotes of a pool: what each adds to the one reserve and takes from  *)
(* the other, in numbers.                                                  *)

\* What a quote must be for the pool not to lose by it, when its program sets
\* `aside` of the fee: the reserves stay positive, their product does not fall,
\* the trader pays what is added and gets no more than is taken.
Sound(q, r, aside) ==
    /\ q.amount_in \in Nat /\ q.amount_out \in Nat /\ q.taken \in 0 .. r.from - 1
    /\ q.added \in aside .. q.amount_in
    /\ q.amount_out <= q.taken
    /\ r.to * r.from <= (r.to + q.added - aside) * (r.from - q.taken)

\* Three fees are a natural number.
LEMMA ThreeFeesNatural ==
    ASSUME NEW amount \in Nat, NEW fees \in Rates
    PROVE  ThreeFees(amount, fees) \in Nat
<1>1. fees.lp \in Nat
  BY DEF Rates
<1>2. amount * fees.lp \in Nat
  BY <1>1
<1>3. FeeOn(amount, fees.lp) \in Nat
  BY <1>2, CeilFacts, WidthAssumption DEF FeeOn
<1> QED
  BY <1>3, FeeIsNatural DEF ThreeFees

\* The amount before fees is grossed up as on a curve, where the three rates
\* are counted as two.
LEMMA BeforeFeesFacts ==
    ASSUME NEW amount \in Nat, NEW fees \in Rates
    PROVE  BeforeFees(amount, fees) \in Nat /\ amount <= BeforeFees(amount, fees)
<1> DEFINE two == [lp |-> 0, protocol |-> fees.protocol + fees.lp, creator |-> fees.creator]
<1>1. fees.lp \in Nat /\ fees.protocol \in Nat /\ fees.creator \in Nat
      /\ fees.lp + fees.protocol + fees.creator < FeeDenominator
  BY DEF Rates
<1>2. two \in Rates
  BY <1>1 DEF Rates
<1>3. AfterFees(two) = FeeDenominator - TotalBps(fees)
  BY <1>1, WidthAssumption DEF AfterFees, TotalBps
<1>4. BeforeFees(amount, fees) = GrossUp(amount, two)
  BY <1>3 DEF BeforeFees, GrossUp
<1> HIDE DEF two
<1> QED
  BY <1>2, <1>4, GrossUpFacts

\* PumpSwap, exact in: the whole amount goes in, and the fees come out of what
\* leaves the other reserve.
LEMMA PumpSwapExactInSound ==
    ASSUME NEW r, r.to \in Nat \ {0}, r.from \in Nat \ {0}, NEW amount \in Nat,
           NEW fees \in Rates,
           NEW q, q = PumpSwapExactIn(r, amount, fees), q.outcome = "Ok"
    PROVE  Sound(q, r, 0)
<1> DEFINE to == r.to
           from == r.from
           gross == (from * amount) \div (to + amount)
           fee == ThreeFees(gross, fees)
<1>1. gross \in 0 .. from - 1 /\ to * from <= (to + amount) * (from - gross)
  <2>1. to \in Nat \ {0} /\ from \in Nat \ {0}
    OBVIOUS
  <2> HIDE DEF to, from
  <2> QED
    BY <2>1, PaidOut
<1>2. ~ (fee > gross)
  BY "FeesExceedOutput" # "Ok" DEF PumpSwapExactIn, Refused
<1>3. q = Priced(amount, gross - fee, fee, amount, gross)
  BY <1>2 DEF PumpSwapExactIn
<1> HIDE DEF gross
<1>4. fee \in Nat
  BY <1>1, ThreeFeesNatural
<1> HIDE DEF fee
<1>5. /\ q.amount_in = amount /\ q.amount_out = gross - fee
      /\ q.added = amount /\ q.taken = gross
  BY <1>3 DEF Priced
<1>6. to + amount - 0 = to + amount
  OBVIOUS
<1> QED
  BY <1>1, <1>2, <1>4, <1>5, <1>6 DEF Sound

\* PumpSwap, exact out, at a price that is not truncated.
LEMMA PumpSwapExactOutSound ==
    ASSUME NEW r, r.to \in Nat \ {0}, r.from \in Nat \ {0}, NEW amount \in Nat,
           NEW fees \in Rates,
           NEW q, q = PumpSwapExactOut(r, amount, fees), q.added <= q.amount_in
    PROVE  Sound(q, r, 0)
<1> DEFINE to == r.to
           from == r.from
           gross == BeforeFees(amount, fees)
           price == PriceOf(r, gross)
<1>1. gross \in Nat /\ amount <= gross
  BY BeforeFeesFacts
<1> HIDE DEF gross
<1>2. CASE gross >= from
  <2>1. q = Priced(0, 0, 0, 0, 0)
    BY <1>2 DEF PumpSwapExactOut, gross
  <2>2. q.amount_in = 0 /\ q.amount_out = 0 /\ q.added = 0 /\ q.taken = 0
    BY <2>1 DEF Priced
  <2>3. to + 0 - 0 = to /\ from - 0 = from
    OBVIOUS
  <2> QED
    BY <2>2, <2>3 DEF Sound
<1>3. CASE ~ (gross >= from)
  <2> DEFINE left == from - gross
  <2>1. left \in Nat \ {0} /\ from = left + gross
    BY <1>1, <1>3
  <2>2. price = DivCeil(to * gross, left)
    BY DEF PriceOf
  <2> HIDE DEF left, price
  <2>3. price \in Nat /\ to * (left + gross) <= (to + price) * left
    <3>1. to \in Nat
      OBVIOUS
    <3> HIDE DEF to, from
    <3> QED
      BY <1>1, <2>1, <2>2, <3>1, PaidIn
  <2>4. q = Priced(Narrow(price), amount, ThreeFees(gross, fees), price, gross)
    BY <1>3 DEF PumpSwapExactOut, gross, price
  <2>5. /\ q.amount_in = Narrow(price) /\ q.amount_out = amount
        /\ q.added = price /\ q.taken = gross
    BY <2>4 DEF Priced
  <2>6. Narrow(price) \in Nat
    BY <2>3, WidthAssumption DEF Narrow
  <2>7. to + price - 0 = to + price
    BY <2>3
  <2> QED
    BY <1>1, <2>1, <2>3, <2>5, <2>6, <2>7 DEF Sound, left
<1> QED
  BY <1>1, <1>2, <1>3

\* A fee from the input never exceeds it.
LEMMA FeeFromInputFacts ==
    ASSUME NEW amount \in Nat, NEW rate \in TradeFeeRates
    PROVE  FeeFromInput(amount, rate) \in 0 .. amount
<1> DEFINE P == amount * rate
           fee == P \div RateDenominator
           D == RateDenominator
<1>1. D \in Nat \ {0} /\ rate \in Nat /\ rate <= D
  BY PoolAssumption
<1>2. P \in Nat
  BY <1>1
<1>3. fee \in Nat /\ D * fee <= P
  BY <1>1, <1>2, DivFacts
<1>4. P <= D * amount
  <2>1. rate * amount <= D * amount
    BY <1>1, TimesMonotone
  <2> QED
    BY <1>1, <2>1
<1>5. CASE amount < fee
  <2> HIDE DEF P, fee
  <2>1. (amount + 1) * D <= fee * D
    BY <1>1, <1>3, <1>5, TimesMonotone
  <2>2. (amount + 1) * D = D * amount + D /\ fee * D = D * fee
    BY <1>1, <1>3
  <2>3. D * amount \in Nat /\ D * fee \in Nat
    BY <1>1, <1>3
  <2> QED
    BY <1>1, <1>2, <1>3, <1>4, <2>1, <2>2, <2>3
<1> QED
  BY <1>3, <1>5 DEF FeeFromInput

\* A reserve that keeps more than the formula asks loses nothing by it.
LEMMA MoreKept ==
    ASSUME NEW to \in Nat, NEW net \in Nat, NEW kept \in Nat, net <= kept,
           NEW left \in Nat, NEW K \in Nat, K <= (to + net) * left
    PROVE  K <= (to + kept) * left
<1>1. (to + net) * left <= (to + kept) * left
  BY TimesMonotone
<1> QED
  BY <1>1

\* Raydium: the fee stays in the pool, or some of it is set aside.
LEMMA RaydiumSound ==
    ASSUME NEW r, r.to \in Nat \ {0}, r.from \in Nat \ {0}, NEW amount \in Nat,
           NEW rate \in TradeFeeRates,
           NEW q, q = RaydiumV4Swap(r, amount, rate),
           NEW aside \in 0 .. q.fee
    PROVE  Sound(q, r, aside)
<1> DEFINE to == r.to
           from == r.from
           fee == FeeFromInput(amount, rate)
           net == amount - fee
           out == (from * net) \div (to + net)
<1>1. fee \in 0 .. amount
  BY FeeFromInputFacts
<1> HIDE DEF fee
<1>2. net \in Nat /\ ~ (to + net = 0)
  BY <1>1
<1>3. q = Priced(amount, out, fee, amount, out)
  BY <1>2 DEF RaydiumV4Swap, OutputOf, fee
<1>4. /\ q.amount_in = amount /\ q.amount_out = out /\ q.fee = fee
      /\ q.added = amount /\ q.taken = out
  BY <1>3 DEF Priced
<1>5. out \in 0 .. from - 1 /\ to * from <= (to + net) * (from - out)
  <2>1. to \in Nat \ {0} /\ from \in Nat \ {0}
    OBVIOUS
  <2> HIDE DEF to, from, net
  <2> QED
    BY <1>2, <2>1, PaidOut
<1>6. aside \in Nat /\ aside <= fee /\ amount - aside \in Nat /\ net <= amount - aside
  BY <1>1, <1>4
<1>7. to * from \in Nat /\ from - out \in Nat /\ to \in Nat
  BY <1>5
<1> HIDE DEF to, from, net, out
<1>8. to * from <= (to + (amount - aside)) * (from - out)
  BY <1>2, <1>5, <1>6, <1>7, MoreKept
<1>9. to + (amount - aside) = to + amount - aside
  BY <1>6, <1>7
<1> QED
  BY <1>1, <1>4, <1>5, <1>6, <1>8, <1>9 DEF Sound, to, from

\* DBC: the fee leaves the pool, or is lost to an overflow; the sum does not
\* saturate, for there is less of either side than a u64 holds.
LEMMA DbcSound ==
    ASSUME NEW r, r.to \in Nat \ {0}, r.from \in Nat \ {0}, NEW amount \in Nat,
           r.to + amount < U64, NEW rate \in TradeFeeRates,
           NEW q, q = DbcSwap(r, amount, rate)
    PROVE  Sound(q, r, 0)
<1> DEFINE to == r.to
           from == r.from
           fee == DbcFee(amount, rate)
           net == amount - fee
           out == (from * net) \div (to + net)
<1>1. fee \in 0 .. amount
  BY FeeFromInputFacts DEF DbcFee
<1> HIDE DEF fee
<1>2. net \in 0 .. amount
  BY <1>1
<1> HIDE DEF net
<1>3. Min({to + net, U64 - 1}) = to + net
  <2>1. /\ to + net \in Nat /\ U64 - 1 \in Nat /\ to + net <= U64 - 1
    BY <1>2, WidthAssumption
  <2>2. {to + net, U64 - 1} \in SUBSET Nat
    BY <2>1
  <2> QED
    BY <2>1, <2>2, MinIs
<1>4. to + net # 0 /\ to + net - to = net
  BY <1>2
<1>5. q = Priced(amount, out, fee, net, out)
  <2> DEFINE sum == Min({to + net, U64 - 1})
  <2>1. q = IF sum = 0 THEN Priced(amount, 0, fee, net, 0)
            ELSE Priced(amount, (from * net) \div sum, fee, sum - to, (from * net) \div sum)
    BY DEF DbcSwap, fee, net
  <2> HIDE DEF sum
  <2>2. sum = to + net
    BY <1>3 DEF sum
  <2>3. sum # 0 /\ sum - to = net
    BY <1>2, <2>2
  <2>4. out = (from * net) \div sum
    BY <2>2, Zenon
  <2> HIDE DEF to, from, out
  <2> QED
    BY <2>1, <2>3, <2>4, Zenon
<1>6. /\ q.amount_in = amount /\ q.amount_out = out /\ q.added = net /\ q.taken = out
  BY <1>5 DEF Priced
<1>7. out \in 0 .. from - 1 /\ to * from <= (to + net) * (from - out)
  <2>1. to \in Nat \ {0} /\ from \in Nat \ {0} /\ net \in Nat
    BY <1>2
  <2> HIDE DEF to, from
  <2> QED
    BY <2>1, PaidOut
<1>8. to + net - 0 = to + net
  BY <1>2
<1> QED
  BY <1>2, <1>6, <1>7, <1>8 DEF Sound
-----------------------------------------------------------------------------
(* The trading of a pool. *)

\* The types, what a pool is and may be quoted at.
PoolTyped ==
    /\ terms \in Terms
    /\ fee_tiers \in Schedules
    /\ vault \in [Sides -> Nat]
    /\ owed \in [Sides -> Nat]
    /\ traders \in [Sides -> Nat]

\* The reserves are positive, with the traders' holdings they are no more than
\* there was at first, and their product is at least the first.
PoolKept ==
    /\ \A s \in Sides : /\ Reserves[s] \in Nat \ {0}
                        /\ traders[s] + Reserves[s] <= StartVault[s] + StartTraders[s]
    /\ StartVault["quote"] * StartVault["base"] <= Reserves["quote"] * Reserves["base"]

\* Inductive: the sum keeps amounts and reserves within a u64, positive reserves
\* keep the formula defined, and the sum and the product together are what the
\* traders cannot beat.
PoolInv == PoolTyped /\ PoolKept

\* A DBC quote is of the amount asked.
LEMMA DbcAsksAmount ==
    ASSUME NEW r, NEW amount, NEW rate
    PROVE  DbcSwap(r, amount, rate).amount_in = amount
<1>1. \A out, fee, added, taken : Priced(amount, out, fee, added, taken).amount_in = amount
  BY DEF Priced
<1> QED
  BY <1>1 DEF DbcSwap

\* The rates a PumpSwap pool selects are rates.
LEMMA SelectedRates ==
    ASSUME fee_tiers \in Schedules, NEW has_creator, NEW key \in Nat
    PROVE  SelectFees(has_creator, key) \in Rates
<1>1. CalculateFeeTier(fee_tiers, key) \in Rates
  BY TierIsOfSchedule, TariffIsRates
<1> QED
  BY <1>1, PoolAssumption DEF SelectFees

\* What may be set aside of a quote's fee.
Aside(q) == IF terms.venue = "raydium_cpmm" THEN 0 .. q.fee ELSE {0}

\* Every quote that can be traded at is sound, whatever the venue.
LEMMA QuoteSound ==
    ASSUME PoolInv, NEW direction \in {"Buy", "Sell"}, NEW kind \in {"ExactIn", "ExactOut"},
           NEW amount \in Amounts,
           NEW q, q = PoolSwap(direction, kind, amount), q.outcome = "Ok",
           amount = (IF kind = "ExactIn" THEN q.amount_in ELSE q.amount_out),
           q.amount_in \in q.added .. traders[SideIn(direction)],
           NEW aside \in Aside(q)
    PROVE  Sound(q, SwapSides(direction), aside)
<1> DEFINE r == SwapSides(direction)
           in == SideIn(direction)
           out == SideOut(direction)
<1>1. in \in Sides /\ out \in Sides /\ r.to = Reserves[in] /\ r.from = Reserves[out]
  BY DEF SideIn, SideOut, Sides, SwapSides
<1>2. r.to \in Nat \ {0} /\ r.from \in Nat \ {0}
  BY <1>1 DEF PoolInv, PoolKept
<1>3. amount \in Nat
  <2>1. amount \in 0 .. U64 - 1
    BY WidthAssumption
  <2> QED
    BY <2>1
<1>4. terms \in Terms
  BY DEF PoolInv, PoolTyped
<1>5. CASE terms.venue = "pumpswap"
  <2> DEFINE fees == SelectFees(terms.has_creator, Reserves["quote"])
  <2>1. fees \in Rates
    BY SelectedRates DEF PoolInv, PoolTyped, PoolKept, Sides
  <2>2. aside = 0
    BY <1>5 DEF Aside
  <2>3. ~ \E s \in Sides : Reserves[s] = 0
    BY DEF PoolInv, PoolKept
  <2>4. q = PumpSwapSwap(direction, kind, amount)
    BY <1>5 DEF PoolSwap
  <2>5. q = IF kind = "ExactIn" THEN PumpSwapExactIn(r, amount, fees)
            ELSE PumpSwapExactOut(r, amount, fees)
    BY <2>3, <2>4 DEF PumpSwapSwap
  <2> HIDE DEF fees, r
  <2>6. CASE kind = "ExactIn"
    <3>1. q = PumpSwapExactIn(r, amount, fees)
      BY <2>5, <2>6
    <3> QED
      BY <1>2, <1>3, <2>1, <2>2, <3>1, PumpSwapExactInSound DEF r
  <2>7. CASE kind = "ExactOut"
    <3>1. q = PumpSwapExactOut(r, amount, fees)
      BY <2>5, <2>7
    <3>2. q.added <= q.amount_in
      OBVIOUS
    <3> QED
      BY <1>2, <1>3, <2>1, <2>2, <3>1, <3>2, PumpSwapExactOutSound DEF r
  <2> QED
    BY <2>6, <2>7
<1>6. CASE terms.venue # "pumpswap"
  <2>1. terms.rate \in TradeFeeRates /\ terms.venue \in Venues
    BY <1>4, <1>6 DEF Terms
  <2>2. CASE terms.venue \in {"raydium_v4", "raydium_cpmm", "raydium_launchpad"}
    <3>1. q = RaydiumV4Swap(r, amount, terms.rate)
      BY <2>2, "VaultLessThanFees" # "Ok"
         DEF PoolSwap, CpmmSwap, LaunchpadSwap, Refused
    <3>2. q.fee \in Nat
      <4>1. FeeFromInput(amount, terms.rate) \in 0 .. amount
        BY <1>3, <2>1, FeeFromInputFacts
      <4>2. q.fee = FeeFromInput(amount, terms.rate)
        BY <3>1, "InsufficientReserves" # "Ok" DEF RaydiumV4Swap, Priced, Refused
      <4> QED
        BY <4>1, <4>2
    <3>3. aside \in 0 .. q.fee
      BY <3>2 DEF Aside
    <3> HIDE DEF r
    <3> QED
      BY <1>2, <1>3, <2>1, <3>1, <3>3, RaydiumSound DEF r
  <2>3. CASE terms.venue = "meteora_dbc"
    <3>1. q = DbcSwap(r, amount, terms.rate)
      BY <2>3 DEF PoolSwap
    <3>2. aside = 0
      BY <2>3 DEF Aside
    <3>3. amount <= traders[in]
      <4>1. q.amount_in = amount
        BY <3>1, DbcAsksAmount
      <4>2. traders[in] \in Nat
        BY <1>1 DEF PoolInv, PoolTyped
      <4> QED
        BY <1>3, <4>1, <4>2
    <3>4. r.to + amount < U64
      <4>1. traders[in] \in Nat /\ Reserves[in] \in Nat
            /\ traders[in] + Reserves[in] <= StartVault[in] + StartTraders[in]
        BY <1>1 DEF PoolInv, PoolTyped, PoolKept
      <4>2. StartVault[in] + StartTraders[in] < U64 /\ StartVault[in] \in Nat
            /\ StartTraders[in] \in Nat
        BY <1>1, PoolAssumption
      <4> QED
        BY <1>1, <1>3, <3>3, <4>1, <4>2, WidthAssumption
    <3> HIDE DEF r
    <3> QED
      BY <1>2, <1>3, <2>1, <3>1, <3>2, <3>4, DbcSound DEF r
  <2> QED
    BY <1>6, <2>1, <2>2, <2>3 DEF Venues
<1> QED
  BY <1>5, <1>6

\* The state a trade starts from and ends in, side by side.
LEMMA TradeKeeps ==
    ASSUME PoolInv, NEW direction \in {"Buy", "Sell"}, NEW kind \in {"ExactIn", "ExactOut"},
           NEW amount \in Amounts, Trade(direction, kind, amount)
    PROVE  PoolInv'
<1> DEFINE q == PoolSwap(direction, kind, amount)
           in == SideIn(direction)
           out == SideOut(direction)
           r == SwapSides(direction)
<1>1. /\ q.outcome = "Ok"
      /\ amount = (IF kind = "ExactIn" THEN q.amount_in ELSE q.amount_out)
      /\ q.amount_in \in q.added .. traders[in]
      /\ vault' = [vault EXCEPT ![in] = @ + q.added, ![out] = @ - q.taken]
      /\ traders' = [traders EXCEPT ![in] = @ - q.amount_in, ![out] = @ + q.amount_out]
      /\ terms' = terms /\ fee_tiers' = fee_tiers
  BY DEF Trade
<1>2. PICK aside \in Aside(q) : owed' = [owed EXCEPT ![in] = @ + aside]
  BY DEF Trade, Aside
<1> HIDE DEF q
<1>3. Sound(q, r, aside)
  BY <1>1, <1>2, QuoteSound DEF q
<1>4. /\ in \in Sides /\ out \in Sides /\ in # out /\ Sides = {in, out}
      /\ r.to = Reserves[in] /\ r.from = Reserves[out]
  BY DEF SideIn, SideOut, Sides, SwapSides
<1>5. \A s \in Sides : Reserves[s] = vault[s] - owed[s] /\ Reserves'[s] = vault'[s] - owed'[s]
  BY DEF Reserves
<1>6. /\ vault \in [Sides -> Nat] /\ owed \in [Sides -> Nat] /\ traders \in [Sides -> Nat]
      /\ terms \in Terms /\ fee_tiers \in Schedules
  BY DEF PoolInv, PoolTyped
<1>7. /\ \A s \in Sides : /\ Reserves[s] \in Nat \ {0}
                          /\ traders[s] + Reserves[s] <= StartVault[s] + StartTraders[s]
      /\ StartVault["quote"] * StartVault["base"] <= Reserves["quote"] * Reserves["base"]
  BY DEF PoolInv, PoolKept
<1>8. /\ vault'[in] = vault[in] + q.added /\ vault'[out] = vault[out] - q.taken
      /\ owed'[in] = owed[in] + aside /\ owed'[out] = owed[out]
      /\ traders'[in] = traders[in] - q.amount_in
      /\ traders'[out] = traders[out] + q.amount_out
  BY <1>1, <1>2, <1>4, <1>6
<1> HIDE DEF in, out, r
<1>9. /\ q.amount_in \in Nat /\ q.amount_out \in Nat /\ q.taken \in 0 .. Reserves[out] - 1
      /\ aside \in Nat /\ q.added \in Nat /\ aside <= q.added /\ q.added <= q.amount_in
      /\ q.amount_in <= traders[in] /\ q.amount_out <= q.taken
      /\ Reserves[in] * Reserves[out]
            <= (Reserves[in] + q.added - aside) * (Reserves[out] - q.taken)
  <2>1. aside \in Nat
    BY <1>2, <1>3 DEF Sound, Aside
  <2>2. traders[in] \in Nat
    BY <1>4, <1>6
  <2>3. q.added \in Nat
    BY <1>3, <2>1 DEF Sound
  <2> QED
    BY <1>1, <1>3, <1>4, <2>1, <2>2, <2>3 DEF Sound
<1>10. /\ Reserves'[in] = Reserves[in] + q.added - aside
       /\ Reserves'[out] = Reserves[out] - q.taken
  BY <1>4, <1>5, <1>6, <1>7, <1>8, <1>9
<1>11. /\ vault'[in] \in Nat /\ vault'[out] \in Nat /\ owed'[in] \in Nat /\ owed'[out] \in Nat
       /\ traders'[in] \in Nat /\ traders'[out] \in Nat
       /\ Reserves'[in] \in Nat \ {0} /\ Reserves'[out] \in Nat \ {0}
       /\ traders'[in] + Reserves'[in] <= StartVault[in] + StartTraders[in]
       /\ traders'[out] + Reserves'[out] <= StartVault[out] + StartTraders[out]
  <2>1. /\ vault[in] \in Nat /\ vault[out] \in Nat /\ owed[in] \in Nat /\ owed[out] \in Nat
        /\ traders[in] \in Nat /\ traders[out] \in Nat
    BY <1>4, <1>6
  <2>2. /\ StartVault[in] \in Nat /\ StartTraders[in] \in Nat
        /\ StartVault[out] \in Nat /\ StartTraders[out] \in Nat
    BY <1>4, PoolAssumption
  <2>3. /\ Reserves[in] \in Nat \ {0} /\ Reserves[out] \in Nat \ {0}
        /\ Reserves[out] = vault[out] - owed[out]
        /\ traders[in] + Reserves[in] <= StartVault[in] + StartTraders[in]
        /\ traders[out] + Reserves[out] <= StartVault[out] + StartTraders[out]
    BY <1>4, <1>5, <1>7
  <2> QED
    BY <1>8, <1>9, <1>10, <2>1, <2>2, <2>3
<1>12. StartVault["quote"] * StartVault["base"] <= Reserves'["quote"] * Reserves'["base"]
  <2> DEFINE K0 == StartVault["quote"] * StartVault["base"]
             K1 == Reserves[in] * Reserves[out]
             K2 == Reserves'[in] * Reserves'[out]
  <2>1. K1 = Reserves["quote"] * Reserves["base"] /\ K2 = Reserves'["quote"] * Reserves'["base"]
    <3>1. Reserves[in] \in Nat /\ Reserves[out] \in Nat
      BY <1>4, <1>7
    <3>2. \/ in = "quote" /\ out = "base"
          \/ in = "base" /\ out = "quote"
      BY DEF in, out, SideIn, SideOut
    <3> QED
      BY <1>11, <3>1, <3>2
  <2>2. K0 \in Nat /\ K1 \in Nat /\ K2 \in Nat
    BY <1>4, <1>7, <1>11, PoolAssumption DEF Sides
  <2>3. K0 <= K1 /\ K1 <= K2
    BY <1>7, <1>9, <1>10, <2>1
  <2> HIDE DEF K0, K1, K2
  <2>4. K0 <= K2
    BY <2>2, <2>3
  <2> QED
    BY <2>1, <2>4 DEF K0
<1>13. PoolTyped'
  <2>1. /\ vault' = [s \in Sides |-> vault'[s]] /\ owed' = [s \in Sides |-> owed'[s]]
        /\ traders' = [s \in Sides |-> traders'[s]]
    BY <1>1, <1>2, <1>6
  <2>2. \A s \in Sides : vault'[s] \in Nat /\ owed'[s] \in Nat /\ traders'[s] \in Nat
    BY <1>4, <1>11
  <2> QED
    BY <1>1, <1>6, <2>1, <2>2 DEF PoolTyped
<1>14. PoolKept'
  BY <1>4, <1>11, <1>12 DEF PoolKept
<1> QED
  BY <1>13, <1>14 DEF PoolInv

\* Collecting what is owed leaves the reserves as they are.
LEMMA CollectKeeps ==
    ASSUME PoolInv, CollectFees
    PROVE  PoolInv'
<1>1. /\ vault' = Reserves /\ owed' = [s \in Sides |-> 0]
      /\ terms' = terms /\ traders' = traders /\ fee_tiers' = fee_tiers
  BY DEF CollectFees
<1>2. \A s \in Sides : Reserves[s] \in Nat
  BY DEF PoolInv, PoolKept
<1>3. Reserves \in [Sides -> Nat]
  BY <1>2 DEF Reserves
<1>4. Reserves' = Reserves
  BY <1>1, <1>3 DEF Reserves
<1> QED
  BY <1>1, <1>3, <1>4 DEF PoolInv, PoolTyped, PoolKept

\* A new pool satisfies the invariant.
LEMMA PoolInitInv == fee_tiers \in Schedules /\ PoolInit => PoolInv
<1> SUFFICES ASSUME fee_tiers \in Schedules, PoolInit PROVE PoolInv
  OBVIOUS
<1>1. /\ terms \in Terms /\ vault = StartVault /\ owed = [s \in Sides |-> 0]
      /\ traders = StartTraders
  BY DEF PoolInit
<1>2. /\ StartVault \in [Sides -> Nat \ {0}] /\ StartTraders \in [Sides -> Nat]
  BY PoolAssumption
<1>3. \A s \in Sides : Reserves[s] = StartVault[s]
  BY <1>1, <1>2 DEF Reserves
<1>4. StartVault["quote"] * StartVault["base"] \in Nat
  BY <1>2 DEF Sides
<1>5. PoolTyped
  BY <1>1, <1>2 DEF PoolTyped
<1>6. PoolKept
  <2>1. \A s \in Sides : /\ Reserves[s] \in Nat \ {0}
                         /\ traders[s] + Reserves[s] <= StartVault[s] + StartTraders[s]
    BY <1>1, <1>2, <1>3
  <2>2. Reserves["quote"] = StartVault["quote"] /\ Reserves["base"] = StartVault["base"]
    BY <1>3 DEF Sides
  <2> QED
    BY <1>4, <2>1, <2>2 DEF PoolKept
<1> QED
  BY <1>5, <1>6 DEF PoolInv

\* Every step keeps the invariant.
LEMMA PoolNextInv == PoolInv /\ [PoolNext]_poolVars => PoolInv'
<1> SUFFICES ASSUME PoolInv, [PoolNext]_poolVars PROVE PoolInv'
  OBVIOUS
<1>1. CASE \E direction \in {"Buy", "Sell"}, kind \in {"ExactIn", "ExactOut"}, amount \in Amounts :
              Trade(direction, kind, amount)
  BY <1>1, TradeKeeps
<1>2. CASE CollectFees
  BY <1>2, CollectKeeps
<1>3. CASE PoolReschedule
  <2>1. /\ fee_tiers' \in Schedules
        /\ terms' = terms /\ vault' = vault /\ owed' = owed /\ traders' = traders
    BY <1>3 DEF PoolReschedule
  <2> QED
    BY <2>1 DEF PoolInv, PoolTyped, PoolKept, Reserves
<1>4. CASE UNCHANGED poolVars
  BY <1>4 DEF poolVars, PoolInv, PoolTyped, PoolKept, Reserves
<1> QED
  BY <1>1, <1>2, <1>3, <1>4 DEF PoolNext

\* Two factors that are no larger and whose product is no smaller are the same.
LEMMA SameFactors ==
    ASSUME NEW a \in Nat \ {0}, NEW b \in Nat \ {0}, NEW x \in Nat, NEW y \in Nat,
           x <= a, y <= b, a * b <= x * y
    PROVE  x = a /\ y = b
<1> DEFINE ab == a * b
           ay == a * y
           xy == x * y
           xb == x * b
<1>1. ab \in Nat /\ ay \in Nat /\ xy \in Nat /\ xb \in Nat
  OBVIOUS
<1>2. xy <= ay /\ ay <= ab /\ xy <= xb /\ xb <= ab
  <2>1. x * y <= a * y /\ y * a <= b * a /\ y * x <= b * x /\ x * b <= a * b
    BY TimesMonotone
  <2>2. y * a = a * y /\ b * a = a * b /\ y * x = x * y /\ b * x = x * b
    OBVIOUS
  <2> QED
    BY <2>1, <2>2
<1>3. ay = ab /\ xb = ab
  <2>1. ab <= xy
    OBVIOUS
  <2> HIDE DEF ab, ay, xy, xb
  <2> QED
    BY <1>1, <1>2, <2>1
<1>4. CASE y < b
  <2>1. (y + 1) * a <= b * a
    BY <1>4, TimesMonotone
  <2>2. (y + 1) * a = ay + a /\ b * a = ab
    OBVIOUS
  <2> HIDE DEF ab, ay, xy, xb
  <2> QED
    BY <1>1, <1>3, <2>1, <2>2
<1>5. CASE x < a
  <2>1. (x + 1) * b <= a * b
    BY <1>5, TimesMonotone
  <2>2. (x + 1) * b = xb + b
    OBVIOUS
  <2> HIDE DEF ay, xy, xb
  <2> QED
    BY <1>1, <1>3, <2>1, <2>2
<1> QED
  BY <1>4, <1>5

\* The invariant is what the traders cannot beat.
LEMMA InvBeatsTraders == PoolInv => TradersNeverProfit
<1> SUFFICES ASSUME PoolInv, \A s \in Sides : traders[s] >= StartTraders[s]
             PROVE  traders = StartTraders
  BY DEF TradersNeverProfit
<1>1. /\ traders \in [Sides -> Nat] /\ StartTraders \in [Sides -> Nat]
      /\ StartVault \in [Sides -> Nat \ {0}]
  BY PoolAssumption DEF PoolInv, PoolTyped
<1>2. \A s \in Sides : /\ Reserves[s] \in Nat \ {0} /\ Reserves[s] <= StartVault[s]
                       /\ Reserves[s] = StartVault[s] => traders[s] = StartTraders[s]
  <2> SUFFICES ASSUME NEW s \in Sides
               PROVE  /\ Reserves[s] \in Nat \ {0} /\ Reserves[s] <= StartVault[s]
                      /\ Reserves[s] = StartVault[s] => traders[s] = StartTraders[s]
    OBVIOUS
  <2>1. /\ Reserves[s] \in Nat \ {0}
        /\ traders[s] + Reserves[s] <= StartVault[s] + StartTraders[s]
    BY DEF PoolInv, PoolKept
  <2>2. traders[s] \in Nat /\ StartTraders[s] \in Nat /\ StartVault[s] \in Nat
    BY <1>1
  <2>3. traders[s] >= StartTraders[s]
    OBVIOUS
  <2> QED
    BY <2>1, <2>2, <2>3
<1>3. Reserves["quote"] = StartVault["quote"] /\ Reserves["base"] = StartVault["base"]
  <2>1. StartVault["quote"] * StartVault["base"] <= Reserves["quote"] * Reserves["base"]
    BY DEF PoolInv, PoolKept
  <2>2. "quote" \in Sides /\ "base" \in Sides
    BY DEF Sides
  <2> QED
    BY <1>1, <1>2, <2>1, <2>2, SameFactors
<1>4. \A s \in Sides : traders[s] = StartTraders[s]
  BY <1>2, <1>3 DEF Sides
<1> QED
  BY <1>1, <1>4

\* TradersNeverProfit, of every venue, fee, schedule, width and starting point:
\* no sequence of quoted trades leaves a pool's traders with more of one side and
\* no less of the other.
THEOREM NoPoolIsBeaten ==
    PoolSpec => []TradersNeverProfit
<1>1. PoolSpec => []PoolInv
  BY PoolInitInv, PoolNextInv, PTL DEF PoolSpec
<1> QED
  BY <1>1, InvBeatsTraders, PTL

-----------------------------------------------------------------------------
(* The two kinds of PumpSwap quote. *)

\* Three fees, each rounded up, come to at least their share of the amount and to
\* less than three units more.
LEMMA ThreeFeesFacts ==
    ASSUME NEW amount \in Nat, NEW fees \in Rates
    PROVE  LET left == FeeDenominator - TotalBps(fees)
           IN  /\ left \in Nat \ {0}
               /\ FeeDenominator * (amount - ThreeFees(amount, fees)) <= amount * left
               /\ amount * left
                    <= FeeDenominator * (amount - ThreeFees(amount, fees)) + 3 * FeeDenominator - 3
<1> DEFINE D == FeeDenominator
           A == AfterFees(fees)
           l == fees.lp
           L == amount * l
           x == TotalFee(amount, fees)
           z == FeeOn(amount, l)
           n == amount - x
<1>1. D \in Nat \ {0} /\ l \in Nat
  BY WidthAssumption DEF Rates
<1>2. L \in Nat
  BY <1>1
<1>3. x \in Nat /\ D * n <= amount * A /\ amount * A <= D * n + 2 * D - 2
  BY TotalFeeFacts
<1> HIDE DEF D, l
<1>4. z \in Nat /\ L <= D * z /\ D * z <= L + D - 1
  BY <1>1, <1>2, CeilFacts, CeilTight DEF FeeOn, D
<1>5. ThreeFees(amount, fees) = x + z
  BY DEF ThreeFees, l
<1>6. A \in Nat /\ D - TotalBps(fees) = A - l /\ A - l \in Nat \ {0}
  BY WidthAssumption DEF AfterFees, TotalBps, Rates, D, l
<1>7. amount * (A - l) = amount * A - L
  BY <1>1, <1>6
<1> HIDE DEF L, x, z, A
<1>8. D * (amount - (x + z)) = D * n - D * z
  BY <1>1, <1>3, <1>4
<1>9. n \in Int
  BY <1>3
<1>10. D * n \in Int /\ D * z \in Nat /\ amount * A \in Nat
  BY <1>1, <1>4, <1>6, <1>9
<1> HIDE DEF n
<1>11. /\ D * (amount - (x + z)) <= amount * (A - l)
       /\ amount * (A - l) <= D * (amount - (x + z)) + 3 * D - 3
  BY <1>1, <1>2, <1>3, <1>4, <1>7, <1>8, <1>10
<1> QED
  BY <1>5, <1>6, <1>11 DEF D

\* Asking PumpSwap for what an amount gives costs no more than the amount: the
\* fees are at least their share, so no more need leave the reserve than did.
LEMMA PumpSwapBackAgrees ==
    ASSUME NEW r, r.to \in Nat \ {0}, r.from \in Nat \ {0}, NEW amount \in 0 .. U64 - 1,
           NEW fees \in Rates,
           NEW given, given = PumpSwapExactIn(r, amount, fees), given.outcome = "Ok",
           NEW back, back = PumpSwapExactOut(r, given.amount_out, fees)
    PROVE  back.amount_in <= amount
<1> DEFINE to == r.to
           from == r.from
           D == FeeDenominator
           A == D - TotalBps(fees)
           gross == (from * amount) \div (to + amount)
           fee == ThreeFees(gross, fees)
           net == gross - fee
           g == BeforeFees(net, fees)
           due == to * g
           left == from - g
           price == DivCeil(due, left)
<1>1. /\ to \in Nat \ {0} /\ from \in Nat \ {0} /\ D \in Nat \ {0}
      /\ amount \in Nat /\ U64 \in Nat \ {0} /\ amount < U64
  BY WidthAssumption
<1>2. gross \in Nat /\ gross < from /\ gross * (to + amount) <= from * amount
  <2>1. gross = (from * amount) \div (to + amount)
    OBVIOUS
  <2>2. from * amount \in Nat /\ to + amount \in Nat \ {0}
    BY <1>1
  <2> HIDE DEF to, from
  <2>3. gross \in Nat /\ (to + amount) * gross <= from * amount
    BY <2>2, DivFacts
  <2> HIDE DEF gross
  <2>4. gross \in 0 .. from - 1
    BY <1>1, <2>1, PaidOut
  <2>5. (to + amount) * gross = gross * (to + amount)
    BY <1>1, <2>3
  <2> QED
    BY <1>1, <2>3, <2>4, <2>5
<1>3. ~ (fee > gross)
  BY "FeesExceedOutput" # "Ok" DEF PumpSwapExactIn, Refused
<1>4. given.amount_out = net
  BY <1>3 DEF PumpSwapExactIn, Priced
<1> HIDE DEF gross
<1>5. fee \in Nat /\ A \in Nat \ {0} /\ D * net <= gross * A
  BY <1>2, ThreeFeesNatural, ThreeFeesFacts
<1> HIDE DEF fee
<1>6. net \in Nat
  BY <1>2, <1>3, <1>5
<1> HIDE DEF net
<1>7. g \in Nat /\ g <= gross
  <2>1. net * D \in Nat /\ net * D = D * net /\ gross * A = A * gross
    BY <1>1, <1>2, <1>5, <1>6
  <2>2. g = DivCeil(net * D, A)
    BY DEF BeforeFees
  <2> HIDE DEF g, A, D
  <2>3. net * D <= A * gross
    BY <1>5, <2>1
  <2> QED
    BY <1>2, <1>5, <2>1, <2>2, <2>3, CeilFacts, CeilTight
<1> HIDE DEF g
<1>8. g < from
  BY <1>1, <1>2, <1>7
<1>9. back.amount_in = Narrow(price)
  BY <1>1, <1>4, <1>7, <1>8 DEF PumpSwapExactOut, PriceOf, Priced, g
<1>10. due \in Nat /\ left \in Nat \ {0}
  BY <1>1, <1>7, <1>8
<1>11. price \in Nat
  BY <1>10, CeilFacts
<1>12. price <= amount
  <2>1. g * (to + amount) <= gross * (to + amount)
    BY <1>1, <1>2, <1>7, TimesMonotone
  <2>2. /\ g * (to + amount) \in Nat /\ gross * (to + amount) \in Nat
        /\ from * amount \in Nat
    BY <1>1, <1>2, <1>7
  <2>3. g * (to + amount) <= from * amount
    BY <1>2, <2>1, <2>2
  <2> HIDE DEF to, from
  <2> QED
    BY <1>1, <1>7, <1>8, <2>3, PriceOfOutput
<1> HIDE DEF price
<1>13. Narrow(price) = price
  BY <1>1, <1>11, <1>12, NarrowFacts
<1> QED
  BY <1>9, <1>12, <1>13

\* Paying what PumpSwap asked for an output gives it but for two units, or is
\* refused as dust: the price rounds up, so no less leaves the reserve, and each
\* of three fees takes less than one unit more than its share.
LEMMA PumpSwapAskedAgrees ==
    ASSUME NEW r, r.to \in Nat \ {0}, r.from \in Nat \ {0}, NEW amount \in 0 .. U64 - 1,
           NEW fees \in Rates,
           NEW asked, asked = PumpSwapExactOut(r, amount, fees),
           asked.amount_out > 0, asked.amount_in = asked.added,
           NEW got, got = PumpSwapExactIn(r, asked.amount_in, fees)
    PROVE  \/ got.outcome = "Ok" /\ got.amount_out >= amount - 2
           \/ got.outcome = "FeesExceedOutput" /\ amount <= 2
<1> DEFINE to == r.to
           from == r.from
           D == FeeDenominator
           A == D - TotalBps(fees)
           g == BeforeFees(amount, fees)
           due == to * g
           left == from - g
           price == DivCeil(due, left)
           gross == (from * price) \div (to + price)
           fee == ThreeFees(gross, fees)
           net == gross - fee
<1>1. /\ to \in Nat \ {0} /\ from \in Nat \ {0} /\ D \in Nat \ {0} /\ amount \in Nat
  BY WidthAssumption
<1>2. g \in Nat
  BY <1>1, BeforeFeesFacts
<1>3. g < from
  <2>1. Priced(0, 0, 0, 0, 0).amount_out = 0
    BY DEF Priced
  <2>2. ~ (g >= from)
    BY <2>1 DEF PumpSwapExactOut
  <2> QED
    BY <1>1, <1>2, <2>2
<1>4. asked.amount_in = price
  <2>1. ~ (g >= from)
    BY <1>1, <1>2, <1>3
  <2> QED
    BY <2>1 DEF PumpSwapExactOut, PriceOf, Priced
<1> HIDE DEF g
<1>5. price \in Nat /\ g <= gross
  <2>1. due = to * g /\ left = from - g /\ price = DivCeil(due, left)
    OBVIOUS
  <2>2. gross = (from * price) \div (to + price)
    OBVIOUS
  <2> HIDE DEF to, from, due, left, price, gross
  <2>3. price \in Nat /\ g <= (from * price) \div (to + price)
    BY <1>1, <1>2, <1>3, <2>1, OutputOfPrice
  <2> QED
    BY <2>2, <2>3
<1> HIDE DEF price
<1>6. gross \in Nat
  <2>1. from * price \in Nat /\ to + price \in Nat \ {0}
    BY <1>1, <1>5
  <2> QED
    BY <2>1, DivFacts
<1>7. got = IF fee > gross THEN Refused("FeesExceedOutput")
            ELSE Priced(price, net, fee, price, gross)
  BY <1>4 DEF PumpSwapExactIn
<1> HIDE DEF gross
<1>8. fee \in Nat /\ A \in Nat \ {0} /\ gross * A <= D * net + 3 * D - 3
  BY <1>6, ThreeFeesNatural, ThreeFeesFacts
<1>9. net \in Int
  BY <1>6, <1>8
<1>10. amount * D <= A * g
  <2>1. amount * D \in Nat
    BY <1>1
  <2>2. g = DivCeil(amount * D, A)
    BY DEF BeforeFees, g
  <2> HIDE DEF A, D
  <2> QED
    BY <1>8, <2>1, <2>2, CeilFacts
<1>11. net > amount - 3
  <2>1. g * A <= gross * A
    BY <1>2, <1>5, <1>6, <1>8, TimesMonotone
  <2>2. /\ A * g = g * A /\ amount * D = D * amount
        /\ g * A \in Nat /\ gross * A \in Nat /\ D * amount \in Nat /\ D * net \in Int
    BY <1>1, <1>2, <1>6, <1>8, <1>9
  <2>3. D * (amount - 3) = D * amount - 3 * D
    BY <1>1
  <2>4. D * (amount - 3) < D * net
    <3> HIDE DEF D, A, net
    <3> QED
      BY <1>1, <1>8, <1>10, <2>1, <2>2, <2>3
  <2> HIDE DEF D, net
  <2> QED
    BY <1>1, <1>9, <2>4, FactorDropped
<1>12. CASE fee > gross
  <2>1. net < 0
    BY <1>6, <1>8, <1>12
  <2>2. amount <= 2
    BY <1>1, <1>9, <1>11, <2>1
  <2> QED
    BY <1>7, <1>12, <2>2 DEF Refused
<1>13. CASE ~ (fee > gross)
  <2>1. got.outcome = "Ok" /\ got.amount_out = net
    BY <1>7, <1>13 DEF Priced
  <2> HIDE DEF net
  <2> QED
    BY <1>1, <1>9, <1>11, <2>1
<1> QED
  BY <1>12, <1>13

\* PoolExactOutAgrees, at any reserves a pool trades itself to, any fees and any
\* width of the machine's numbers.
THEOREM PoolExactOutAlwaysAgrees ==
    PoolSpec => []PoolExactOutAgrees
<1>1. PoolInv => PoolExactOutAgrees
  <2> SUFFICES ASSUME PoolInv, terms.venue = "pumpswap",
                      NEW direction \in {"Buy", "Sell"}, NEW amount \in Amounts
               PROVE  LET given == PoolSwap(direction, "ExactIn", amount)
                          back  == PoolSwap(direction, "ExactOut", given.amount_out)
                          asked == PoolSwap(direction, "ExactOut", amount)
                          got   == PoolSwap(direction, "ExactIn", asked.amount_in)
                      IN  /\ given.outcome = "Ok" => back.amount_in <= amount
                          /\ asked.amount_out > 0 /\ asked.amount_in = asked.added =>
                                \/ got.outcome = "Ok" /\ got.amount_out >= amount - 2
                                \/ got.outcome = "FeesExceedOutput" /\ amount <= 2
    BY DEF PoolExactOutAgrees
  <2> DEFINE r == SwapSides(direction)
             fees == SelectFees(terms.has_creator, Reserves["quote"])
  <2>1. r.to \in Nat \ {0} /\ r.from \in Nat \ {0}
    <3>1. /\ SideIn(direction) \in Sides /\ SideOut(direction) \in Sides
          /\ r.to = Reserves[SideIn(direction)] /\ r.from = Reserves[SideOut(direction)]
      BY DEF SideIn, SideOut, Sides, SwapSides
    <3> QED
      BY <3>1 DEF PoolInv, PoolKept
  <2>2. fees \in Rates
    BY SelectedRates DEF PoolInv, PoolTyped, PoolKept, Sides
  <2>3. ~ \E s \in Sides : Reserves[s] = 0
    BY DEF PoolInv, PoolKept
  <2>4. amount \in 0 .. U64 - 1
    BY WidthAssumption
  <2>5. ASSUME NEW n
        PROVE  /\ PoolSwap(direction, "ExactIn", n) = PumpSwapExactIn(r, n, fees)
               /\ PoolSwap(direction, "ExactOut", n) = PumpSwapExactOut(r, n, fees)
    BY <2>3 DEF PoolSwap, PumpSwapSwap
  <2> HIDE DEF r, fees
  <2> DEFINE given == PumpSwapExactIn(r, amount, fees)
             back  == PumpSwapExactOut(r, given.amount_out, fees)
             asked == PumpSwapExactOut(r, amount, fees)
             got   == PumpSwapExactIn(r, asked.amount_in, fees)
  <2>6. given.outcome = "Ok" => back.amount_in <= amount
    <3> HIDE DEF given
    <3> QED
      BY <2>1, <2>2, <2>4, PumpSwapBackAgrees DEF given
  <2>7. asked.amount_out > 0 /\ asked.amount_in = asked.added =>
           \/ got.outcome = "Ok" /\ got.amount_out >= amount - 2
           \/ got.outcome = "FeesExceedOutput" /\ amount <= 2
    <3> HIDE DEF asked
    <3> QED
      BY <2>1, <2>2, <2>4, PumpSwapAskedAgrees DEF asked
  <2> QED
    BY <2>5, <2>6, <2>7
<1>2. PoolSpec => []PoolInv
  BY PoolInitInv, PoolNextInv, PTL DEF PoolSpec
<1> QED
  BY <1>1, <1>2, PTL
=============================================================================
