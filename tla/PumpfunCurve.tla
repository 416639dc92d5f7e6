---------------------------- MODULE PumpfunCurve ----------------------------
(***************************************************************************)
(* Quotes on a Pump.fun bonding curve (protocols/pumpfun/math.rs) at the   *)
(* fee tier its market cap selects (fee_config.rs, quote.rs), and a curve  *)
(* that is traded by those quotes.                                         *)
(*                                                                         *)
(* Quoting is pure.  What makes it right is a matter of sequences: the     *)
(* holders of the token trade again and again, each time at the state the  *)
(* last trade left and at the tier of that state, and rounding must never  *)
(* pay out what was not paid in.  The trading program itself is external;  *)
(* it is taken to move the curve to the reserves the quote itself computes *)
(* for its post-swap price.                                                *)
(*                                                                         *)
(* Amounts are u64 and the arithmetic is u128 in the code.  U64 and U128   *)
(* are the two moduli; `as u64` truncates, and a negative difference       *)
(* panics in a build with overflow checks (Checked) and wraps in the       *)
(* release profile of the workspace, which has none.  Prices, which are    *)
(* floating point and decide nothing, are left out.                        *)
(***************************************************************************)
EXTENDS Integers, Sequences, FiniteSetsExt

CONSTANTS
    FeeDenominator,  \* 10000 in the code
    U64, U128,       \* the moduli of the two widths
    Checked,         \* whether the build traps an arithmetic underflow
    Amounts,         \* the amounts that may be asked for
    Schedules,       \* the fee_tiers a FeeConfig may hold
    StartQuote,      \* reserves of a new curve, virtual and real
    StartToken,
    StartReal,
    TotalSupply,     \* token_total_supply
    StartSol         \* the SOL its holders have between them at first

\* Rates of a tier add up to less than the whole; a tier list is ascending.
Rates == {r \in [lp : Nat, protocol : Nat, creator : Nat] :
             r.lp + r.protocol + r.creator < FeeDenominator}

Ascending(tiers) ==
    \A i, j \in DOMAIN tiers : i < j => tiers[i].threshold < tiers[j].threshold

ASSUME WidthAssumption ==
    /\ FeeDenominator \in Nat \ {0}
    /\ U64 \in Nat \ {0}
    /\ U128 = U64 * U64
    /\ Checked \in BOOLEAN
    /\ Amounts \subseteq 0 .. U64 - 1
ASSUME StartAssumption ==
    /\ StartQuote \in Nat \ {0}
    /\ StartToken \in Nat \ {0}
    /\ StartReal \in 0 .. StartToken - 1
    /\ StartToken < U64
    /\ TotalSupply \in Nat
    /\ StartSol \in Nat
    /\ StartQuote + StartSol < U64
ASSUME ScheduleAssumption ==
    \A tiers \in Schedules :
        /\ tiers \in Seq([threshold : Nat, fees : [lp : Nat, protocol : Nat, creator : Nat]])
        /\ \A i \in DOMAIN tiers : tiers[i].fees \in Rates
        /\ Ascending(tiers)

VARIABLES
    curve,     \* the BondingCurve account
    fee_tiers, \* the FeeConfig account's tiers
    holders    \* what those who trade the curve hold between them

vars == <<curve, fee_tiers, holders>>

-----------------------------------------------------------------------------
(* fee_config.rs: the tier of a market cap. *)

MarketCap(c) ==
    IF c.virtual_token = 0 THEN 0 ELSE (c.virtual_quote * TotalSupply) \div c.virtual_token

NoFees == [lp |-> 0, protocol |-> 0, creator |-> 0]

\* Mutant: the first tier reached is taken, walking upwards.
FeeTierUpwards(tiers, cap) ==
    LET reached == {i \in DOMAIN tiers : cap >= tiers[i].threshold}
    IN  IF tiers = <<>> THEN NoFees
        ELSE IF reached = {} THEN tiers[1].fees
        ELSE tiers[Min(reached)].fees

\* The highest tier reached; below the first, the first.
CalculateFeeTier(tiers, cap) ==
    LET reached == {i \in DOMAIN tiers : cap >= tiers[i].threshold}
    IN  IF tiers = <<>> THEN NoFees
        ELSE IF cap < tiers[1].threshold THEN tiers[1].fees
        ELSE tiers[Max(reached)].fees

FeesOf(c) == CalculateFeeTier(fee_tiers, MarketCap(c))

-----------------------------------------------------------------------------
(* math.rs: the four quotes. *)

DivCeil(a, b) == (a + b - 1) \div b

FeeOn(amount, bps) == DivCeil(amount * bps, FeeDenominator)

TotalFee(amount, fees) == FeeOn(amount, fees.protocol) + FeeOn(amount, fees.creator)

Wide(n) == n % U128
Narrow(n) == n % U64

Refused(why) == [outcome |-> why]

\* A SwapOutput, with the reserves new_reserve_in and new_reserve_out it was
\* priced at, by side.
Quoted(in, out, fee, quote, token) ==
    [outcome |-> "Ok", amount_in |-> Narrow(in), amount_out |-> Narrow(out),
     fee |-> Narrow(fee), quote |-> quote, token |-> token]

\* Mutant: what the buyer gets is rounded up.
BuyRoundingUp(c, amount, fees) ==
    LET net == amount - TotalFee(amount, fees)
        out == DivCeil(Wide(c.virtual_token * net), Wide(c.virtual_quote + net))
    IN  IF net < 0 /\ Checked THEN Refused("Panic")
        ELSE Quoted(amount, out, TotalFee(amount, fees),
                    Wide(c.virtual_quote + net), Wide(c.virtual_token - out))

CalculateBuy(c, amount, fees) ==
    LET net == amount - TotalFee(amount, fees)
        out == Wide(c.virtual_token * net) \div Wide(c.virtual_quote + net)
    IN  IF net < 0 /\ Checked THEN Refused("Panic")
        ELSE Quoted(amount, out, TotalFee(amount, fees),
                    Wide(c.virtual_quote + net), Wide(c.virtual_token - out))

\* Mutant: the curve pays the seller's proceeds rounded up.
SellRoundingUp(c, amount, fees) ==
    LET gross == DivCeil(c.virtual_quote * amount, c.virtual_token + amount)
        out   == gross - TotalFee(gross, fees)
    IN  IF out < 0 /\ Checked THEN Refused("Panic")
        ELSE Quoted(amount, out, TotalFee(gross, fees),
                    c.virtual_quote - gross, c.virtual_token + amount)

CalculateSell(c, amount, fees) ==
    LET gross == (c.virtual_quote * amount) \div (c.virtual_token + amount)
        out   == gross - TotalFee(gross, fees)
    IN  IF out < 0 /\ Checked THEN Refused("Panic")
        ELSE Quoted(amount, out, TotalFee(gross, fees),
                    c.virtual_quote - gross, c.virtual_token + amount)

\* What is left of the denominator once the fees are taken off.
AfterFees(fees) == FeeDenominator - (fees.protocol + fees.creator)

\* Mutant: the ratio is upside down.
GrossUpInverted(net, fees) == DivCeil(net * AfterFees(fees), FeeDenominator)

\* Mutant: one is added whether or not the division is exact.
GrossUpPlusOne(net, fees) == (net * FeeDenominator) \div AfterFees(fees) + 1

GrossUp(net, fees) == DivCeil(net * FeeDenominator, AfterFees(fees))

\* Every rate a quote may be computed with.
Tariff == {NoFees} \cup UNION {{tiers[i].fees : i \in DOMAIN tiers} : tiers \in Schedules}

\* The dearest purchase the real reserve allows has a price that fits a u64: for
\* a live curve, 793e12 of at least 1073e12 tokens against all the SOL there is.
ASSUME PriceAssumption ==
    \A quote \in 0 .. StartQuote + StartSol, amount \in 0 .. StartReal,
       left \in StartToken - StartReal .. StartToken, fees \in Tariff :
        GrossUp(DivCeil(quote * amount, left), fees) < U64

CalculateBuyExactOut(c, amount, fees) ==
    LET left  == c.virtual_token - amount
        net   == DivCeil(c.virtual_quote * amount, left)
        gross == GrossUp(net, fees)
    IN  IF amount >= c.virtual_token THEN Refused("InsufficientReserves")
        ELSE Quoted(gross, amount, TotalFee(gross, fees), c.virtual_quote + net, left)

CalculateSellExactOut(c, amount, fees) ==
    LET gross  == GrossUp(amount, fees)
        left   == c.virtual_quote - gross
        tokens == DivCeil(c.virtual_token * gross, left)
    IN  IF gross >= c.virtual_quote THEN Refused("InsufficientReserves")
        ELSE Quoted(tokens, amount, TotalFee(gross, fees), left, c.virtual_token + tokens)

\* The two tests every quote begins with.
Tested(c, amount, output) ==
    IF c.complete THEN Refused("BondingCurveCompleted")
    ELSE IF amount = 0 THEN Refused("ZeroAmount")
    ELSE output

\* calculate_swap_with_fees.
CalculateSwap(c, direction, kind, amount, fees) ==
    Tested(c, amount,
        IF direction = "Buy"
        THEN IF kind = "ExactIn" THEN CalculateBuy(c, amount, fees)
             ELSE CalculateBuyExactOut(c, amount, fees)
        ELSE IF kind = "ExactIn" THEN CalculateSell(c, amount, fees)
             ELSE CalculateSellExactOut(c, amount, fees))

\* PumpfunQuote::calculate_swap: the rates are those of the curve as assembled.
Quote(direction, kind, amount) ==
    CalculateSwap(curve, direction, kind, amount, FeesOf(curve))

-----------------------------------------------------------------------------
(* A curve from its creation on, traded by its quotes. *)

Init ==
    /\ curve = [virtual_quote |-> StartQuote, virtual_token |-> StartToken,
                real_quote |-> 0, real_token |-> StartReal, complete |-> FALSE]
    /\ fee_tiers \in Schedules
    /\ holders = [sol |-> StartSol, tokens |-> 0]

\* The program moves the curve to the reserves of the quote, the real ones
\* along with the virtual ones, and completes it when its tokens are sold.
Moved(q) ==
    LET real_token == curve.real_token + q.token - curve.virtual_token
    IN  [virtual_quote |-> q.quote, virtual_token |-> q.token,
         real_quote |-> curve.real_quote + q.quote - curve.virtual_quote,
         real_token |-> real_token, complete |-> real_token = 0]

\* The program's `buy` takes an exact token amount, its `buy_exact_sol_in` an
\* exact SOL amount; it sells no more than the real reserve.
Buy(kind, amount) ==
    LET q == Quote("Buy", kind, amount)
    IN  /\ q.outcome = "Ok"
        /\ q.amount_in <= holders.sol
        /\ q.amount_out <= curve.real_token
        /\ curve' = Moved(q)
        /\ holders' = [sol |-> holders.sol - q.amount_in,
                       tokens |-> holders.tokens + q.amount_out]
        /\ UNCHANGED fee_tiers

\* `sell` takes an exact token amount.
Sell(amount) ==
    LET q == Quote("Sell", "ExactIn", amount)
    IN  /\ q.outcome = "Ok"
        /\ amount <= holders.tokens
        /\ curve' = Moved(q)
        /\ holders' = [sol |-> holders.sol + q.amount_out,
                       tokens |-> holders.tokens - q.amount_in]
        /\ UNCHANGED fee_tiers

\* The pump_fees program changes the schedule.
Reschedule ==
    /\ fee_tiers' \in Schedules \ {fee_tiers}
    /\ UNCHANGED <<curve, holders>>

Next ==
    \/ \E amount \in Amounts, kind \in {"ExactIn", "ExactOut"} : Buy(kind, amount)
    \/ \E amount \in Amounts : Sell(amount)
    \/ Reschedule

Spec == Init /\ [][Next]_vars

-----------------------------------------------------------------------------
(* Properties. *)

\* The account stays one a curve can be in: the virtual reserves run a constant
\* distance ahead of the real ones, and every token sold is held by somebody.
TypeOK ==
    /\ curve \in [virtual_quote : Nat, virtual_token : Nat \ {0},
                  real_quote : Nat, real_token : Nat, complete : BOOLEAN]
    /\ curve.virtual_quote = curve.real_quote + StartQuote
    /\ curve.virtual_token = curve.real_token + StartToken - StartReal
    /\ fee_tiers \in Schedules
    /\ holders \in [sol : Nat, tokens : Nat]
    /\ holders.tokens = StartReal - curve.real_token

\* No trade at a quoted price, in either direction and whichever amount was
\* exact, lowers the product of the virtual reserves: every rounding in
\* math.rs goes to the curve.
ProductNeverFalls ==
    [][curve'.virtual_quote * curve'.virtual_token
          >= curve.virtual_quote * curve.virtual_token]_vars

\* However the holders trade, across fee tiers and changes of schedule, they
\* have never drawn more SOL out than they have put in, and the curve can pay
\* for every token they hold.
HoldersNeverProfit == holders.sol + curve.real_quote <= StartSol

\* The exact-out quotes agree with the exact-in ones, which round each fee by
\* itself.  Asking for exactly what a buy would give never costs more than that
\* buy; and a sell quoted for an exact output, unless its tokens are truncated,
\* falls short of it by at most one lamport when they are sold.
ExactOutAgrees ==
    \A amount \in Amounts :
        LET bought == Quote("Buy", "ExactIn", amount)
            back   == Quote("Buy", "ExactOut", bought.amount_out)
            asked  == Quote("Sell", "ExactOut", amount)
            sold   == Quote("Sell", "ExactIn", asked.amount_in)
        IN  /\ bought.outcome = "Ok" /\ back.outcome = "Ok" => back.amount_in <= amount
            /\ asked.outcome = "Ok" /\ asked.amount_in = asked.token - curve.virtual_token =>
                  sold.outcome = "Ok" /\ sold.amount_out >= amount - 1

\* The rates of a quote are those of the one tier whose range holds the market
\* cap, at every cap the curve reaches and on both sides of every threshold.
FeesAreOfTheTier ==
    \A i \in DOMAIN fee_tiers :
        LET from == IF i = 1 THEN 0 ELSE fee_tiers[i].threshold
        IN  /\ MarketCap(curve) >= from
            /\ i < Len(fee_tiers) => MarketCap(curve) < fee_tiers[i + 1].threshold
            => FeesOf(curve) = fee_tiers[i].fees

\* "All calculations in u128 to prevent overflow": a quote that is given is
\* within the reserves it was priced on.
QuotesDoNotOverflow ==
    \A amount \in Amounts, direction \in {"Buy", "Sell"}, kind \in {"ExactIn", "ExactOut"} :
        LET q == Quote(direction, kind, amount)
        IN  /\ q.outcome # "Panic"
            /\ q.outcome = "Ok" =>
                  q.amount_out <= (IF direction = "Buy" THEN curve.virtual_token
                                   ELSE curve.virtual_quote)
=============================================================================
