----------------------------- MODULE PoolQuotes -----------------------------
(***************************************************************************)
(* Quotes on a constant-product pool: PumpSwap (pumpswap/math.rs and       *)
(* quote.rs), Raydium V4, CPMM and Launchpad, Meteora DBC (their math.rs), *)
(* and a pool traded by those quotes.                                      *)
(*                                                                         *)
(* The venues share the formula and differ in where the fee is taken, how  *)
(* it is rounded, which width it is computed in, and what of the vaults    *)
(* counts as reserve.  PumpSwap takes three fees of a tier from the        *)
(* output, each rounded up, by the same tier lookup as PumpfunCurve; the   *)
(* others take one fee from the input, rounded down, and have no exact-out *)
(* quote: the amount is always what is paid.                               *)
(*                                                                         *)
(* As on a curve, the venue's program is external and is taken to move the *)
(* vaults by what the quote says.  Prices and price impact, which are      *)
(* reported only, are left out.                                            *)
(***************************************************************************)
EXTENDS PumpfunCurve

CONSTANTS
    FlatFees,         \* flat_fees of the FeeConfig, for a pool without creator
    TradeFeeRates,    \* rates a pool of the other venues may have,
    RateDenominator,  \* out of this
    StartVault,       \* what the vaults hold at first, by side
    StartTraders      \* what the traders hold between them at first

Sides == {"base", "quote"}
Venues == {"pumpswap", "raydium_v4", "raydium_cpmm", "raydium_launchpad", "meteora_dbc"}

ASSUME PoolAssumption ==
    /\ FlatFees \in Rates
    /\ RateDenominator \in Nat \ {0}
    /\ TradeFeeRates \subseteq 0 .. RateDenominator
    /\ StartVault \in [Sides -> Nat \ {0}]
    /\ StartTraders \in [Sides -> Nat]
    /\ \A s \in Sides : StartVault[s] + StartTraders[s] < U64

VARIABLES
    terms,   \* what of the pool's accounts does not change
    vault,   \* balances of its two vaults; for Launchpad and DBC, its reserves
    owed,    \* of these, the fees a CPMM pool has set aside
    traders  \* what those who trade the pool hold between them

poolVars == <<terms, vault, owed, traders, fee_tiers>>

-----------------------------------------------------------------------------
(* What a quote is computed from. *)

\* vault_amount_without_fee; the other venues set nothing aside.
Reserves == [s \in Sides |-> vault[s] - owed[s]]

SideIn(direction) == IF direction = "Buy" THEN "quote" ELSE "base"
SideOut(direction) == IF direction = "Buy" THEN "base" ELSE "quote"

\* A swap takes from `to` and pays `from`: the reserve the amount goes into and
\* the reserve the output comes out of.
SwapSides(direction) ==
    [to |-> Reserves[SideIn(direction)], from |-> Reserves[SideOut(direction)]]

\* A SwapOutput, with what the quote adds to the one reserve and takes from the
\* other to price what follows.
Priced(in, out, fee, added, taken) ==
    [outcome |-> "Ok", amount_in |-> in, amount_out |-> out, fee |-> fee,
     added |-> added, taken |-> taken]

-----------------------------------------------------------------------------
(* PumpSwap: three fees from the output. *)

\* Fees::select.
SelectFees(has_creator, quote_reserves) ==
    IF has_creator THEN CalculateFeeTier(fee_tiers, quote_reserves) ELSE FlatFees

\* FeeStructure::calculate_fees, summed: every component rounds up.
ThreeFees(amount, fees) == TotalFee(amount, fees) + FeeOn(amount, fees.lp)

TotalBps(fees) == fees.lp + fees.protocol + fees.creator

PumpSwapExactIn(r, amount, fees) ==
    LET gross == (r.from * amount) \div (r.to + amount)
        fee   == ThreeFees(gross, fees)
    IN  IF fee > gross THEN Refused("FeesExceedOutput")
        ELSE Priced(amount, gross - fee, fee, amount, gross)

\* Mutant: the fees are added on top of the output.
BeforeFeesAdded(amount, fees) == amount + (amount * TotalBps(fees)) \div FeeDenominator

\* What must come out of the reserve for `amount` to be left of it.
BeforeFees(amount, fees) ==
    DivCeil(amount * FeeDenominator, FeeDenominator - TotalBps(fees))

\* ceil(reserve_in * gross / (reserve_out - gross)).
PriceOf(r, gross) == DivCeil(r.to * gross, r.from - gross)

\* More than the reserve: a SwapOutput of zeros.  A price that does not fit a
\* u64 is truncated.
PumpSwapExactOut(r, amount, fees) ==
    LET gross == BeforeFees(amount, fees)
        price == PriceOf(r, gross)
    IN  IF gross >= r.from THEN Priced(0, 0, 0, 0, 0)
        ELSE Priced(Narrow(price), amount, ThreeFees(gross, fees), price, gross)

\* PumpSwapQuote::calculate_swap, on the bundle as assembled.
PumpSwapSwap(direction, kind, amount) ==
    LET r    == SwapSides(direction)
        fees == SelectFees(terms.has_creator, Reserves["quote"])
    IN  IF \E s \in Sides : Reserves[s] = 0 THEN Refused("NoReserves")
        ELSE IF kind = "ExactIn" THEN PumpSwapExactIn(r, amount, fees)
        ELSE PumpSwapExactOut(r, amount, fees)

-----------------------------------------------------------------------------
(* The venues that take their fee from the input. *)

FeeFromInput(amount, rate) == (amount * rate) \div RateDenominator

\* Mutant: the output is rounded up.
OutputRoundedUp(r, net) == DivCeil(r.from * net, r.to + net)

OutputOf(r, net) == (r.from * net) \div (r.to + net)

\* The whole amount stays in the pool.
RaydiumV4Swap(r, amount, rate) ==
    LET fee == FeeFromInput(amount, rate)
        net == amount - fee
    IN  IF r.to + net = 0 THEN Refused("InsufficientReserves")
        ELSE Priced(amount, OutputOf(r, net), fee, amount, OutputOf(r, net))

\* from_vault_balances refuses vaults that do not cover what they owe.
CpmmSwap(r, amount, rate) ==
    IF \E s \in Sides : vault[s] < owed[s] THEN Refused("VaultLessThanFees")
    ELSE RaydiumV4Swap(r, amount, rate)

LaunchpadSwap(r, amount, rate) == RaydiumV4Swap(r, amount, rate)

\* checked_mul in u64: a product that does not fit counts as no fee.
DbcFee(amount, rate) ==
    IF amount * rate < U64 THEN FeeFromInput(amount, rate) ELSE 0

\* The fee leaves the pool; the sum of reserve and amount saturates.
DbcSwap(r, amount, rate) ==
    LET fee         == DbcFee(amount, rate)
        net         == amount - fee
        denominator == Min({r.to + net, U64 - 1})
        out         == (r.from * net) \div denominator
    IN  IF denominator = 0 THEN Priced(amount, 0, fee, net, 0)
        ELSE Priced(amount, out, fee, denominator - r.to, out)

-----------------------------------------------------------------------------
(* SwapMath::calculate_swap of the pool's venue. *)

PoolSwap(direction, kind, amount) ==
    LET r    == SwapSides(direction)
        rate == terms.rate
    IN  CASE terms.venue = "pumpswap"          -> PumpSwapSwap(direction, kind, amount)
          [] terms.venue = "raydium_v4"        -> RaydiumV4Swap(r, amount, rate)
          [] terms.venue = "raydium_cpmm"      -> CpmmSwap(r, amount, rate)
          [] terms.venue = "raydium_launchpad" -> LaunchpadSwap(r, amount, rate)
          [] terms.venue = "meteora_dbc"       -> DbcSwap(r, amount, rate)

-----------------------------------------------------------------------------
(* A pool traded by its quotes. *)

Terms ==
    [venue : {"pumpswap"}, has_creator : BOOLEAN, rate : {0}]
        \cup [venue : Venues \ {"pumpswap"}, has_creator : {FALSE}, rate : TradeFeeRates]

PoolInit ==
    /\ terms \in Terms
    /\ vault = StartVault
    /\ owed = [s \in Sides |-> 0]
    /\ traders = StartTraders

\* The program of a venue swaps at the quote, if the quote is of the amount asked
\* and its price is not truncated.
Trade(direction, kind, amount) ==
    LET q   == PoolSwap(direction, kind, amount)
        in  == SideIn(direction)
        out == SideOut(direction)
    IN  /\ q.outcome = "Ok"
        /\ amount = (IF kind = "ExactIn" THEN q.amount_in ELSE q.amount_out)
        /\ q.amount_in \in q.added .. traders[in]
        /\ vault' = [vault EXCEPT ![in] = @ + q.added, ![out] = @ - q.taken]
        /\ \E aside \in IF terms.venue = "raydium_cpmm" THEN 0 .. q.fee ELSE {0} :
              owed' = [owed EXCEPT ![in] = @ + aside]
        /\ traders' = [traders EXCEPT ![in] = @ - q.amount_in, ![out] = @ + q.amount_out]
        /\ UNCHANGED <<terms, fee_tiers>>

\* The fees a CPMM pool has set aside are paid out.
CollectFees ==
    /\ \E s \in Sides : owed[s] > 0
    /\ vault' = Reserves
    /\ owed' = [s \in Sides |-> 0]
    /\ UNCHANGED <<terms, traders, fee_tiers>>

PoolReschedule ==
    /\ terms.venue = "pumpswap"
    /\ fee_tiers' \in Schedules \ {fee_tiers}
    /\ UNCHANGED <<terms, vault, owed, traders>>

PoolNext ==
    \/ \E direction \in {"Buy", "Sell"}, kind \in {"ExactIn", "ExactOut"}, amount \in Amounts :
          Trade(direction, kind, amount)
    \/ CollectFees
    \/ PoolReschedule

PoolSpec == fee_tiers \in Schedules /\ PoolInit /\ [][PoolNext]_poolVars

-----------------------------------------------------------------------------
(* Properties. *)

\* Buying and selling in any order, at any sizes and across fee tiers, schedule
\* changes and collections, never leaves the traders of a pool with more of one
\* side and no less of the other: what conservation_of_value tests of one round
\* trip, of every sequence.
TradersNeverProfit ==
    (\A s \in Sides : traders[s] >= StartTraders[s]) => traders = StartTraders

\* PumpSwap's two kinds of quote agree, which round their fees together and one
\* by one: asking for what an exact-in quote gives never costs more than it; and
\* what an exact-out quote asks for, unless truncated, buys at most two units less
\* than it promised, or is dust, which the exact-in quote refuses.
PoolExactOutAgrees ==
    terms.venue = "pumpswap" =>
        \A direction \in {"Buy", "Sell"}, amount \in Amounts :
            LET given == PoolSwap(direction, "ExactIn", amount)
                back  == PoolSwap(direction, "ExactOut", given.amount_out)
                asked == PoolSwap(direction, "ExactOut", amount)
                got   == PoolSwap(direction, "ExactIn", asked.amount_in)
            IN  /\ given.outcome = "Ok" => back.amount_in <= amount
                /\ asked.amount_out > 0 /\ asked.amount_in = asked.added =>
                      \/ got.outcome = "Ok" /\ got.amount_out >= amount - 2
                      \/ got.outcome = "FeesExceedOutput" /\ amount <= 2
=============================================================================
