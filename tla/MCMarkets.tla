----------------------------- MODULE MCMarkets ------------------------------
(***************************************************************************)
(* One market at a time, a bonding curve or a pool: they share the layout  *)
(* of the FeeConfig and its lookup, and no other state.                    *)
(***************************************************************************)
EXTENDS PoolQuotes

CONSTANT MaxAmount

MCAmounts == 0 .. MaxAmount

Tier(threshold, protocol, creator) ==
    [threshold |-> threshold, fees |-> [lp |-> 20, protocol |-> protocol, creator |-> creator]]

\* The live schedule of pumpfun has one tier; the others cover the lookup.
OneTier    == <<Tier(0, 95, 30)>>
ThreeTiers == <<Tier(14, 500, 500), Tier(18, 95, 30), Tier(30, 0, 0)>>
MCSchedules == {<<>>, OneTier, ThreeTiers}

MCFlatFees == [lp |-> 25, protocol |-> 5, creator |-> 0]
MCStartVault == [base |-> 11, quote |-> 14]
MCStartTraders == [base |-> 5, quote |-> 7]

VARIABLE market

\* What a market does not read has one value: a curve the terms of a pool, a
\* pool other than PumpSwap's the tiers of a FeeConfig.
MarketInit ==
    /\ Init
    /\ PoolInit
    /\ \/ market = "curve" /\ terms = CHOOSE t \in Terms : TRUE
       \/ market = "pool" /\ (terms.venue # "pumpswap" => fee_tiers = <<>>)

MarketNext ==
    \/ market = "curve" /\ Next /\ UNCHANGED <<market, terms, vault, owed, traders>>
    \/ market = "pool" /\ PoolNext /\ UNCHANGED <<market, curve, holders>>

MarketSpec == MarketInit /\ [][MarketNext]_<<market, vars, poolVars>>
=============================================================================
