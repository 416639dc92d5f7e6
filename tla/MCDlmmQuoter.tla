---------------------------- MODULE MCDlmmQuoter ----------------------------
(* Pools of twelve bins in six arrays of two; the pool's word flags the two *)
(* arrays around zero and the extension those beyond them.                 *)
EXTENDS DlmmQuoter

CONSTANTS Actives, MaxAmount

MCMinBinId == -6
MCActives  == {-5, -1, 0, 2, 4}

Bins     == MinBinId .. MaxBinId
MCPrice  == [b \in Bins |-> <<4, 5, 6, 8, 10, 13, 16, 20, 25, 31, 39, 49>>[b - MinBinId + 1]]
MCClocks == {[timestamp |-> t, slot |-> 5] : t \in {2, 12, 30}}
MCAmounts == 1 .. MaxAmount

\* A pool at bin "active" whose bins of "filled" hold liquidity: Y below the
\* active bin, X above it, both in it.
PoolOf(active, filled) ==
    [active |-> active,
     bins |-> [b \in Bins |->
                  [x |-> IF b \in filled /\ b >= active THEN 3 + (b % 3) ELSE 0,
                   y |-> IF b \in filled /\ b <= active THEN 2 + (b % 4) ELSE 0]],
     flagged |-> {ArrayOf(b) : b \in filled},
     extension |-> TRUE, cached |-> {ArrayOf(b) : b \in Bins},
     enabled |-> TRUE, permission |-> FALSE, activation |-> "slot", activationPoint |-> 0,
     baseFactor |-> 3, binStep |-> 1, feePower |-> 0, variableFeeControl |-> 7,
     filterPeriod |-> 5, decayPeriod |-> 20, reduction |-> 5, maxVolatility |-> 40,
     iref |-> active - 1, vref |-> 10, vacc |-> 20, lastUpdate |-> 0]

\* The bins each kind of pool fills.
FilledSets(active) ==
    {Bins, active - 1 .. active + 1, -2 .. 3, {-6, -5, -1, 0, 4}, {2, 3, 4}, {-4, -3, 0}} \cap SUBSET Bins

Whole == {PoolOf(a, f) : a \in Actives, f \in UNION {FilledSets(b) : b \in Actives}}

\* Pools whose snapshot lacks something, that are not open to trade, or whose
\* volatility decays beyond a u32.
Lacking ==
    LET full == PoolOf(0, Bins)
    IN  {[full EXCEPT !.extension = FALSE], [full EXCEPT !.cached = {-1, 0, 1}],
         [full EXCEPT !.enabled = FALSE], [full EXCEPT !.vacc = 40],
         [full EXCEPT !.permission = TRUE, !.activationPoint = 9],
         [full EXCEPT !.permission = TRUE, !.activation = "timestamp", !.activationPoint = 9],
         [full EXCEPT !.permission = TRUE, !.activation = "other", !.activationPoint = 9]}

MCPools == Whole \cup Lacking
=============================================================================
