-------------------------- MODULE MCQuoteAssembly --------------------------
(* Model checking of QuoteAssembly on the PumpSwap bundle: the pool, its   *)
(* two vaults, which every swap and deposit writes together, and the fee   *)
(* config.                                                                 *)
EXTENDS QuoteAssembly

CONSTANTS pool, base, quote, fee_config,
          MaxSlot, PoolWrites, VaultWrites, ConfigWrites

MCSlots == 1 .. MaxSlot

MCStates == 1 .. 4

Swap == {base, quote}

Deposit == {pool, base, quote}

SetFees == {fee_config}

MCMaxWrites ==
  [a \in Accounts |-> CASE a = pool       -> PoolWrites
                        [] a = fee_config -> ConfigWrites
                        [] OTHER          -> VaultWrites]

PumpSwapFields == <<pool, base, quote>>

PumpSwapTransactions == {Deposit, Swap, SetFees}
=============================================================================
