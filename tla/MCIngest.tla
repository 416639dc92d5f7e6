------------------------------ MODULE MCIngest ------------------------------
(* Model checking of Ingest: a pool whose handler names a config account,  *)
(* which names a second one, which names the first back; the pool also     *)
(* reports dependencies of the classes that are never fetched.             *)
EXTENDS Ingest

CONSTANTS pool, config, admin

MCAccounts == {pool, config, admin}

Dep(a, e) == [pubkey |-> a, expectation |-> e]

MCHandleResult ==
  [a \in MCAccounts |->
     CASE a = pool   -> [accounts_to_fetch     |-> <<Dep(config, "Infrequent")>>,
                         accounts_to_subscribe |-> <<Dep(pool, "Frequent"),
                                                     Dep(admin, "Dynamic")>>]
       [] a = config -> [accounts_to_fetch     |-> << >>,
                         accounts_to_subscribe |-> <<Dep(admin, "Infrequent")>>]
       [] a = admin  -> [accounts_to_fetch     |-> <<Dep(config, "Infrequent")>>,
                         accounts_to_subscribe |-> << >>]]
=============================================================================
