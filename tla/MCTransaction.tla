---------------------------- MODULE MCTransaction ---------------------------
(***************************************************************************)
(* Transactions of a few instructions: a router, the venues, and a         *)
(* precompile that logs nothing.                                           *)
(***************************************************************************)
EXTENDS ChainExtraction

Ix(op, pool) == [op |-> op, pool |-> pool]
Ev(event, pool, good) == [op |-> "event", event |-> event, pool |-> pool, good |-> good]
Written(event, pool) == [tag |-> "data", event |-> event, pool |-> pool, good |-> TRUE]

MCWorks ==
    [router   |-> {Ix("route", NoPool)},
     pumpfun  |-> {Ix("buy", 1), Ev("Trade", 1, TRUE), Ev("Complete", 1, TRUE)},
     pumpswap |-> {Ix("buy", 3), Ix("deposit", NoPool), Ix("collect", 3), Ix("collect", NoPool), Ix("unknown", 3),
                   Ev("Buy", 3, TRUE), Ev("Buy", 4, TRUE), Ev("Buy", 3, FALSE),
                   Ev("CollectFee", 4, TRUE)},
     damm     |-> {Ix("swap", 5), Ev("EvtSwap2", 5, TRUE)},
     dlmm     |-> {Ix("swap", 6), Ix("unknown", 6), Ev("Swap", 6, TRUE), Ev("Swap", 6, FALSE)},
     verifier |-> {Ix("verify", NoPool)}]

MCNotes ==
    [router   |-> {[tag |-> "says truncated"]},
     pumpfun  |-> {Written("Trade", 1), Written("Complete", 1),
                   [Written("Complete", 1) EXCEPT !.good = FALSE]},
     pumpswap |-> {},
     damm     |-> {},
     dlmm     |-> {},
     verifier |-> {}]

MCCasts == {{"verifier", "pumpfun"}, {"router", "damm", "dlmm"}, {"verifier", "pumpswap"}}
=============================================================================
