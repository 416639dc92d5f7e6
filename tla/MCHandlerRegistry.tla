------------------------- MODULE MCHandlerRegistry -------------------------
(* Handlers of every kind the registry tells apart, for two programs. *)
EXTENDS HandlerRegistry

CONSTANTS p1, p2

MCPrograms == {p1, p2}

\* Every byte sequence of up to three bytes, one more than DiscWidth.
MCAccounts == UNION {[1 .. n -> {0, 1}] : n \in 0 .. 3}

Handler(p, disc, acc, all) ==
    [program |-> p, discriminator |-> disc, accepts |-> acc, wholesale |-> all]

OfSize(n) == {d \in MCAccounts : Len(d) = n}

MCHandlers ==
    { Handler(p1, <<0, 1>>, MCAccounts, TRUE),     \* keyed
      Handler(p1, <<0, 1>>, MCAccounts, FALSE),    \* keyed, same key
      Handler(p2, <<0, 1>>, MCAccounts, TRUE),     \* keyed, other program
      Handler(p1, <<0>>, MCAccounts, TRUE),        \* one leading byte
      Handler(p1, <<0>>, OfSize(3), TRUE),         \* the same byte and a size
      Handler(p1, <<0, 1, 1>>, MCAccounts, TRUE),  \* longer than a key
      Handler(p1, <<>>, OfSize(1), FALSE),         \* no discriminator, by size
      Handler(p2, <<>>, OfSize(3), FALSE) }        \* dependency-only program
=============================================================================
