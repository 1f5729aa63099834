----------------------------- MODULE MCCarriers -----------------------------
(***************************************************************************)
(* Small instances of Carriers.                                            *)
(***************************************************************************)
EXTENDS Carriers

Pair == <<"psiphon", "aether">>
Lone == <<"psiphon">>
AllRoutes == {Pair, Lone, Alone}
P(route, kill, auto, reconnect) ==
  [route |-> route, kill |-> kill, auto |-> auto, reconnect |-> reconnect]
Some == {P(Pair, TRUE, FALSE, TRUE), P(Alone, FALSE, TRUE, TRUE), P(Lone, TRUE, FALSE, FALSE)}
=============================================================================
