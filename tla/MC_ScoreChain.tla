---------------------------- MODULE MC_ScoreChain ----------------------------
(***************************************************************************)
(* Two addresses: a1 has the reputation and likers to pass every gate, a2 *)
(* receives its post scores; each block holds up to MaxTxs scores a1->a2  *)
(* with a counted (5) or non-lottery (1) value.  From StartHeight 224999   *)
(* the chain crosses checkpoint 225000, where the one-to-one limit drops   *)
(* from 99999 to 2 and the window to one day, with block times one half   *)
(* or one whole day apart.                                                 *)
(***************************************************************************)
EXTENDS ScoreChain

CONSTANTS a1, a2

MC_RepOf    == [a \in Address |-> IF a = a1 THEN 1000 ELSE NoData]
MC_LikersOf == [a \in Address |-> IF a = a1 THEN 100 ELSE NoData]
MC_TxChoices ==
    {[from |-> a1, to |-> a2, value |-> 5], [from |-> a1, to |-> a2, value |-> 1]}
=============================================================================
