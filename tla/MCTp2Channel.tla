----------------------------- MODULE MCTp2Channel -----------------------------
(***************************************************************************)
(* Small instances of Tp2Channel for TLC: two requests, answered by one    *)
(* frame and by two.                                                       *)
(***************************************************************************)
EXTENDS Tp2Channel

Pair == <<<<1>>, <<2>>>>
PairBack == <<<<<<9>>>>, <<<<11, 8, 8>>>>>>
================================================================================
