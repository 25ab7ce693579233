-------------------------- MODULE MCAlertMatching --------------------------
(* A small instance of AlertMatching for TLC: w1 wants the lower price only, w2 any. *)
EXTENDS AlertMatching

CONSTANTS w1, w2

MCLimit == [w \in {w1, w2} |-> IF w = w1 THEN 1 ELSE 2]
=============================================================================
