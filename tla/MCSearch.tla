------------------------------ MODULE MCSearch ------------------------------
(* A small instance of Search for TLC: of the second query b takes nothing   *)
(* and a no later page; y1 and y3 are x1 and x3 as b sells them.                      *)
EXTENDS Search

CONSTANTS a, b, q1, q2, x1, x2, x3, x4, y1, y3, z1, old, new

MCPages == [p \in {a, b} |-> [q \in {q1, q2} |-> [v \in {old, new} |->
    CASE p = a /\ q = q1 /\ v = old -> <<{x1, x2}, {x3}>>
      [] p = a /\ q = q1 /\ v = new -> <<{x4, x2}, {x1, x3}>>
      [] p = b /\ q = q1 /\ v = old -> <<{y1}, {}, {y3}>>
      [] p = b /\ q = q1 /\ v = new -> <<{}, {y1}, {y3}>>
      [] p = a /\ q = q2 -> <<{z1}, {x3}>>
      [] OTHER -> <<>>]]]

\* x4 is x1 with another price.
MCIdentity == [l \in Listing |-> IF l = x4 THEN x1 ELSE l]
MCFingerprint == [l \in Listing |-> IF l \in {x1, y1} THEN {"one"} ELSE IF l \in {x3, y3} THEN {"three"} ELSE {}]
MCKey == Listing \cup {"one", "three"}
MCUnsupported == {<<b, q2, 1>>, <<a, q2, 2>>}
=============================================================================
