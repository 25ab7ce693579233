----------------------------- MODULE SlotQueue -----------------------------
(***************************************************************************)
(* A semaphore that serves its clients in the order they came: whoever      *)
(* leaves hands its place to the first that waits, so that no newcomer      *)
(* passes a waiting client and no place is free while somebody waits.       *)
(*                                                                         *)
(* ResilientHttp implements it twice: its concurrency slots, and with one   *)
(* place its pacing lock.                                                   *)
(***************************************************************************)
EXTENDS Integers, FiniteSets, Sequences

CONSTANTS Client, Capacity

VARIABLES
    inside,   \* the clients that hold a place
    waiting   \* those that want one, in the order they came

queueVars == <<inside, waiting>>

Init == inside = {} /\ waiting = <<>>

Absent(c) == c \notin inside /\ \A i \in 1..Len(waiting) : waiting[i] # c

\* A client that comes takes a free place, or its turn at the end.
Enter(c) ==
    /\ Absent(c)
    /\ IF Cardinality(inside) < Capacity
       THEN inside' = inside \cup {c} /\ UNCHANGED waiting
       ELSE waiting' = Append(waiting, c) /\ UNCHANGED inside

\* A client that leaves hands its place on.
Leave(c) ==
    /\ c \in inside
    /\ \/ /\ waiting = <<>>
          /\ inside' = inside \ {c}
          /\ UNCHANGED waiting
       \/ /\ waiting # <<>>
          /\ inside' = (inside \ {c}) \cup {Head(waiting)}
          /\ waiting' = Tail(waiting)

Next == \E c \in Client : Enter(c) \/ Leave(c)

Spec == Init /\ [][Next]_queueVars
=============================================================================
