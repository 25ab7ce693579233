---------------------------- MODULE MCIngestion ----------------------------
(* A small instance of Ingestion for TLC: three pages, l2 on all of them.  *)
EXTENDS Ingestion

CONSTANTS l1, l2

MCContent(j, p) == IF p = 0 THEN {l1, l2} ELSE {l2}

\* The worker alone: nobody searches.
NoSearch == \A l \in Listing : ~ApiPersist(l)
WorkerSpec == Init /\ [][Next /\ NoSearch]_vars
=============================================================================
