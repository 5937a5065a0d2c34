----------------------------- MODULE MCRepBook -----------------------------
(* Instances of RepBook for TLC.                                            *)
EXTENDS RepBook

CONSTANTS t1, t2, k1, k2

OneSeed == <<[key |-> k1, weight |-> 1]>>

Entry(k, w, a) == [key |-> k, weight |-> w, api |-> a]
\* The network lists a second representative, heavier than the seed; later
\* the weights and the order are others.
AddsHeavy == <<<<Entry(k1, 1, FALSE), Entry(k2, 3, TRUE)>>,
               <<Entry(k2, 1, TRUE), Entry(k1, 2, TRUE)>>>>
AddsSecond == <<<<Entry(k1, 1, TRUE), Entry(k2, 2, TRUE)>>>>

ReadAndDiscover == [t \in Tasks |-> IF t = t1 THEN "read" ELSE "discover"]
AllDiscover == [t \in Tasks |-> "discover"]
=============================================================================
