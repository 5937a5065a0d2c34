--------------------------- MODULE MCSyncAccount ---------------------------
(* Instances of SyncAccount for TLC.                                        *)
EXTENDS SyncAccount

CONSTANTS r1, r2, r3, a, b, c1, c2

Order == <<r1, r2, r3>>
\* The middle staple ties the chains of both accounts together.
Tied == <<{a}, {a, b}, {b}>>
Contended == <<b, a>>
=============================================================================
