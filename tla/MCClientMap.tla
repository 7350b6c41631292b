----------------------------- MODULE MCClientMap -----------------------------
\* A table of two places for five addresses, three of which share a place.
EXTENDS ClientMap

CONSTANTS a1, a2, a3, a4, a5, k1, k2

MCHashKey == [a \in Addr |-> IF a \in {a4, a5} THEN k2 ELSE k1]
=============================================================================
