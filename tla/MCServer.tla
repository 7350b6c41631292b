------------------------------- MODULE MCServer -------------------------------
\* Two addresses that share a place of the table.
EXTENDS Server

CONSTANTS a1, a2, k1

MCHashKey == [a \in Addr |-> k1]
MCMaxReplies == [a \in Addr |-> IF a = a1 THEN 2 ELSE 1]
MCMaxSent == [a \in Addr |-> IF a = a1 THEN 3 ELSE 2]
===============================================================================
