---------------------------- MODULE MCSettlement ----------------------------
(* Instances of Settlement for TLC: two relayer workers of one shard, three *)
(* caller slots; r1 and r2 present the same payment.                        *)
EXTENDS Settlement, TLC

CONSTANTS r1, r2, r3, p1, p2

MCPay == [r \in Requests |-> IF r = r3 THEN p2 ELSE p1]
MCPool == [r \in Requests |-> Workers]

\* Every transaction names its relayer.
NamedEach == [r \in Requests |-> IF r = r3 THEN 2 ELSE 1]
=============================================================================
