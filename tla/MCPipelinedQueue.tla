-------------------------- MODULE MCPipelinedQueue --------------------------
(* Instances of PipelinedQueue for TLC: r1 and r2 present the same payment. *)
EXTENDS PipelinedQueue

CONSTANTS r1, r2, r3, p1, p2

MCPay == [r \in Requests |-> IF r = r3 THEN p2 ELSE p1]
=============================================================================
