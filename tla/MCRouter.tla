------------------------------ MODULE MCRouter -------------------------------
(* Instances of RouterServer for TLC.  Of the calls, r1 and r2 come from the  *)
(* same client.  Of the streams, the answers agree, one cuts another short,   *)
(* they diverge in the middle, or one is empty.                               *)
EXTENDS RouterServer

CONSTANTS r1, r2, c1, p1, p2, a, b, c, d

MCClientOf == [r \in Requests |-> c1]
MCSaved == [k \in Clients |-> 1]
MCListPrice == [p \in Offered |-> IF p = p2 THEN 2 ELSE 1]

Answers == {<<>>, <<a>>, <<a, b, c>>, <<a, b, d, c>>, <<d, a>>}

MCTexts == [Sources -> Answers]
=============================================================================
