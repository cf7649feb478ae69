----------------------------- MODULE MCTollbooth -----------------------------
(* Instance of TollboothServer: r1 and r2 name the same agent, r3 another, and *)
(* the address p1 is the beginning of p2.                                      *)
EXTENDS TollboothServer, TLC

CONSTANTS r1, r2, r3

MCAgentOf == [r \in Requests |-> IF r = r3 THEN "a2" ELSE "a1"]
MCPrefixes == {<<"p1", "p1">>, <<"p2", "p2">>, <<"p1", "p2">>}

Symmetry == Permutations({r1, r2})
=============================================================================
