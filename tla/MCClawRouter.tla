----------------------------- MODULE MCClawRouter -----------------------------
(* An instance of ClawRouter for TLC: two requests of one client.             *)
EXTENDS ClawRouter

CONSTANTS r1, r2, c1, p1, p2

MCClientOf == [r \in Requests |-> c1]
MCSaved == [c \in Clients |-> 1]
MCOnePrice == [p \in Offered |-> 2]
=============================================================================
