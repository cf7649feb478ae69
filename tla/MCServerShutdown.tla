--------------------------- MODULE MCServerShutdown ---------------------------
(* Instances of ServerShutdown for TLC: two workers, three caller slots, r3  *)
(* of another shard than r1 and r2.                                          *)
EXTENDS ServerShutdown, TLC

CONSTANTS r1, r2, r3

TwoShards == (r1 :> {1}) @@ (r2 :> {1}) @@ (r3 :> {2})
NamedNone == [r \in Requests |-> NoWorker]
=============================================================================
