---------------------------- MODULE MCPaidRequest ----------------------------
(* Instance of PaidRequest: two calls that overlap, two deployments.       *)
EXTENDS PaidRequest

MCCalls == 1 .. 2
MCPrices == [c \in MCCalls |-> 2]
MCGateways ==
  {[upstream |-> "handler", timed |-> FALSE, pool |-> TRUE, provider |-> FALSE,
    limited |-> FALSE],
   [upstream |-> "gemini", timed |-> FALSE, pool |-> TRUE, provider |-> TRUE,
    limited |-> TRUE]}

\* The payment of these clients, and what differs from it in one thing.
Right ==
  [accepted |-> "match", chain |-> TRUE, gas |-> "bounded", window |-> "open",
   value |-> FALSE, data |-> "transfer", asset |-> TRUE, receiver |-> TRUE,
   funded |-> TRUE, signed |-> TRUE, guardian |-> "none", relayer |-> "shard",
   cosigned |-> "none"]
MCPresented ==
  {Right, [Right EXCEPT !.accepted = "other"], [Right EXCEPT !.window = "expired"],
   [Right EXCEPT !.value = TRUE], [Right EXCEPT !.data = "call"],
   [Right EXCEPT !.asset = FALSE], [Right EXCEPT !.receiver = FALSE],
   [Right EXCEPT !.funded = FALSE], [Right EXCEPT !.signed = FALSE],
   [Right EXCEPT !.guardian = "forged"]}
=============================================================================
