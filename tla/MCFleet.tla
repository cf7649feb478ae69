------------------------------- MODULE MCFleet -------------------------------
(* Instance of Fleet: two relayers, two steps of the bot that uses the     *)
(* first.                                                                  *)
EXTENDS Fleet

MCBotOf == [s \in Steps |-> "b1"]
MCRelayerOf == [b \in {"b1"} |-> 1]
=============================================================================
