---------------------------- MODULE PaymentLedger ----------------------------
(***************************************************************************)
(* What the facilitator promises about a signed payment, whatever queues,  *)
(* workers, retries and restarts lie behind it:                            *)
(*   - a payment is recorded as settled only after the network took it,    *)
(*     and once recorded it stays recorded;                                *)
(*   - a caller is told "ok" only for a payment that is recorded.          *)
(* Module Settlement implements this specification when all the requests   *)
(* of a payment go to the same worker.                                     *)
(***************************************************************************)
CONSTANTS Requests, Payments, Pay

VARIABLES
  accepted,   \* payments the network has taken
  recorded,   \* payments recorded as settled
  call        \* what the caller of each request slot sees

lvars == <<accepted, recorded, call>>

Init ==
  /\ accepted = {}
  /\ recorded = {}
  /\ call = [r \in Requests |-> "none"]

\* A caller presents a payment, or is turned away at the door.
Ask(r) ==
  /\ call[r] # "waiting"
  /\ \E c \in {"waiting", "saturated"} : call' = [call EXCEPT ![r] = c]
  /\ UNCHANGED <<accepted, recorded>>

Accept(p) ==
  /\ accepted' = accepted \cup {p}
  /\ UNCHANGED <<recorded, call>>

Record(p) ==
  /\ p \in accepted
  /\ recorded' = recorded \cup {p}
  /\ UNCHANGED <<accepted, call>>

Answer(r) ==
  /\ call[r] = "waiting"
  /\ \E c \in {"ok", "failed"} :
       /\ c = "ok" => Pay[r] \in recorded
       /\ call' = [call EXCEPT ![r] = c]
  /\ UNCHANGED <<accepted, recorded>>

\* The process restarts: connections break, the books stay.
Restart ==
  /\ call' = [r \in Requests |-> IF call[r] = "waiting" THEN "none" ELSE call[r]]
  /\ UNCHANGED <<accepted, recorded>>

Next ==
  \/ \E r \in Requests : Ask(r) \/ Answer(r)
  \/ \E p \in Payments : Accept(p) \/ Record(p)
  \/ Restart

Spec == Init /\ [][Next]_lvars
=============================================================================
