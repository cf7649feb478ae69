---------------------------- MODULE CircuitBreaker ----------------------------
(***************************************************************************)
(* ToolCircuitBreaker (src/gateway/tool_circuit_breaker.ts): the entry of  *)
(* one tool and what each method makes of it.  The clock is abstracted to  *)
(* whether nextAttemptTime is still ahead.                                 *)
(***************************************************************************)
EXTENDS Naturals

CONSTANT Threshold   \* failureThreshold

ASSUME ThresholdAssumption == Threshold \in Nat \ {0}

\* consecutiveFailures is only compared with the threshold: it is kept up to it.
Breaker == [state : {"CLOSED", "OPEN", "HALF_OPEN"}, failures : 0 .. Threshold,
            cooling : BOOLEAN]

\* getOrCreate
Fresh == [state |-> "CLOSED", failures |-> 0, cooling |-> FALSE]

\* getState: an open breaker whose cooldown is over lets calls through again.
GetState(b) ==
  IF b.state = "OPEN" /\ ~b.cooling THEN [b EXCEPT !.state = "HALF_OPEN"] ELSE b

CanExecute(b) == GetState(b).state # "OPEN"

\* mutant: a success closes the breaker and leaves the count.
RecordSuccessCounting(b) == [b EXCEPT !.state = "CLOSED", !.cooling = FALSE]

RecordSuccess(b) == Fresh

RecordFailure(b) ==
  LET failures == IF b.failures < Threshold THEN b.failures + 1 ELSE Threshold
  IN  IF b.state = "HALF_OPEN" \/ failures = Threshold
      THEN [state |-> "OPEN", failures |-> failures, cooling |-> TRUE]
      ELSE [b EXCEPT !.failures = failures]

\* The clock passes nextAttemptTime.
CooledDown(b) == [b EXCEPT !.cooling = FALSE]

\* A breaker is closed exactly while fewer than Threshold failures in a row have
\* been recorded, however late the results of its calls come.
Consistent(b) == b.state = "CLOSED" <=> b.failures < Threshold
=============================================================================
