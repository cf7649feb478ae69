---------------------------- MODULE ServerShutdown ----------------------------
(***************************************************************************)
(* The graceful shutdown of src/bin/server.ts over the settlement queue:   *)
(* drain the queue, clear it, close the facilitator, close the gateway,    *)
(* close the storage and exit.  Both HTTP servers accept calls until they  *)
(* are closed, the drain included; close() resolves once the server's      *)
(* last connection has its answer.                                         *)
(***************************************************************************)
EXTENDS SettlementQueue

CONSTANTS
  ViaGateway   \* requests that come through the gateway, not the facilitator

ASSUME ShutdownAssumption == ViaGateway \subseteq Requests

VARIABLES
  phase,   \* where shutdown() is
  owed     \* calls waiting when drain() was called and not answered since

dvars == <<qvars, phase, owed>>

Phases == {"serving", "draining", "closingFacilitator", "closingGateway", "exited"}

DTypeOK ==
  /\ TypeOK
  /\ phase \in Phases
  /\ owed \in SUBSET Requests

DInit == Init /\ phase = "serving" /\ owed = {}

Waiting == {r \in Requests : call[r] = "waiting"}

\* Whether the server of request r still accepts connections.
Accepting(r) ==
  \/ phase \in {"serving", "draining"}
  \/ phase = "closingFacilitator" /\ r \in ViaGateway

\* The last drainResolver was called: shutdown() resumes before any other
\* callback runs.
DrainNotAwaited == phase = "draining"
DrainResolved == phase = "draining" /\ drainers = {}

Submit(r) ==
  /\ Accepting(r) /\ ~DrainResolved
  /\ Saturated(r) \/ \E w \in Workers : Enqueue(r, w)
  /\ UNCHANGED <<phase, owed>>

Work(w) ==
  /\ phase # "exited" /\ ~DrainResolved
  /\ \/ \E o \in Outcomes : AttemptReturns(w, o)
     \/ Wake(w)
  /\ owed' = {r \in owed : call'[r] = "waiting"}
  /\ UNCHANGED phase

\* SIGTERM or SIGINT: shutdown() up to its first await.
Terminate ==
  /\ phase = "serving"
  /\ Drain
  /\ phase' = "draining"
  /\ owed' = Waiting

\* The drain is over: clear the queue and stop the facilitator.
ClearAndClose ==
  /\ DrainResolved
  /\ Clear
  /\ phase' = "closingFacilitator"
  /\ UNCHANGED owed

FacilitatorClosed ==
  /\ phase = "closingFacilitator"
  /\ Waiting \subseteq ViaGateway
  /\ phase' = "closingGateway"
  /\ UNCHANGED <<qvars, owed>>

GatewayClosed ==
  /\ phase = "closingGateway"
  /\ Waiting = {}
  /\ phase' = "exited"
  /\ UNCHANGED <<qvars, owed>>

DNext ==
  \/ \E r \in Requests : Submit(r)
  \/ \E w \in Workers : Work(w)
  \/ Terminate \/ ClearAndClose \/ FacilitatorClosed \/ GatewayClosed

\* Attempts return and timers fire; the steps of shutdown() are callbacks that
\* Node runs.  Nothing obliges callers to call, nor the signal to come.
DFairness ==
  /\ \A w \in Workers : WF_dvars(Work(w))
  /\ WF_dvars(ClearAndClose \/ FacilitatorClosed \/ GatewayClosed)

DSpec == DInit /\ [][DNext]_dvars /\ DFairness

-----------------------------------------------------------------------------
(* Properties.                                                             *)

\* pendingCount, which backpressure and routing rely on, never exceeds what a
\* worker has and falls short of it by at most the one request that was being
\* settled when clear() ran (settlement_queue.ts:104-158, 208-211).
PendingAccounting ==
  \A w \in Workers : /\ pending[w] <= Load(w)
                     /\ Load(w) <= pending[w] + 1
                     /\ phase \in {"serving", "draining"} => pending[w] = Load(w)

\* Backpressure: never more than maxQueueSize requests in the queue, or, once
\* clear() has run, than that and one per worker (settlement_queue.ts:390-404).
LoadBounded ==
  SumFunction([w \in Workers |-> Load(w)])
    <= MaxQueueSize + IF phase \in {"serving", "draining"} THEN 0
                      ELSE Cardinality(Workers)

\* A call waits for exactly one worker, and until the queue is cleared a waiting
\* call is never lost (settlement_queue.ts:104-158).
OneWorkerPerCall ==
  \A r \in Requests : /\ Cardinality(Place(r)) <= 1
                      /\ Place(r) # {} => call[r] = "waiting"
                      /\ phase \in {"serving", "draining"} /\ call[r] = "waiting"
                           => Place(r) # {}

\* When drain() lets the shutdown go on, every call that was waiting when it
\* was called has its answer (settlement_queue.ts:463-474, "Waits until all
\* currently enqueued settlement requests ... have completed").
DrainWaits == DrainResolved => owed = {}

\* A call waiting before the shutdown begins is answered, shutdown or not
\* (settlement_queue.ts:104-192, bin/server.ts:219-231).
EarlyCallsAnswered ==
  \A r \in Requests :
    (call[r] = "waiting" /\ phase = "serving") ~> call[r] # "waiting"

\* Every call that was accepted gets an answer, during a graceful shutdown too
\* (bin/server.ts:218-231).
AcceptedCallsAnswered == EveryCallAnswered
=============================================================================
