--------------------------- MODULE SettlementQueue ---------------------------
(***************************************************************************)
(* The shard-partitioned settlement queue of                               *)
(* src/services/settlement_queue.ts: the class SettlementQueue, which      *)
(* applies backpressure and routes a request to a ShardWorker, and the     *)
(* class ShardWorker, which settles its requests one at a time, in order,  *)
(* retrying transient failures.                                            *)
(*                                                                         *)
(* Node runs one callback at a time, so an action is everything the code   *)
(* does between two awaits.  What one call of settler.settle does is left  *)
(* open here (AttemptReturns takes any outcome); module Settlement         *)
(* composes these actions with the settler, the storage and the network.   *)
(*                                                                         *)
(* A request is a slot for callers: once answered it may be used again, so *)
(* the model has no bound on the number of calls, only on how many are     *)
(* outstanding together.  Payload, shard arithmetic and back-off times are *)
(* abstracted; the processed/failed statistics are left out.               *)
(***************************************************************************)
EXTENDS Integers, Sequences, FiniteSets, Functions

CONSTANTS
  Workers,       \* the ShardWorkers of all shards, numbered in array order
  Requests,      \* the caller slots
  Pool,          \* Pool[r]: the workers of the shard of r's sender
  Named,         \* Named[r]: the worker of the relayer r's transaction names
  NoWorker,      \* Named[r] when it names none, or none of that shard
  NoRequest,     \* current[w] of an idle worker
  MaxRetries,    \* config.maxRetries
  MaxQueueSize   \* config.maxQueueSize

ASSUME QueueAssumption ==
  /\ Workers \subseteq Nat /\ IsFiniteSet(Workers)
  /\ Pool \in [Requests -> (SUBSET Workers) \ {{}}]
  /\ Named \in [Requests -> Workers \cup {NoWorker}]
  /\ \A r \in Requests : Named[r] \in Pool[r] \cup {NoWorker}
  /\ NoWorker \notin Workers
  /\ NoRequest \notin Requests
  /\ MaxRetries \in Nat
  /\ MaxQueueSize \in Nat

VARIABLES
  queue,      \* ShardWorker.queue: requests waiting for the worker
  current,    \* the request in executeWithRetry; NoRequest iff ~isProcessing
  attempt,    \* executeWithRetry's attempt counter; 0 when idle
  asleep,     \* TRUE between two attempts, in executeWithRetry's sleep
  pending,    \* ShardWorker.pendingCount
  drainers,   \* workers holding a drainResolver of an outstanding drain()
  call        \* what the caller of each slot sees

qvars == <<queue, current, attempt, asleep, pending, drainers, call>>

Outcomes == {"success", "transient", "permanent"}
CallStates == {"none", "waiting", "ok", "failed", "saturated"}

TypeOK ==
  /\ queue \in [Workers -> Seq(Requests)]
  /\ current \in [Workers -> Requests \cup {NoRequest}]
  /\ attempt \in [Workers -> 0..MaxRetries + 1]
  /\ asleep \in [Workers -> BOOLEAN]
  /\ pending \in [Workers -> Nat]
  /\ drainers \in SUBSET Workers
  /\ call \in [Requests -> CallStates]

Init ==
  /\ queue = [w \in Workers |-> <<>>]
  /\ current = [w \in Workers |-> NoRequest]
  /\ attempt = [w \in Workers |-> 0]
  /\ asleep = [w \in Workers |-> FALSE]
  /\ pending = [w \in Workers |-> 0]
  /\ drainers = {}
  /\ call = [r \in Requests |-> "none"]

Busy(w) == current[w] # NoRequest

-----------------------------------------------------------------------------
(* Routing and backpressure: SettlementQueue.enqueue.                      *)

TotalPendingQueuedOnly == SumFunction([w \in Workers |-> Len(queue[w])])
TotalPending == SumFunction(pending)

\* The first of the least-loaded workers, as workers.reduce finds it.
LeastLoaded(S) ==
  {w \in S : \A v \in S : \/ pending[w] < pending[v]
                          \/ pending[w] = pending[v] /\ w <= v}

\* The worker of the relayer the transaction names if this shard has it,
\* otherwise the least-loaded worker of the shard.
Route(r) == IF Named[r] # NoWorker THEN {Named[r]} ELSE LeastLoaded(Pool[r])

\* A call over the limit is answered at once.
Saturated(r) ==
  /\ call[r] # "waiting"
  /\ TotalPending >= MaxQueueSize
  /\ call' = [call EXCEPT ![r] = "saturated"]
  /\ UNCHANGED <<queue, current, attempt, asleep, pending, drainers>>

\* ShardWorker.enqueue: count, push, and start at once when the worker is idle.
Enqueue(r, w) ==
  /\ call[r] # "waiting"
  /\ TotalPending < MaxQueueSize
  /\ w \in Route(r)
  /\ call' = [call EXCEPT ![r] = "waiting"]
  /\ pending' = [pending EXCEPT ![w] = @ + 1]
  /\ IF Busy(w)
     THEN /\ queue' = [queue EXCEPT ![w] = Append(@, r)]
          /\ UNCHANGED <<current, attempt>>
     ELSE /\ current' = [current EXCEPT ![w] = r]
          /\ attempt' = [attempt EXCEPT ![w] = 1]
          /\ UNCHANGED queue
  /\ UNCHANGED <<asleep, drainers>>

-----------------------------------------------------------------------------
(* The worker loop: processNext and executeWithRetry.                      *)

\* The attempt in progress of worker w.
Attempting(w) == Busy(w) /\ ~asleep[w]

GivesUp(w, outcome) == outcome # "transient" \/ attempt[w] > MaxRetries

\* processNext, called by the finally block of the one before: start the next
\* request or, when nothing is left, let the drain() callers go.
ProcessNext(w) ==
  IF queue[w] # <<>>
  THEN /\ current' = [current EXCEPT ![w] = Head(queue[w])]
       /\ queue' = [queue EXCEPT ![w] = Tail(@)]
       /\ attempt' = [attempt EXCEPT ![w] = 1]
       /\ UNCHANGED drainers
  ELSE /\ current' = [current EXCEPT ![w] = NoRequest]
       /\ attempt' = [attempt EXCEPT ![w] = 0]
       /\ drainers' = IF pending'[w] = 0 THEN drainers \ {w} ELSE drainers
       /\ UNCHANGED queue

FinishCounted(w, answer) ==
  /\ call' = [call EXCEPT ![current[w]] = answer]
  /\ asleep' = [asleep EXCEPT ![w] = FALSE]
  /\ UNCHANGED pending
  /\ ProcessNext(w)

\* The end of processNext: answer, uncount (Math.max(0, ...)), go on.
Finish(w, answer) ==
  /\ call' = [call EXCEPT ![current[w]] = answer]
  /\ pending' = [pending EXCEPT ![w] = IF @ = 0 THEN 0 ELSE @ - 1]
  /\ asleep' = [asleep EXCEPT ![w] = FALSE]
  /\ ProcessNext(w)

\* settler.settle returned (or threw): answer the caller, or sleep and retry.
AttemptReturns(w, outcome) ==
  /\ Attempting(w)
  /\ IF GivesUp(w, outcome)
     THEN Finish(w, IF outcome = "success" THEN "ok" ELSE "failed")
     ELSE /\ asleep' = [asleep EXCEPT ![w] = TRUE]
          /\ UNCHANGED <<queue, current, attempt, pending, drainers, call>>

\* The back-off timer of executeWithRetry fires: the next attempt.
Wake(w) ==
  /\ asleep[w]
  /\ asleep' = [asleep EXCEPT ![w] = FALSE]
  /\ attempt' = [attempt EXCEPT ![w] = @ + 1]
  /\ UNCHANGED <<queue, current, pending, drainers, call>>

-----------------------------------------------------------------------------
(* drain() and clear().                                                    *)

DrainQueuedOnly ==
  /\ drainers = {}
  /\ drainers' = {w \in Workers : queue[w] # <<>>}
  /\ UNCHANGED <<queue, current, attempt, asleep, pending, call>>

\* SettlementQueue.drain: wait for every worker that is not idle; one
\* outstanding call is modelled.
Drain ==
  /\ drainers = {}
  /\ drainers' = {w \in Workers : queue[w] # <<>> \/ pending[w] # 0 \/ Busy(w)}
  /\ UNCHANGED <<queue, current, attempt, asleep, pending, call>>

\* SettlementQueue.clear: forget what is queued.  The request being settled
\* goes on; the promises of the forgotten ones are never resolved.
Clear ==
  /\ queue' = [w \in Workers |-> <<>>]
  /\ pending' = [w \in Workers |-> 0]
  /\ UNCHANGED <<current, attempt, asleep, drainers, call>>

-----------------------------------------------------------------------------
Next ==
  \/ \E r \in Requests : Saturated(r)
  \/ \E r \in Requests, w \in Workers : Enqueue(r, w)
  \/ \E w \in Workers, o \in Outcomes : AttemptReturns(w, o)
  \/ \E w \in Workers : Wake(w)
  \/ Drain

\* The network calls of the settler time out, so an attempt returns; and
\* Node fires every timer.
WorkerFairness ==
  \A w \in Workers : /\ WF_qvars(\E o \in Outcomes : AttemptReturns(w, o))
                     /\ WF_qvars(Wake(w))

Spec == Init /\ [][Next]_qvars /\ WorkerFairness

-----------------------------------------------------------------------------
(* Properties; those about clear() and drain() are in ServerShutdown.      *)

\* The requests worker w answers for, and where a request is.
Load(w) == Len(queue[w]) + (IF Busy(w) THEN 1 ELSE 0)
Place(r) == {w \in Workers : current[w] = r \/ \E i \in DOMAIN queue[w] : queue[w][i] = r}

\* Every call that is not turned away is answered, however many calls keep
\* coming (settlement_queue.ts:104-192).
EveryCallAnswered ==
  \A r \in Requests : call[r] = "waiting" ~> call[r] # "waiting"

\* A transaction that names a relayer of its shard is settled by that relayer's
\* worker and by no other (settlement_queue.ts:413-426).
NamedRelayerKept ==
  \A r \in Requests : Named[r] # NoWorker => Place(r) \subseteq {Named[r]}
=============================================================================
