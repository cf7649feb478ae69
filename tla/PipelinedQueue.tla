---------------------------- MODULE PipelinedQueue ----------------------------
(***************************************************************************)
(* The high-throughput settlement queue of one shard                       *)
(* (src/services/pipelined_settlement_queue.ts) with the relayers and      *)
(* nonces of src/services/pipelined_relayer_pool.ts and the batched        *)
(* broadcast of src/services/batch_network_provider.ts (mode "live").      *)
(*                                                                         *)
(* settle() is cut at its awaits on the storage and the signer, flushBatch *)
(* at its awaits on the network and on each save.  A request makes one     *)
(* call; two requests with the same payment are a payer who asks twice.    *)
(* The process may restart: the memory is lost, the records of SQLite and  *)
(* what was handed to the network are not.                                 *)
(*                                                                         *)
(* Abstracted: amounts, addresses, hashes, the mode "benchmark" (which     *)
(* neither signs nor saves) and payloads without a signature.              *)
(***************************************************************************)
EXTENDS Integers, Sequences, FiniteSets

CONSTANTS
  Requests,       \* calls of settle()
  Payments, Pay,  \* Pay[r]: the signed payment that r presents
  Relayers,       \* the number of relayers of the shard
  BatchSize, MaxQueueDepth,
  Backend,        \* "sqlite" or "memory"
  MaxCrashes      \* bound: restarts of the process

ASSUME PipelineAssumption ==
  /\ IsFiniteSet(Requests)
  /\ Pay \in [Requests -> Payments]
  /\ Relayers \in Nat \ {0}
  /\ BatchSize \in Nat \ {0}
  /\ MaxQueueDepth \in Nat \ {0}
  /\ Backend \in {"sqlite", "memory"}
  /\ MaxCrashes \in Nat

Relayer == 0 .. Relayers - 1

VARIABLES
  call,       \* call[r]: where the call is, or what its caller was told
  found,      \* found[r]: the idempotency lookup found a completed record
  via, nonce, \* the relayer and the nonce reserved for r
  batch,      \* batch[a]: the requests waiting in relayer a's batch
  timer,      \* timer[a]: relayer a's flush timer is set
  flights,    \* flushed batches: awaiting the network (saved = 0) or the
              \* save of item number saved
  pending,    \* pendingCount
  next, confirmed, inFlight,  \* the nonce tracker of each relayer
  turn,       \* roundRobinIndex
  wire,       \* payments handed to the network
  chain,      \* payments the network has taken
  records,    \* records[p]: how many records of p say "completed"
  crashes

cvars == <<call, found, via, nonce>>
qvars == <<batch, timer, flights, pending>>
nvars == <<next, confirmed, inFlight, turn>>
evars == <<wire, chain, records, crashes>>
vars == <<cvars, qvars, nvars, evars>>

Decided == {"ok", "saturated", "failed", "rejected", "lost"}
Stages == {"none", "lookup", "signing", "batched", "flushed"} \cup Decided
Inside == {"lookup", "signing", "batched", "flushed"}

Items(s) == {s[i] : i \in 1 .. Len(s)}
Flights == [via : Relayer, items : Seq(Requests), saved : Nat]

PTypeOK ==
  /\ call \in [Requests -> Stages]
  /\ found \in [Requests -> BOOLEAN]
  /\ via \in [Requests -> Relayer]
  /\ nonce \in [Requests -> Nat]
  /\ batch \in [Relayer -> Seq(Requests)]
  /\ timer \in [Relayer -> BOOLEAN]
  /\ flights \in SUBSET Flights
  /\ pending \in Nat
  /\ next \in [Relayer -> Nat]
  /\ confirmed \in [Relayer -> Nat]
  /\ inFlight \in [Relayer -> Nat]
  /\ turn \in Relayer
  /\ wire \in SUBSET Payments
  /\ chain \in SUBSET Payments
  /\ records \in [Payments -> Nat]
  /\ crashes \in 0 .. MaxCrashes

Init ==
  /\ call = [r \in Requests |-> "none"]
  /\ found = [r \in Requests |-> FALSE]
  /\ via = [r \in Requests |-> 0]
  /\ nonce = [r \in Requests |-> 0]
  /\ batch = [a \in Relayer |-> <<>>]
  /\ timer = [a \in Relayer |-> FALSE]
  /\ flights = {}
  /\ pending = 0
  /\ next = [a \in Relayer |-> 0]
  /\ confirmed = [a \in Relayer |-> 0]
  /\ inFlight = [a \in Relayer |-> 0]
  /\ turn = 0
  /\ wire = {}
  /\ chain = {}
  /\ records = [p \in Payments |-> 0]
  /\ crashes = 0

-----------------------------------------------------------------------------
(* settle().                                                               *)

Tell(r, verdict) == call' = [call EXCEPT ![r] = verdict]

\* settle() up to the await on getBySignatureHash.
Arrive(r) ==
  /\ call[r] = "none"
  /\ Tell(r, "lookup")
  /\ found' = [found EXCEPT ![r] = records[Pay[r]] > 0]
  /\ UNCHANGED <<via, nonce, qvars, nvars, evars>>

\* The lookup found a completed record: its hash is the answer.
Known(r) ==
  /\ call[r] = "lookup" /\ found[r]
  /\ Tell(r, "ok")
  /\ UNCHANGED <<found, via, nonce, qvars, nvars, evars>>

Saturated(r) ==
  /\ call[r] = "lookup" /\ ~found[r]
  /\ pending >= MaxQueueDepth
  /\ Tell(r, "saturated")
  /\ UNCHANGED <<found, via, nonce, qvars, nvars, evars>>

\* getNextRelayerForShard, reserveNonce, and the signer is asked.
Reserve(r) ==
  /\ call[r] = "lookup" /\ ~found[r]
  /\ pending < MaxQueueDepth
  /\ Tell(r, "signing")
  /\ via' = [via EXCEPT ![r] = turn]
  /\ turn' = (turn + 1) % Relayers
  /\ nonce' = [nonce EXCEPT ![r] = next[turn]]
  /\ next' = [next EXCEPT ![turn] = @ + 1]
  /\ inFlight' = [inFlight EXCEPT ![turn] = @ + 1]
  /\ UNCHANGED <<found, qvars, confirmed, evars>>

\* The signer throws out of settle: the nonce stays reserved.
SignFails(r) ==
  /\ call[r] = "signing"
  /\ Tell(r, "rejected")
  /\ UNCHANGED <<found, via, nonce, qvars, nvars, evars>>

\* flushBatch up to the call of sendTransactions.
Flush(a, items) ==
  /\ batch' = [batch EXCEPT ![a] = <<>>]
  /\ timer' = [timer EXCEPT ![a] = FALSE]
  /\ flights' = flights \cup {[via |-> a, items |-> items, saved |-> 0]}
  /\ wire' = wire \cup {Pay[r] : r \in Items(items)}
  /\ call' = [r \in Requests |-> IF r \in Items(items) THEN "flushed" ELSE call[r]]

\* The signature is there: enqueueItem, which flushes a full batch at once and
\* sets the timer for any other.
SignReturns(r) ==
  LET a == via[r]
      items == Append(batch[a], r)
  IN /\ call[r] = "signing"
     /\ pending' = pending + 1
     /\ IF Len(items) >= BatchSize
        THEN Flush(a, items)
        ELSE /\ batch' = [batch EXCEPT ![a] = items]
             /\ timer' = [timer EXCEPT ![a] = TRUE]
             /\ Tell(r, "batched")
             /\ UNCHANGED <<flights, wire>>
     /\ UNCHANGED <<found, via, nonce, nvars, chain, records, crashes>>

TimerFires(a) ==
  /\ timer[a]
  /\ IF batch[a] = <<>>
     THEN /\ timer' = [timer EXCEPT ![a] = FALSE]
          /\ UNCHANGED <<call, batch, flights, wire>>
     ELSE Flush(a, batch[a])
  /\ UNCHANGED <<found, via, nonce, pending, nvars, chain, records, crashes>>

-----------------------------------------------------------------------------
(* flushBatch() after the broadcast.                                       *)

\* The network takes a payment it was given, whether or not anyone still
\* waits for the answer.
NetworkTakes(p) ==
  /\ p \in wire \ chain
  /\ chain' = chain \cup {p}
  /\ UNCHANGED <<cvars, qvars, nvars, wire, records, crashes>>

ConfirmWatermark(a, n) ==
  /\ confirmed' = [confirmed EXCEPT ![a] = IF n >= @ THEN n + 1 ELSE @]
  /\ inFlight' = [inFlight EXCEPT ![a] = next[a] - confirmed'[a]]

\* RelayerPool.confirmNonce
Confirm(a, n) ==
  /\ confirmed' = [confirmed EXCEPT ![a] = IF n >= @ THEN n + 1 ELSE @]
  /\ inFlight' = [inFlight EXCEPT ![a] = IF @ > 0 THEN @ - 1 ELSE 0]

\* Storage.save of a completed record under a fresh id: SQLite keeps one row
\* per signature, the memory backend one record per id.
Save(p) ==
  records' = [records EXCEPT ![p] = IF Backend = "sqlite" THEN 1 ELSE @ + 1]

\* One more round of the loop over the items: confirm the nonce, then save.
SaveItem(f, i) ==
  /\ Confirm(f.via, nonce[f.items[i]])
  /\ Save(Pay[f.items[i]])
  /\ flights' = (flights \ {f}) \cup {[f EXCEPT !.saved = i]}

LandOne(f) ==
  /\ flights' = flights \ {f}
  /\ pending' = IF pending >= 1 THEN pending - 1 ELSE 0

\* The finally clause.
Land(f) ==
  /\ flights' = flights \ {f}
  /\ pending' = IF pending >= Len(f.items) THEN pending - Len(f.items) ELSE 0

\* sendTransactions returned a hash for every transaction.
SendReturns(f) ==
  /\ f \in flights /\ f.saved = 0
  /\ \A r \in Items(f.items) : Pay[r] \in chain
  /\ SaveItem(f, 1)
  /\ UNCHANGED <<cvars, batch, timer, pending, next, turn, wire, chain, crashes>>

\* The save of an item returned: answer its caller, go on with the next item.
SaveReturns(f) ==
  /\ f \in flights /\ f.saved > 0
  /\ Tell(f.items[f.saved], "ok")
  /\ IF f.saved < Len(f.items)
     THEN /\ SaveItem(f, f.saved + 1)
          /\ UNCHANGED pending
     ELSE /\ Land(f)
          /\ UNCHANGED <<confirmed, inFlight, records>>
  /\ UNCHANGED <<found, via, nonce, batch, timer, next, turn, wire, chain, crashes>>

\* The catch clause: whoever was answered keeps that answer (a promise is
\* resolved once), all others are told of the failure.
Fail(undecided) ==
  call' = [r \in Requests |-> IF r \in undecided THEN "failed" ELSE call[r]]

SendFailsSilently(f) ==
  /\ f \in flights /\ f.saved = 0
  /\ Land(f)
  /\ UNCHANGED <<cvars, batch, timer, nvars, evars>>

SendFailsReleasing(f) ==
  /\ f \in flights /\ f.saved = 0
  /\ Fail(Items(f.items))
  /\ Land(f)
  /\ next' = [next EXCEPT ![f.via] = IF @ > Len(f.items) THEN @ - Len(f.items) ELSE 0]
  /\ UNCHANGED <<found, via, nonce, batch, timer, confirmed, inFlight, turn, evars>>

\* The broadcast threw: refused, timed out or without a hash for each
\* transaction.  The network may have taken any of them, or may do so later.
SendFails(f) ==
  /\ f \in flights /\ f.saved = 0
  /\ Fail(Items(f.items))
  /\ Land(f)
  /\ UNCHANGED <<found, via, nonce, batch, timer, nvars, evars>>

SaveThrowsAll(f) ==
  LET i == f.saved + 1 IN
  /\ f \in flights /\ i <= Len(f.items)
  /\ \A r \in Items(f.items) : Pay[r] \in chain
  /\ Confirm(f.via, nonce[f.items[i]])
  /\ Fail(Items(f.items))
  /\ Land(f)
  /\ UNCHANGED <<found, via, nonce, batch, timer, next, turn, evars>>

\* The save of item i throws after its nonce was confirmed; the items before
\* it have been answered, item i - 1 in the same run of the loop.
SaveThrows(f) ==
  LET i == f.saved + 1 IN
  /\ f \in flights /\ i <= Len(f.items)
  /\ \A r \in Items(f.items) : Pay[r] \in chain
  /\ Confirm(f.via, nonce[f.items[i]])
  /\ call' = [r \in Requests |->
                IF r \in Items(SubSeq(f.items, i, Len(f.items))) THEN "failed"
                ELSE IF i > 1 /\ r = f.items[i - 1] THEN "ok" ELSE call[r]]
  /\ Land(f)
  /\ UNCHANGED <<found, via, nonce, batch, timer, next, turn, evars>>

\* The process restarts: calls break off, the memory is empty and every
\* tracker starts again from nonce 0.
Crash ==
  /\ crashes < MaxCrashes
  /\ crashes' = crashes + 1
  /\ call' = [r \in Requests |-> IF call[r] \in Inside THEN "lost" ELSE call[r]]
  /\ batch' = [a \in Relayer |-> <<>>]
  /\ timer' = [a \in Relayer |-> FALSE]
  /\ flights' = {}
  /\ pending' = 0
  /\ next' = [a \in Relayer |-> 0]
  /\ confirmed' = [a \in Relayer |-> 0]
  /\ inFlight' = [a \in Relayer |-> 0]
  /\ turn' = 0
  /\ records' = IF Backend = "sqlite" THEN records ELSE [p \in Payments |-> 0]
  /\ UNCHANGED <<found, via, nonce, wire, chain>>

Settle(r) ==
  Arrive(r) \/ Known(r) \/ Saturated(r) \/ Reserve(r) \/ SignReturns(r) \/ SignFails(r)

FlightEnds(f) == SendReturns(f) \/ SendFails(f) \/ SaveReturns(f) \/ SaveThrows(f)

Next ==
  \/ \E r \in Requests : Settle(r)
  \/ \E a \in Relayer : TimerFires(a)
  \/ \E p \in Payments : NetworkTakes(p)
  \/ \E f \in flights : FlightEnds(f)
  \/ Crash
\* The storage answers, the signer returns or throws, timers fire, fetch
\* returns or times out (AbortSignal.timeout), a save returns or throws.
Fairness ==
  /\ \A r \in Requests :
       /\ WF_vars(Known(r) \/ Saturated(r) \/ Reserve(r))
       /\ WF_vars(SignReturns(r) \/ SignFails(r))
       /\ WF_vars(\E f \in flights : r \in Items(f.items) /\ FlightEnds(f))
  /\ \A a \in Relayer : WF_vars(TimerFires(a))

PSpec == Init /\ [][Next]_vars
FairSpec == PSpec /\ Fairness

-----------------------------------------------------------------------------
(* Properties.                                                             *)

InBatches == UNION {Items(batch[a]) : a \in Relayer}
InFlights == UNION {Items(f.items) : f \in flights}

\* pendingCount is the number of requests in batches and flushed batches,
\* whichever way the batches end: it neither leaks capacity nor admits more
\* (pipelined_settlement_queue.ts:147, 243).
PendingExact == pending = Cardinality(InBatches \cup InFlights)

\* A waiting request is where its relayer's timer or a flush in progress will
\* find it, and no request is broadcast in two batches
\* (pipelined_settlement_queue.ts:164-194).
NoneStranded ==
  /\ \A r \in Requests :
       /\ call[r] = "batched" =>
            r \in Items(batch[via[r]]) /\ timer[via[r]] /\ r \notin InFlights
       /\ call[r] = "flushed" => r \in InFlights \ InBatches
  /\ \A f, g \in flights : f # g => Items(f.items) \cap Items(g.items) = {}
  /\ \A a \in Relayer : Len(batch[a]) < BatchSize

OnTheWay == {"signing", "batched", "flushed"}

\* r holds a nonce of this run of the process.  The calls of a failed batch keep
\* theirs, as the network may still take their transactions; after a restart an
\* answer no longer tells in which run it was given.
Reserved(r) ==
  \/ call[r] \in OnTheWay
  \/ crashes = 0 /\ ~found[r] /\ call[r] \in {"ok", "failed", "rejected"}

\* Within one run of the process no nonce of a relayer is held by two calls or
\* handed out again, whichever signatures, broadcasts and saves fail: a failure
\* gives no nonce back that the network may still take ("zero collisions",
\* pipelined_relayer_pool.ts:27).  Nothing is said of a restart, after which
\* every relayer starts again from nonce 0 (pipelined_relayer_pool.ts:49).
NoCollisions ==
  \A r \in Requests : Reserved(r) =>
    /\ nonce[r] < next[via[r]]
    /\ \A s \in Requests \ {r} :
         Reserved(s) /\ via[s] = via[r] => nonce[s] # nonce[r]

Unconfirmed(a) ==
  {r \in Requests : call[r] = "signing" /\ via[r] = a} \cup Items(batch[a]) \cup
  UNION {Items(SubSeq(f.items, f.saved + 1, Len(f.items))) : f \in {g \in flights : g.via = a}}

\* The tracker never reports more room than a relayer has: whatever fails,
\* inFlightCount covers every request whose nonce is not confirmed, and no
\* nonce is confirmed before it is reserved (pipelined_relayer_pool.ts:65-84).
TrackerCovers ==
  \A a \in Relayer :
    /\ Cardinality(Unconfirmed(a)) <= inFlight[a]
    /\ confirmed[a] <= next[a]

\* A caller is told of success only when its payment is recorded, and a record
\* is only made of what the network took (pipelined_settlement_queue.ts:197-228).
SuccessIsSettled ==
  /\ \A r \in Requests : call[r] = "ok" => records[Pay[r]] > 0
  /\ \A p \in Payments : records[p] > 0 => p \in chain

\* A batch that fails half way does not tell a caller of failure whose own
\* payment it has recorded: when there is a record, another call of the same
\* payment made it (pipelined_settlement_queue.ts:199-241).
FailureIsHonest ==
  \A r \in Requests : call[r] = "failed" /\ records[Pay[r]] > 0 =>
    \E s \in Requests \ {r} : Pay[s] = Pay[r] /\ call[s] \in {"flushed", "ok", "lost"}

\* Every call gets an answer, whatever the signer, the network and the storage
\* do (pipelined_settlement_queue.ts:75-162).
EveryCallAnswered ==
  \A r \in Requests : call[r] \in Inside ~> call[r] \in Decided
=============================================================================
