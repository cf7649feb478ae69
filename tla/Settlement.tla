------------------------------ MODULE Settlement ------------------------------
(***************************************************************************)
(* Settling a signed payment: the queue of module SettlementQueue, the     *)
(* settler (src/services/settler.ts) that each attempt of a worker runs,   *)
(* the settlement records (src/storage/) and the network.                  *)
(*                                                                         *)
(* SettlerService.settle is cut at its awaits on the verifier, the signer  *)
(* and the network.  Both storage backends do their work synchronously     *)
(* when called, so a record is written in the same step as the decision    *)
(* that led to it; what may happen between two steps of one worker is any  *)
(* step of the others.                                                     *)
(*                                                                         *)
(* Abstracted: amounts, addresses and error texts (an error is transient   *)
(* or permanent for the queue's classifier); the verifier and the network  *)
(* may give any answer at any time.                                        *)
(***************************************************************************)
EXTENDS SettlementQueue

CONSTANTS
  Payments,      \* signed payments, one per signature hash
  Pay,           \* Pay[r]: the payment request r presents
  Ids,           \* record ids (UUIDs)
  NoRow, NoId,   \* no record / no record id
  Backend,       \* "sqlite" or "memory"
  MayCrash,      \* whether the process may restart
  StorageFaults  \* whether a storage write may throw

ASSUME SettlementAssumption ==
  /\ Pay \in [Requests -> Payments]
  /\ NoId \notin Ids
  /\ NoRow \notin [id : Ids, status : {"pending", "completed", "failed"}]
  /\ Backend \in {"sqlite", "memory"}
  /\ MayCrash \in BOOLEAN
  /\ StorageFaults \in BOOLEAN

VARIABLES
  stage,    \* stage[w]: where the settle() of worker w is
  rid,      \* rid[w]: the id of existing, then recordId
  signer,   \* signer[w]: the worker whose relayer key signed, or NoWorker
  row,      \* row[p]: the record getBySignatureHash finds
  orphans,  \* memory backend: records the signature index lost sight of
  chain     \* payments the network has accepted

svars == <<stage, rid, signer, row, orphans, chain>>
vars == <<qvars, svars>>

Stages == {"idle", "verifying", "signing", "sending", "accepted",
           "settled", "failed", "stale"}
Statuses == {"pending", "completed", "failed"}
Rows == [id : Ids, status : Statuses]
Orphans == [pay : Payments, id : Ids, status : Statuses]

STypeOK ==
  /\ stage \in [Workers -> Stages]
  /\ rid \in [Workers -> Ids \cup {NoId}]
  /\ signer \in [Workers -> Workers \cup {NoWorker}]
  /\ row \in [Payments -> Rows \cup {NoRow}]
  /\ orphans \in SUBSET Orphans
  /\ chain \in SUBSET Payments

SInit ==
  /\ Init
  /\ stage = [w \in Workers |-> "idle"]
  /\ rid = [w \in Workers |-> NoId]
  /\ signer = [w \in Workers |-> NoWorker]
  /\ row = [p \in Payments |-> NoRow]
  /\ orphans = {}
  /\ chain = {}

Settled(p) == row[p] # NoRow /\ row[p].status = "completed"

-----------------------------------------------------------------------------
(* The settlement records.                                                 *)

\* ISettlementStorage.save.  SQLite keeps one row per signature: a save under
\* a new id replaces the row.  The memory backend keeps the old record under
\* its id and only moves the signature index.
Save(p, id, status) ==
  /\ row' = [row EXCEPT ![p] = [id |-> id, status |-> status]]
  /\ orphans' =
       IF Backend = "memory"
       THEN {o \in orphans : o.id # id} \cup
            {[pay |-> p, id |-> row[p].id, status |-> row[p].status] :
               x \in {y \in {row[p]} : y # NoRow /\ y.id # id}}
       ELSE {}

\* ISettlementStorage.updateStatus: nothing happens when the id is gone.
UpdateStatus(p, id, status) ==
  /\ row' = IF row[p] # NoRow /\ row[p].id = id
            THEN [row EXCEPT ![p].status = status] ELSE row
  /\ orphans' = {IF o.id = id THEN [o EXCEPT !.status = status] ELSE o : o \in orphans}

\* list(): every record the storage holds, found by its signature or not.
Listed ==
  {[pay |-> p, id |-> row[p].id, status |-> row[p].status] :
     p \in {q \in Payments : row[q] # NoRow}} \cup orphans

\* getSummary, the counts by status; the revenue sums the completed ones.
Summary ==
  [s \in Statuses |-> Cardinality({x \in Listed : x.status = s})]

UsedIds == {rid[w] : w \in Workers} \cup {o.id : o \in orphans}
             \cup {row[p].id : p \in {q \in Payments : row[q] # NoRow}}

RecordIdsAlwaysNew(w) == Ids \ UsedIds

\* existing?.id ?? crypto.randomUUID()
RecordIds(w) == IF rid[w] # NoId THEN {rid[w]} ELSE Ids \ UsedIds

-----------------------------------------------------------------------------
(* The steps of SettlerService.settle.                                     *)

At(w, s) == stage[w] = s
Goto(w, s) == stage' = [stage EXCEPT ![w] = s]
PayOf(w) == Pay[current[w]]

BeginUnchecked(w, r) ==
  /\ Goto(w, "verifying")
  /\ rid' = [rid EXCEPT ![w] = IF row[Pay[r]] = NoRow THEN NoId ELSE row[Pay[r]].id]
  /\ signer' = [signer EXCEPT ![w] = NoWorker]
  /\ UNCHANGED <<row, orphans, chain>>

\* settle(r) up to the call of the verifier: a completed record is the answer.
Begin(w, r) ==
  /\ Goto(w, IF Settled(Pay[r]) THEN "settled" ELSE "verifying")
  /\ rid' = [rid EXCEPT ![w] = IF row[Pay[r]] = NoRow THEN NoId ELSE row[Pay[r]].id]
  /\ signer' = [signer EXCEPT ![w] = NoWorker]
  /\ UNCHANGED <<row, orphans, chain>>

\* The worker has no request left.
Rest(w) ==
  /\ Goto(w, "idle")
  /\ rid' = [rid EXCEPT ![w] = NoId]
  /\ signer' = [signer EXCEPT ![w] = NoWorker]
  /\ UNCHANGED <<row, orphans, chain>>

\* The verifier accepts: save the record as pending.
VerifyValid(w) ==
  /\ At(w, "verifying")
  /\ \E id \in RecordIds(w) :
       /\ rid' = [rid EXCEPT ![w] = id]
       /\ Save(PayOf(w), id, "pending")
  /\ Goto(w, "signing")
  /\ UNCHANGED <<qvars, signer, chain>>

\* The verifier refuses: save the record as failed.  The refusal is transient
\* for the queue when the simulation blamed the nonce or a stale block.
VerifyInvalid(w) ==
  /\ At(w, "verifying")
  /\ \E id \in RecordIds(w) :
       /\ rid' = [rid EXCEPT ![w] = id]
       /\ Save(PayOf(w), id, "failed")
  /\ \E s \in {"failed", "stale"} : Goto(w, s)
  /\ UNCHANGED <<qvars, signer, chain>>

\* The relayer pool: the relayer a transaction names, the next one of its shard's
\* round robin, which other callers advance too, or none in an empty shard.
Signers(w) ==
  IF Named[current[w]] # NoWorker THEN {Named[current[w]]}
  ELSE Pool[current[w]] \cup {NoWorker}

SignRoundRobin(w) ==
  /\ At(w, "signing")
  /\ \E s \in Pool[current[w]] : signer' = [signer EXCEPT ![w] = s]
  /\ Goto(w, "sending")
  /\ UNCHANGED <<qvars, rid, row, orphans, chain>>

\* The transaction is built, signed by a relayer or by none, and handed to the
\* network.
Sign(w) ==
  /\ At(w, "signing")
  /\ \E s \in Signers(w) : signer' = [signer EXCEPT ![w] = s]
  /\ Goto(w, "sending")
  /\ UNCHANGED <<qvars, rid, row, orphans, chain>>

\* Building, signing or the optional simulation failed.
PrepareFails(w) ==
  /\ At(w, "signing")
  /\ UpdateStatus(PayOf(w), rid[w], "failed")
  /\ Goto(w, "failed")
  /\ UNCHANGED <<qvars, rid, signer, chain>>

\* The network takes the transaction; its reply is still on the way.
NetworkAccepts(w) ==
  /\ At(w, "sending")
  /\ chain' = chain \cup {PayOf(w)}
  /\ Goto(w, "accepted")
  /\ UNCHANGED <<qvars, rid, signer, row, orphans>>

ReplyUnrecorded(w) ==
  /\ At(w, "accepted")
  /\ Goto(w, "settled")
  /\ UNCHANGED <<qvars, rid, signer, row, orphans, chain>>

\* sendTransaction returned the hash: complete the record.
ReplyArrives(w) ==
  /\ At(w, "accepted")
  /\ UpdateStatus(PayOf(w), rid[w], "completed")
  /\ Goto(w, "settled")
  /\ UNCHANGED <<qvars, rid, signer, chain>>

BroadcastFailureIgnored(w) ==
  /\ stage[w] \in {"sending", "accepted"}
  /\ UpdateStatus(PayOf(w), rid[w], "completed")
  /\ Goto(w, "failed")
  /\ UNCHANGED <<qvars, rid, signer, chain>>

\* sendTransaction threw, because the network refused or because its reply was
\* lost; also the catch clause when completing the record throws.
BroadcastFails(w) ==
  /\ stage[w] \in {"sending", "accepted"}
  /\ UpdateStatus(PayOf(w), rid[w], "failed")
  /\ Goto(w, "failed")
  /\ UNCHANGED <<qvars, rid, signer, chain>>

\* A storage write throws out of settle: nothing is written, and the queue
\* classifies the exception.
StorageThrows(w) ==
  /\ StorageFaults
  /\ stage[w] \in {"verifying", "signing", "sending", "accepted"}
  /\ \E s \in {"failed", "stale"} : Goto(w, s)
  /\ UNCHANGED <<qvars, rid, signer, row, orphans, chain>>

SettlerStep(w) ==
  \/ VerifyValid(w) \/ VerifyInvalid(w) \/ Sign(w) \/ PrepareFails(w)
  \/ NetworkAccepts(w) \/ ReplyArrives(w) \/ BroadcastFails(w) \/ StorageThrows(w)

-----------------------------------------------------------------------------
(* The queue and the settler together.                                     *)

OutcomeOf(w) == CASE At(w, "settled") -> "success"
                  [] At(w, "stale") -> "transient"
                  [] OTHER -> "permanent"

Arrive(r) ==
  \/ /\ Saturated(r)
     /\ UNCHANGED svars
  \/ \E w \in Workers :
       /\ Enqueue(r, w)
       /\ IF Busy(w) THEN UNCHANGED svars ELSE Begin(w, r)

\* settle() returned to the worker, which answers and starts the next request
\* in the same step, or goes to sleep before the next attempt.
Return(w) ==
  /\ stage[w] \in {"settled", "failed", "stale"}
  /\ AttemptReturns(w, OutcomeOf(w))
  /\ IF ~GivesUp(w, OutcomeOf(w)) THEN UNCHANGED svars
     ELSE IF queue[w] # <<>> THEN Begin(w, Head(queue[w]))
     ELSE Rest(w)

Retry(w) == Wake(w) /\ Begin(w, current[w])

\* The records a storage starts with: SQLite opens the table it left behind.
Reopened == IF Backend = "memory" THEN [p \in Payments |-> NoRow] ELSE row

\* The process restarts: what is in memory is lost, callers lose their
\* connection, SQLite and the network keep what they have.
Crash ==
  /\ MayCrash
  /\ queue' = [w \in Workers |-> <<>>]
  /\ current' = [w \in Workers |-> NoRequest]
  /\ attempt' = [w \in Workers |-> 0]
  /\ asleep' = [w \in Workers |-> FALSE]
  /\ pending' = [w \in Workers |-> 0]
  /\ drainers' = {}
  /\ call' = [r \in Requests |-> IF call[r] = "waiting" THEN "none" ELSE call[r]]
  /\ stage' = [w \in Workers |-> "idle"]
  /\ rid' = [w \in Workers |-> NoId]
  /\ signer' = [w \in Workers |-> NoWorker]
  /\ row' = Reopened
  /\ orphans' = {}
  /\ UNCHANGED chain

SNext ==
  \/ \E r \in Requests : Arrive(r)
  \/ \E w \in Workers : SettlerStep(w) \/ Return(w) \/ Retry(w)
  \/ Crash

\* Verifier, signer and network calls return or time out, so a worker that has
\* something to do does it.
SFairness ==
  \A w \in Workers : WF_vars(SettlerStep(w) \/ Return(w)) /\ WF_vars(Retry(w))

SSpec == SInit /\ [][SNext]_vars /\ SFairness

-----------------------------------------------------------------------------
(* Properties.                                                             *)

\* All the requests of a payment go to one worker: its transaction names a
\* relayer of the shard, or the shard has a single worker.
Pinned ==
  /\ \A r \in Requests : Named[r] # NoWorker \/ \E w \in Workers : Pool[r] = {w}
  /\ \A r, s \in Requests :
       Pay[r] = Pay[s] => Named[r] = Named[s] /\ Pool[r] = Pool[s]

\* A record says "completed" only for a payment the network took, whatever
\* replies are lost, writes fail or workers race (settler.ts:265-304).
CompletedOnChain ==
  /\ \A p \in Payments : Settled(p) => p \in chain
  /\ \A o \in orphans : o.status = "completed" => o.pay \in chain

\* While a worker is between saving its pending record and updating it, the
\* record is there, under the id it remembers and still pending: the update
\* cannot be lost and nobody else is settling the payment (settler.ts:130-304).
InFlight(w) == stage[w] \in {"signing", "sending", "accepted"}
OwnRecord ==
  \A w \in Workers :
    InFlight(w) => row[PayOf(w)] = [id |-> rid[w], status |-> "pending"]

\* A caller is told of success only when the record says so, and it still does
\* long after (settler.ts:87-95, 269-279).
SuccessIsRecorded ==
  \A r \in Requests : call[r] = "ok" => Settled(Pay[r])

\* Once a payment is recorded as completed no later call, retry or restart
\* takes that back (settler.ts:83-95, "for idempotency").
CompletedKept == [][\A p \in Payments : Settled(p) => Settled(p)']_vars

\* getSummary counts a payment once, under one status, and as revenue only when
\* the network took it: the memory backend, which lists records by their id, never
\* holds a second one of a signature (memory_storage.ts:18-22, 95-128).
SingleRecord ==
  /\ Summary["completed"] <= Cardinality(chain)
  /\ Cardinality(Listed) <= Cardinality({x.pay : x \in Listed})

\* No two workers have a transaction signed by the same relayer on its way to
\* the network ("mutex per relayer wallet", settlement_queue.ts:60-63).
OneSettlementPerRelayer ==
  \A v, w \in Workers :
    /\ v # w
    /\ stage[v] \in {"sending", "accepted"} /\ stage[w] \in {"sending", "accepted"}
    /\ signer[v] # NoWorker
    => signer[v] # signer[w]

\* A pending record does not stay so: some step of settle decides it, unless
\* the process stops or a write fails (settler.ts:130-304).
PendingDecided ==
  \A p \in Payments :
    (row[p] # NoRow /\ row[p].status = "pending")
      ~> ~(row[p] # NoRow /\ row[p].status = "pending")

\* The settlement system keeps the promises of the payment ledger.
Ledger == INSTANCE PaymentLedger
            WITH accepted <- chain, recorded <- {p \in Payments : Settled(p)}
LedgerSpec == Ledger!Spec
=============================================================================
