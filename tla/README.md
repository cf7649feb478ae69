# Verification of the BlockRun MultiversX platform

TLA+ models of this repository's settlement core, of the services that sell
through it and of the clients that pay, checked with TLC on small instances and,
where it matters most, proved with TLAPS for every number of workers, callers and
payments.

Paths below are relative to the repository's root; `src/services/settler.ts:87`
is line 87 of that file. The machine-readable companion of this text is
`PROJECT.json`: components, runs, mutants, the map from definitions to source
lines, findings, hazards and theorems.

## 1. The system

BlockRun sells HTTP resources (LLM completions, MCP tool calls, crawled pages)
for micropayments. A client answers an HTTP 402 with a signed MultiversX
transaction; a *facilitator* verifies it, adds a relayer's signature and
broadcasts it. Everything runs in Node.js processes: one callback at a time, so
what the code does between two `await`s is atomic, and every `await` is a point
where any other callback may run.

### 1.1 Components, their state and their operations

| Component | Source | State | Operations | What must be right |
|---|---|---|---|---|
| Settlement queue | `src/services/settlement_queue.ts` | per worker: queue, running request, attempt, pending count, drain resolvers | enqueue, process next, retry with back-off, drain, clear | every call is answered; one request at a time per relayer; backpressure; drain waits for the right calls |
| Settler | `src/services/settler.ts` | none of its own; works on records and the network | settle = look up, verify, save pending, sign, broadcast, update | a record tells the truth about the chain; a payment is settled once; success is never taken back |
| Storage | `src/storage/*.ts` | one record per signature (SQLite) or per id with a signature index (memory) | save, update status, look up, sum | one record per payment |
| Server process | `src/bin/server.ts` | phase of the shutdown | start, SIGTERM/SIGINT | calls accepted are answered, records are complete when the process exits |
| Pipelined queue, relayer pool, batch provider | `src/services/pipelined_*.ts`, `batch_network_provider.ts` | batches and timers per relayer, pending count, nonce trackers | settle, enqueue, flush, reserve and confirm nonces | no nonce collisions, every caller answered honestly |
| Relayer pool | `src/services/relayer_pool.ts` | relayers of each shard, round-robin index | next relayer, relayer by address | the relayer signs what its worker settles |
| Verifier | `src/services/verifier.ts`, `src/utils/data_parser.ts` | none | verify | what is accepted pays the price to the right receiver |
| Gas sentinel and treasury | `src/services/relayer_gas_sentinel.ts`, `treasury_service.ts` | local nonce, busy flag, timer | check and top up | no gap, no double top-up, low relayers are refilled |
| Fleet | `src/services/fleet_service.ts` | runs per bot | execute a bot's step | a run that is reported left a payment |
| Circuit breaker | `src/gateway/tool_circuit_breaker.ts` | per tool: state, failures, time of the next attempt | may execute, record success or failure | opens at the threshold, probes after the cooldown, late results do not corrupt it |
| BlockRun gateway | `src/gateway/blockrun_gateway.ts` | rate-limit windows | chat, messages, relayer address, fleet steps | no inference without payment, no caller left waiting |
| MCP gateway and registry | `src/gateway/mcp_gateway.ts`, `src/services/mcp_*.ts` | tools, health, handlers, breakers | tools/call, resources/read, register, restart | a failing tool is not paid for; owners keep their tools |
| Claw router | `src/router/router_server.ts`, `two_phase_reconciler.ts` | credit per client | apply credit, reconcile | credit is neither made, spent twice nor lost |
| Provider selection, streaming | `src/router/*dispatcher.ts`, `live_stream_executor.ts`, `arbitrage_matrix.ts`, `sla_slasher.ts` | provider health, streams | dispatch, switch, slash | the stream the client sees is one answer |
| Tollbooth | `src/tollbooth/` | page cache, failure counts, DNS cache, address ranges, challenges, publishers | paid crawl, classify, report, verify a publisher | nothing stale is served, nobody is charged for what it has, publishers are who they say |
| Facilitator server | `src/server/facilitator_server.ts` | rate-limit windows | /verify, /settle | (through the queue and the verifier) |
| Clients | `src/client/blockrun_mvx_client.ts`, `python/blockrun_mvx/client.py`, `packages/client-sdk` | session spend, nonce, relayer address | ask, pay, retry, stream | nonces fit the account, limits hold for overlapping calls |
| The rest | keys, gas, merchants, utilities, web UI, scripts, benchmarks | - | - | see section 7 and `PROJECT.json` |

### 1.2 How they interact

Both HTTP servers and the in-process MCP gateway and tollbooth hand a signed
payment to the settlement queue. The queue picks a worker of the sender's shard;
the worker awaits `settler.settle`, which awaits the verifier (and through it
the network's simulation), the relayer's signer and the network, and writes the
record around them. The answer travels back through the promise of the caller.
At shutdown `src/bin/server.ts` drains and clears the queue and closes both
servers. Gateway, MCP gateway and tollbooth ask the verifier before they hand a
payment on; the MCP gateway runs the tool first and settles afterwards, the
gateway settles first. A client takes its nonces from its own count, from the
account, or from both; the daemons and the fleet's bots number transactions of
their own. Shared state: the storage (all workers, and other processes on the
same SQLite file), the round-robin index of the relayer pool, the workers'
pending counts, and the wallets' nonces on the chain.

### 1.3 What is hard

* Two workers settle the same signature; look-up and save are apart.
* The network takes a transaction and its reply is lost; a write fails after the
  broadcast; the process restarts in between.
* A retry runs over the record its predecessor left.
* `clear()` runs while a request is being settled; `drain()` while calls arrive.
* Nonces are reserved before what may fail and counted after what may be lost.
* Limits are checked before an `await` and accounted after it.
* A client gives up while the server goes on, and the payment is settled for nobody.
* An upstream answers a tool call that the executor has given up; the breaker hears
  of it in another state than the one it allowed the call in.
* Caches are filled by requests that overlap and end out of order.

`PROJECT.json` lists each hazard at its line with the properties that watch it.

## 2. Plan

The order the system was taken in, the most important behaviour first. A module
is written to be proved about as well as checked: constants with named
assumptions, one action per piece of code between two awaits, invariants as
conjunctions of named parts, no recursive operators.

| | Module(s) | Composes | Runs | Theorems in |
|---|---|---|---|---|
| A | `SettlementQueue`, `ServerShutdown`, `Settlement`, `PaymentLedger` | queue + shutdown; queue + settler + storage + network, against the ledger | `settlement_pinned`, `settlement_memory`, `shutdown`, `lost_calls` | `SettlementProofs` |
| B | `PipelinedQueue` | queue + relayer pool + batch provider | `pipelined` | `PipelinedQueueProofs` |
| C | `ClawRouter`, `FallbackStream`, `RouterServer` | router + reconciler + matrix + slasher; dispatcher + live executor | `router`, `challenge_honoured` | `RouterProofs` |
| D | `PaymentVerifier` | used by E, F and H | (in theirs) | `PaidRequestProofs` |
| E | `AgentClient`, `PaidRequest` | client + gateway + verifier + account | `paid_request` | `PaidRequestProofs` |
| F | `CircuitBreaker`, `McpGateway` | gateway + registry + executor + breaker + verifier | `mcp_gateway`, `erroneous_settlement` | `McpGatewayProofs` |
| G | `Treasury`, `Fleet` | funding daemon + network + bots | `fleet` | `FleetProofs` |
| H | `Tollbooth`, `BotIdentity`, `Publishers`, `TollboothServer` | pages + verifier + reporter; crawlers + DNS; publishers | `tollbooth` | `TollboothServerProofs` |

`SumProofs` has what A, C and E need to know of sums over a set. The proofs follow
the models: one module of theorems for each row, on the module that composes it.

What could follow: `PipelinedQueue` could be shown to implement `PaymentLedger` for
distinct payments.

## 3. The modules

### 3.1 SettlementQueue

`queue`, `current`, `attempt`, `asleep`, `pending`, `drainers` are the fields and
the loop variables of `ShardWorker`; `call` is what the holder of the promise
sees. The actions are the pieces of code between two awaits:

| Action | Code |
|---|---|
| `Saturated`, `Enqueue` | `SettlementQueue.enqueue` + `ShardWorker.enqueue` (and the first `processNext` when the worker is idle) |
| `AttemptReturns` | the return of `settler.settle`: answer, uncount and start the next request in the same step, or start the back-off sleep |
| `Wake` | the back-off timer |
| `Drain`, `Clear` | `drain()`, `clear()` |

`LeastLoaded` is the `reduce` over the workers, `Route` prefers the worker of the
relayer the transaction names. What an attempt returns is open here: success,
a transient or a permanent failure. A request is a *caller slot*: once answered
it may call again, so runs are unbounded in length and bounded only in how many
calls are outstanding together.

### 3.2 ServerShutdown

The queue plus `shutdown()` of `src/bin/server.ts`: drain, clear, close the
facilitator, close the gateway, exit. Both servers accept until closed, so calls
arrive (`Submit`) during the drain. `owed` is a history variable: the calls waiting when
`drain()` was called.

### 3.3 Settlement and PaymentLedger

`stage[w]` is where worker *w*'s `settle()` is (one stage per await), `rid[w]` the
record id it holds, `row[p]` what `getBySignatureHash` finds, `orphans` the records
the memory backend keeps when the index moves on, `chain` the payments the
network took. Both storage backends run synchronously inside the call, so a
record is written in the step that decides it. Network and verifier may answer
anything; `NetworkAccepts` and `ReplyArrives`/`BroadcastFails` are separate, which is
where a reply gets lost. `StorageThrows` and `Crash` are switched by constants.

`PaymentLedger` is the abstract specification: accepted payments, recorded
payments, callers; nothing about queues, retries or restarts. `Settlement`
implements it with `accepted <- chain` and `recorded <-` the payments whose row
is completed, provided all requests of a payment go to one worker (`Pinned`).

`Pinned` is how the deployed clients behave: `src/client/blockrun_mvx_client.ts:252`
asks for a relayer and puts it into the transaction. The code also accepts
transactions that name none; section 6 says what is lost then.

### 3.4 PipelinedQueue

The alternative queue that the tollbooth, the MCP gateway and the router can be
given. A call goes through the stages of `call[r]`: `lookup` (awaiting the storage),
`signing` (nonce reserved, awaiting the signer), `batched`, `flushed`, then its
answer. `flights` are the invocations of `flushBatch` in progress; `saved` is the
item whose save they await, 0 while they await the network.

| Action | Code |
|---|---|
| `Arrive`; `Known`, `Saturated`, `Reserve` | `settle()` up to, and after, the await on `getBySignatureHash` |
| `SignReturns`, `SignFails` | `settle()` after `sign()`, with all of `enqueueItem` |
| `TimerFires`, `Flush` | the timer's callback; `flushBatch` up to the broadcast |
| `SendReturns`, `SendFails`, `SaveReturns`, `SaveThrows` | `flushBatch` after each of its awaits, with `catch` and `finally` |
| `NetworkTakes` | the network, at any time after the batch was handed to it, also when nobody waits any more |
| `Crash` | a restart: trackers start from 0 again; SQLite's records stay |

`confirmNonce` keeps a watermark and a counter; both are kept as in the code,
with the clamp at zero. The nonces are the pool's bookkeeping: the transaction
carries the payer's nonce, so a nonce given up delays nothing on the chain, but
`inFlightCount` stays raised for good. `Reserved` are the calls that hold a nonce of
this run of the process: those on their way and, before the first restart, those
that were answered, because a batch that failed may still be taken. A restart gives
the same nonces out again (`registerRelayer` starts from 0); the code does not
prevent it and `NoCollisions` does not speak of it.

### 3.5 ClawRouter, RouterServer

The chat completions handler of the Claw router. A request runs the handler
without a payment and, after a 402, again with a payment of what was asked.
`stage[r]` is the await the handler is at; `credit` and `stored` are the reconciler's
map and its table; `listed`, `healthy` and `failures` the matrix and the slasher.

| Action | Code |
|---|---|
| `AskUnpaid`, `AskPaid` | the handler up to the 402, the `verify()` or the `dispatch()`: ranking, price, `applyCredit` |
| `VerifyReturns` | the amount against what is due, or any other reason to refuse |
| `DispatchReturns`, `DispatchFails` | a first chunk from some provider of the ranking, with `reportTtft`; or none, with `reportFailure` |
| `RatingReturns`, `SettleReturns` | the slasher's call of the chain; `settle()`, whose outcome the code ignores |
| `StreamEnds`, `StreamBreaks` | the end of the stream with `reconcile`; the break with `reportFailure` |
| `ReconcileThrows`, `ApplyThrows` | the write of a credit throws: inside the `try`, after the completion was delivered, or before any |
| `AnswerFailure`, `AnswerBroken` | the 502; and the 502 that cannot be sent any more |
| `IngestSpotPricing`, `Crash` | the price feed; a restart |

`AnswerBroken` ends the process: the headers are out when a stream breaks or the
credit of a delivered completion cannot be written, so `res.status(502).json` throws (`src/router/router_server.ts:401`), Express 4 does not
look at the promise of an async handler, nothing in `src/` handles rejected
promises, and Node 20 (`Dockerfile.clawrouter`) then exits. Every request being
handled goes down with it. A write that throws in `reconcile()`
(`src/router/router_server.ts:377`) has raised the credit in memory and not on disk
(`unbooked`), and its `catch` reports a failure of the primary provider, which did its
part: `BlameJustified` allows that one case and no other.

The router that `src/bin/claw_router.ts` builds has neither a settlement queue nor a
slasher; both are constants here, and the run takes the larger configuration.

`RouterServer` puts the handler and one stream (3.6) side by side. They share no
variable, since to the handler any provider may answer or break at any time, so a
behaviour shows one of them (`part`).

### 3.6 FallbackStream

One streamed completion inside the router. `src` is the source the current generator
reads (its provider or the backup), `inner` the executor's buffer and `outer` the
dispatcher's; `outer.seen` is what the caller was sent. `Chunk(n)` takes the next *n*
tokens through both buffers; `Breaks` and `Ends` are the error and the end of the
source; `EmptyResponse` and `TtftTimeout` happen before the first chunk only.
`CommonLen` is `getCommonPrefixLength`, and `Splice` the reference definition: what
the caller should end up with, computed from the whole texts instead of chunk by
chunk. `base` and `tried` are history variables.

### 3.7 PaymentVerifier, AgentClient, PaidRequest

`PaymentVerifier` is `verify()` as an operator: a payment is a record of what the
checks tell apart, `Verdict` the first check that objects. `Pays` says
independently of that order what a caller relies on, of the payment as `Decoded`:
data that is base64 text is judged by what it decodes to.

`AgentClient` is a library and a wallet: `lib` is the TypeScript client, the Python
client or the SDK, chosen once. A call goes through the awaits of its payment loop,
`phase[c]`; `nextNonce` is the client's count, `nonce[c]` what the call took of it.

| Action | Code |
|---|---|
| `Ask`, `AnsweredFree`, `Challenged` | the first request, its answer, the 402 with the limits on spending |
| `Resolve`, `ReadAccount` | `GET /relayer/address`; the account read of `getAccountNonce` |
| `TakeNonce`, `TakePythonNonce`, `TakeSdkNonce` | the count after that await, signing and the second request, for each library |
| `PaidChat`, `PaidStream`, `PaidFetch`, `PaidSdk`, `ReadBody` | the answer to the paid request, where each loop books the cost |
| `GiveUp` | the timeout of either request, or a connection that breaks |

The operations (`ExecuteWith402Payment`, `ChatStream`, `FetchWithPayment`, ...) are
the loops with the steps they have. `PaidRequest` adds the other side: `at[c]` is
the await of the gateway's handler (`Receive`, `Verify`, `Settle`, `Infer`; for the
SDK `EdgeReceive` and `OriginAnswers`), `count` its rate limiter, `acct`, `sent`
and `executed` the payer's account. The handler goes on when its client has left.
What arrives is any of `Presented`, a constant: the payments a client may send, right
or wrong. `verified[c]` is the payment that `verify()` found valid for the call; what
follows, the settlement and the inference, relies on it and not on the outcome of the
settlement, which the code does not look at (`blockrun_gateway.ts:930`). `unseen` is a
history variable: the most that calls which had passed the limits still had to book
when another one passed them.

### 3.8 CircuitBreaker, McpGateway

`CircuitBreaker` has the breaker's methods as functions on its record, with the
clock reduced to whether the cooldown is still ahead. `McpGateway` is the
marketplace around it: `tool` and `health` are rows of the database, `handler` and
`breaker` maps in memory, so `Restart` keeps the first two and rebuilds the others
the way `src/bin/mcp_server.ts` does. A call asks (`Pay`), is verified and starts
its execution (`VerifyReturns` with all of `executeTool`), and is settled
(`SettleReturns`). The executor's timer (`ExecutionTimesOut`) and the upstream
(`UpstreamReturns`) race: the breaker waits for the upstream also when the executor
no longer does, hence `inflight` beside `stage`. A body that breaks off or is no JSON
(`cut`) becomes an empty result without an error (`mcp_gateway.ts:729`) and is settled
like an answer: `SettledOnAnswer` says what the code keeps to, `NoErroneousSettlement`
what its comment promises. `Register` is the registration route with its rules about
owners.

### 3.9 Treasury, Fleet

`Treasury` is either funding daemon, `daemon`: a check reads the treasury's
account, walks over the relayers and sends refills (`StartCheck`, `Sync`,
`ReadBalance`, `SendReturns`). The daemons differ in one line, when the local nonce
moves on: before the refill is sent (service) or after the network replied
(sentinel). The network holds what it took in `pool` and executes it in nonce
order; `Fault` is a call that is lost, before or after it was taken. `Fleet` runs a
bot's steps (`AskForStep`, `BotReads`, `BotSends`, `Completes`) over the same
relayers, whose gas they use up.

### 3.10 Tollbooth, BotIdentity, Publishers, TollboothServer

`Tollbooth` is the route that takes every GET, cut at its awaits (`Classify`,
`Verify`, `OriginReads`, `FetchReturns`, `Charge` and `SettleReturns`), with
`markdownCache` and the abuse reporter. A client comes with or without an
If-None-Match. A page is whatever the origin answers, an error's body included. An
agent is what a request calls itself in a header that nobody checks, so failures are
counted for a name. The process ends when `verify()` throws or the feedback on an
agent is rejected (`ProcessEnds`): whoever waits is dropped, also between the
charge and the page. `BotIdentity` is `verifyBot` with its two DNS lookups and their
cache, and the merged address ranges. `Publishers` is the verifier of domains; an
address is searched for in a TXT record as the beginning of what stands there, so
which addresses begin with which others is a constant (`Prefixes`).
Time is kept as ages that a tick makes older, up to where nothing compares them any
more: unlike a clock this keeps the state finite. `TollboothServer` puts the three
side by side; as they share no variable, a behaviour shows one of them (`part`),
which TLC needs and the proofs do not.

## 4. The runs

| Run | Instance | Properties | Shows |
|---|---|---|---|
| `settlement_pinned` | 2 workers, 3 callers, 2 payments, 4 ids, limit 2, SQLite, restarts, storage faults, 1 retry | `SuccessIsRecorded`, `OneSettlementPerRelayer`, `CompletedKept`, `LedgerSpec` | success is told only of recorded payments, completed payments stay so, a relayer has one transaction on its way; refinement of the ledger |
| `settlement_memory` | memory backend, the same callers, restarts | `SingleRecord`, `CompletedOnChain`, `PendingDecided` | a payment is listed and summed once, records claim only what the network took, none stays pending |
| `shutdown` | 2 workers on 2 shards, 3 callers, limit 2, 2 retries | `PendingAccounting`, `DrainWaits`, `LoadBounded`, `EarlyCallsAnswered` | counts, drain waits for what it found, calls made before the signal are answered; the queue never exceeds its limit, plus one per worker after `clear()` |
| `pipelined` | 2 relayers, 3 callers, 2 payments, batches of 2, depth 2, SQLite, one restart | `PendingExact`, `NoCollisions`, `TrackerCovers`, `FailureIsHonest`, `EveryCallAnswered` | pending count exact, no nonce given out twice in one run of the process, the tracker never under-counts, answers agree with records, every call is answered |
| `router` | 2 requests of one client with old credit, 2 providers with 2 prices, limit 2, queue and slasher, failing writes, restarts; and 3 providers, two with a backup, every assignment of 5 answers | `CreditSound`, `BlameJustified`, `CallsEnd`, `OneAnswer`, `LastResort`, `StreamsEnd` | no credit is made or spent twice, and none that was written is lost by a restart; only a provider that let a request down is blamed, or the primary of one whose credit could not be written; every call ends; a stream is one answer without repetition or gaps whatever breaks where, fails only after every provider, and ends |
| `paid_request` | 2 overlapping calls of price 2, per-call and session limit 2, three libraries, two deployments of the gateway, 10 payments: the right one and 9 that differ from it in one thing | `NoncesFit`, `SpendKept`, `ServedIsVerified`, `CallsEnd`, `PaymentsMove` | nonces are neither shared, overtaken nor left behind a gap; a session spends its limit and what its calls could not see of one another; only what the verifier took is settled and served; both sides come to an end; payments are executed |
| `mcp_gateway` | 3 calls, a builtin and a registered tool, 2 endpoints, threshold 2, one registration, one restart | `BreakersSound`, `SettledOnAnswer`, `RegistrySound`, `OwnerKept`, `EverythingEnds` | breakers count what happened and do not stay half open; executions that time out or are seen to fail are not settled; endpoints, health and owners are kept |
| `fleet` | 2 relayers, either daemon, 2 faults, 1 restart, 2 drains, 2 steps of one bot | `NoncesSound`, `RunsArePaid`, `NoOverfunding`, `GasArrives` | the sentinel leaves no gap and refills once per shortage; the service numbers apart; reported runs left a payment; gas arrives |
| `tollbooth` | 3 requests in the names of 2 agents, one change of page, times to live of 2 ticks, window 1, threshold 2; 3 classifications, lookups of 1 tick; 2 publishers, one's address the beginning of the other's, 2 checks, 1 token | `ServerSound`, `ReportsEarned`, `PublishersProved`, `NothingStale` | what the cache serves is no older than promised, nobody is charged before the page is there or for one it has; a report has its threshold of refusals within the window, none of them reported before; crawlers and publishers are who they say, as far as prefixes of addresses tell |
| `lost_calls` | calls during the drain | `AcceptedCallsAnswered` | violated: section 6 |
| `challenge_honoured` | one price, no restarts | `ChallengeHonoured` | violated: section 6 |
| `erroneous_settlement` | one call, one registration, one restart | `NoErroneousSettlement` | violated: section 6 |

A property such as `ServerSound` or `BreakersSound` is a conjunction of named parts,
the module's type invariant among them.

Bounds. Two workers and three callers are the smallest instance in which a
worker has a request running, another queued, and a second worker competes; with
two payments and two of the callers sharing one, duplicates and unrelated
payments both occur, and a limit of two lets the queue fill up. Four record ids are
one more than can be alive at once. Retries are bounded by `maxRetries`, as in the
code. In `pipelined`, three calls make a full batch, a batch that waits for its
timer, a flight that overlaps another and a batch that fails half way; each request
calls once, two requests of one payment being the payer who asks again. In
`router` two requests of one client overlap in every way; its old credit of 1
lets both partly and fully covered prices occur, and a cost above the price does
too. Of its streams, a chain of three lets a replacement break while it is held
back; the answers are equal, extend or cut one another, diverge in the middle or are
empty, with chunks of every size. In `paid_request` the account starts at nonce 1,
above the clients' own count of 0, two calls of 2 against a session of 2 make the
second exceed it unless they overlap, when they book 4 (the bound is tight, so one
unit more would be seen), and a rate limit of one request refuses
whatever overlaps; data that is base64 text is not among its payments and is left to
the theorem; one deployment has a handler that may hang and no provider, the
other Gemini, a provider and the limiter. In `mcp_gateway` three calls are two to
open a breaker and one that is late. In `fleet` two drains and two faults let a
refill be lost and asked for again while the other relayer runs dry; `MaxNonce`
stops the service, whose refills behind a gap would go on for ever. In `tollbooth`
times to live of two ticks and a window of one separate fresh, just expired and
long expired, two requests in one name and one in another show that neither counts
for the other; the second publisher is enough to mix proofs up. `CHECK_DEADLOCK
FALSE` is said where the process exits (shutdown) or the callers, each of which
calls once, have come to an end (all others but the settlement runs).

Fairness. An attempt returns (network calls have timeouts:
`src/services/batch_network_provider.ts:42`, the SDK's provider), timers fire, and
Node runs every callback that is ready: weak fairness per worker for
`AttemptReturns` and `Wake`, per settler step, and for the steps of `shutdown()`.
In `PipelinedQueue`: lookups, signers and saves return or throw, timers fire, and
`fetch` returns or is aborted (`batch_network_provider.ts:100`).
In `RouterServer`: providers send, end, fail or run into `fetch`'s own timeouts, and
the timer of the first chunk fires; weak fairness is for the part as a whole, as each
request comes to an end after a bounded number of steps.
In `PaidRequest` weak fairness is per call, for the disjunction of what is owed to
it: the client's steps once it has asked (its two requests have timeouts,
`blockrun_mvx_client.ts:315` and 421; the SDK's have none, so it is owed nothing
while it listens), the gateway's steps (a handler only where `upstreamTimeoutMs`
bounds it) and the network's execution. In `McpGateway`: the executor's timer and
those behind the verifier, the settlement and the breaker's signal; a handler of
the server itself has none. In `Fleet`: the check's timer and its calls, execution,
and the steps of a bot that was asked. Nothing obliges a caller to call, the signal
to come, the network to fail or a process to crash.
`Tollbooth` has no liveness: no timer bounds its fetch of the origin, so a request
may wait for ever and the code justifies no fairness for it.

Timing. Two assumptions about time stand in guards. `Treasury.Quiet`: the network
executes what it can within the daemon's interval of a minute.
`BotIdentity.LookupTime`: a DNS lookup comes to an end within some bound, which is
the resolver's own; `NothingStale` promises what DNS said at most that much before
the entry was made.

## 5. What is proved

TLAPS checks the following for every value of the constants, under the named
assumptions on them only: any number of workers, callers, payments, calls, tools
and requests.

* `SettlementProofs`, the queue. The inductive invariant `QInv`: routing is respected
  (`QRouted`), no request is held twice (`QPlaced`), whoever is held waits
  (`QWaiting`), an idle worker has nothing to do (`QIdle`), attempts are counted
  (`QAttempts`). Type correctness alone is not inductive: that `attempt` stays
  within `maxRetries + 1` needs that only a worker with an attempt left sleeps. One
  lemma per action, so that the compositions can cite them. Theorems
  `QueueTypeSafe`, `QueueSafe`, `NamedRelayerSafe`.
* `SettlementProofs`, the shutdown. `QInv` plus `Held` (before `clear()`, whoever waits is
  held) and `OwedHeld` (during the drain, what is owed is held by a worker whose
  resolver has not been called). `LoadBounded` compares two sums over the workers:
  what is held is counted up to one request per worker, and the count never passes
  the limit (`PendingBounded`), since a step adds one request at most and only below
  it. Theorems `ShutdownTypeSafe`, `PendingSafe`, `OneWorkerSafe`, `BackpressureSafe`,
  `DrainSafe`.
* `SettlementProofs`, the settler. `GInv`, for any backend and routing: `QInv`, types, `Linked`
  (stage against queue and chain), `OneOwner` (a record id belongs to one payment;
  without it an update could complete somebody else's orphan) and
  `CompletedOnChain`. `PInv`, for `Pinned` routing: what a worker knows about its
  record at each stage. That two busy workers never settle the same payment
  (`OneWorkerPerPayment`) follows from `QRouted`. Theorems `SettlementTypeSafe`,
  `CompletedSafe`; under `Pinned` and SQLite `OwnRecordSafe`, `SuccessSafe`,
  `RelayerSafe`, `KeptSafe` and `ImplementsLedger`. `BooksInv` does without SQLite:
  a worker that waits for the verifier remembers the record its payment has
  (`Remembers`), so that it saves under that id and orphans none; what is listed are
  then the rows, one for each payment. Theorem `SingleSafe`, under `Pinned` only.
* `PipelinedQueueProofs`. `PipeInv`: `PlaceInv` (`BatchInv`: a batch holds distinct
  batched requests of its relayer, is not full and has its timer; `FlightInv`: a
  flight's requests are answered before the item being saved and wait from there
  on; `Apart`), `NoCollisions` (which is inductive because only a call on its way moves
  and a failure gives no nonce back), and `RecordInv` (what a flight has saved is recorded
  and taken; `MakerInv`: every record has a call that accounts for it, which is why
  a failure told to anyone else is honest). That the requests of a batch are
  distinct is needed: otherwise a request already answered could be failed again.
  Theorems `PipelinedTypeSafe`, `PipelinedInv`, `StrandedSafe`, `CollisionSafe`,
  `HonestSafe`, and, with SQLite or without restarts, `SuccessSettledSafe`. The counts
  are proved on top of it. The pending count is the size of a set that every action
  changes by the items it takes or gives back, which uses that flights are `Apart`
  and their items distinct (`PendingExactSafe`). The tracker covers the requests that
  are `Due`: on their way, and not those being saved, whose nonce is confirmed
  already. They include what the property counts, but are told from the calls instead
  of the batches, so that a step that only moves requests leaves them as they are. That
  the items of a flight are all of one relayer (`FlightVia`) is needed (`TrackerSafe`).
* `PaidRequestProofs`, the verifier. `ValidPays`: whatever the pool has and the simulation
  says, a payment that is accepted pays, unless its data is base64 text (section 6);
  `ValidIsRelayable`: its gas is bounded where a relayer pays for it.
* `PaidRequestProofs`, clients and gateway. `CallInv`: types; `NonceInv`, that the client's count is ahead
  of every nonce in use and no two calls share one (`Counting`), that what a call was
  told of the account is not ahead of it (`Told`), that the account only moved on by
  counted payments (`Caused`), and that every number between the account and the
  count is some call's (`Gapless`); and `Paying`, that where the server is with a
  payment its call has made it, and that past the verifier it holds a payment the
  verifier took (`verified`). `Told`
  and `Caused` are what makes the rest inductive: without `Told` the count could jump
  over numbers no call holds, without `Caused` a nonce could be taken that the
  account has passed. Theorems `NoncesSafe`, and `ServedSafe`, which cites
  `ValidPays` and is for every set of payments presented, base64 text included: it says
  that what was taken pays as decoded. `SpendSafe` needs more than the state remembers: who has booked its
  cost is not seen in every phase. `Money` therefore holds the spend between two sums
  that are seen, over the calls that passed the check and may still book (`Passed`:
  spend and their prices are within the limit and its overshoot) and over those that
  must have booked (`Booked`), with `unseen` as the overshoot; `Marked` tells paid calls
  from free ones.
* `McpGatewayProofs`. `BreakerInv` (every breaker is closed below the threshold and
  only there; a half-open one has a call in flight: `ToldBreaker`, that no result
  leaves a breaker half open, is the lemma), `CallInv` (`CallsFit`: what is running
  has no result and is not settled, what is settled or about to be has a result
  in which the gateway saw no error; `HealthCounts`, with the cardinalities of the calls that have
  finished) and `RegistryInv`. Theorems `BreakersSafe`, `SettlementsAnswered`,
  `RegistrySafe`, and `OwnersSafe`: a builtin tool falls back to
  the merchant pool at a restart, and nothing else takes a tool from its owner.
* `TollboothServerProofs`. `PagesInv` (an entry of the cache is not younger than the
  news that its page was replaced, which needs the same of every fetch that has
  read its page, `ReadFresh`, and that a page still to come was never replaced,
  `NotGone`, and that who is about to pay does not have the page, `NewsOnly`),
  `ReportsInv` (`CountsRefusals`: an entry counts refusals of its agent that are no older
  than the entry and were not reported, which is why a report has its threshold within
  the window), `IdInv` (what DNS confirmed was true when it was
  asked, `ConfirmedLately`, and is kept no longer, `KeptLately`) and `PubInv`
  (whatever a check has heard the domain has shown). Theorems `ServerSafe`,
  `ReportsSafe`, `PublishersSafe`, and `FreshSafe` for a DNS time to live above zero.
* `RouterProofs`, the calls. `RInv`: `Handling` (what the handler knows at each of its
  awaits: a ranking, and from the dispatch on a payment of what is due) and
  `Balanced`: a client's credit and what its requests gained is within what it had
  and paid. A request gains from the moment it takes credit, not when it is served:
  the sum over served requests alone, which the property states, would lose the
  credit of a request on its way, and is not inductive. Theorems
  `CreditSafe`, and `BlameSafe`, an action property.
* `RouterProofs`, the streams. `StreamInv` says of a buffer what it was fed with and in
  front of what (`Kept`): while it holds back, the text so far is no longer than what
  the reader had; afterwards the reader has the splice of the two. The same of the
  executor's buffer in front of a backup (`BackupKept`), whose output (`Given`) feeds
  the dispatcher's. Chunk boundaries do not matter because `Kept` speaks of all the
  text given so far, and one more piece keeps it (`FeedKeeps`). `AgreementKept` follows with providers that
  agree, `OrderKept` says which were tried. Theorems `OneAnswerSafe`, `LastResortSafe`.
* `FleetProofs`. For the daemons `TreasuryInv`: refills that the network can execute
  (`Ready`) go to relayers that are low, to each at most one, and the check under way
  has passed them all (`ReadyNeeded`), because it started when none was left; with the
  numbering of either daemon (`CountedArrived`, `NumberedApart`). For the bots `BotsInv`:
  no nonce that was read is ahead of its account (`NeverAhead`), and what was answered
  is on the network (`AnsweredPaid`). Theorems `NumberingIsSound`, `RunsPaid`, and
  `NothingOverfunded`, an action property.
* `SumProofs`. The models sum with a fold of the community modules, which has no
  induction theorem that the provers can use. The sum of `f` over `S` is shown to be
  the cardinality of its units, `f[x]` for each `x`, by a minimal counterexample
  among the finite subsets; how sums grow, compare and lose an element then follows from
  facts about cardinality.

Only model-checked: liveness (`EveryCallAnswered`, `EarlyCallsAnswered`,
`PendingDecided`, `CallsEnd`, `StreamsEnd`, `PaymentsMove`, `EverythingEnds`,
`GasArrives`), which needs fairness and ENABLED. Every invariant and every action
property of a passing run is stated by a theorem, for every value of the constants,
some under `Pinned`, SQLite or a DNS time to live above zero, as said above.

## 6. Findings

* **Calls lost at shutdown** (`lost_calls`). A call that arrives during the drain at
  a worker that had nothing to wait for can still be queued when `clear()` drops
  it; its promise is never resolved.
* **A challenge uses up the credit it promises** (`challenge_honoured`).
  `applyCredit` runs before the 402 is sent. The challenge asks for the price less
  the credit; the retry that pays this finds no credit, owes the full price, and
  fails verification for its amount.
* **A result that broke off is paid for** (`erroneous_settlement`). An upstream's body
  that breaks off, is aborted by the timeout or is no JSON (`mcp_gateway.ts:729`) becomes
  an empty result without an error, counts as a success and is settled, although
  388-390 promise "zero erroneous payment settlement".

Seen while modelling, without a run of their own:

* Settlement without a named relayer. Two calls for one signature can go to two
  workers, look it up before either has saved it, and the second save replaces the
  completed record with a pending one (`src/services/settler.ts:131`). Routing is
  least-loaded while signing takes the next relayer of a round robin
  (`settlement_queue.ts:420`), so two workers can have transactions of the same
  relayer on their way. `Settlement` shows both as soon as `Named` names nobody.
* Queues. `drain()` keeps waiting for calls that arrive after it. The capacity of the
  pipelined queue is checked before the signature is awaited and counted after it,
  so calls signed together overfill it; its idempotency check sees only completed
  records, so overlapping calls of one payment are both broadcast, and the memory
  backend keeps two completed records. `fromMnemonic` of the pipelined relayer pool
  never ends for a shard that is short of relayers. After a restart its relayers start
  from nonce 0 again, while earlier transactions may be on their way.
* Router. When a stream breaks after its first chunk the headers are out, the 502
  throws, and the rejection nobody handles ends the process (3.5). The same happens when
  the credit of a delivered completion cannot be written, and the primary provider is
  counted a failure for it.
* Verifier. Data that is base64 text is judged by what it decodes to, while the text
  itself is signed and broadcast. A payload without `accepted` makes `verify()`
  throw: a 500 of the gateway, but in the MCP gateway, the tollbooth and the Claw
  router the call stands outside `try`, and the process ends. The SDK's payloads
  are of this kind. That is why `ServedIsVerified` speaks of the payment as decoded.
* Gateway. Inference runs whether the settlement succeeded or not. A payment that
  was settled for an inference that then failed or timed out is not given back.
  The fixed window of the rate limiter lets twice its limit through around the end
  of a window.
* Clients. `README.md:184` says that `maxSessionCost` limits what a session spends;
  calls that overlap each pass the check before the others book their cost
  (`SpendKept` states by how much), and payments settled for calls that then failed
  are not booked. `chatStream` books the cost whatever the status. The Python
  client counts nonces from 0 and never reads the account, and signs a
  serialisation with sorted keys. The SDK's overlapping first calls can read one
  nonce; it posts chats to a route the BlockRun gateway does not have, and its
  `callTool` and `readResource` bodies are no JSON-RPC.
* MCP gateway. `X-Payment-Settled` says true with a random
  hash when the settlement failed; so does the tollbooth's. A builtin tool that
  somebody took over falls back to the merchant pool at the next start.
* Treasury. After one refill that failed to be sent, `RelayerTreasuryService` leaves
  a gap below all that follow: nothing executes until it is restarted, and then
  everything does, which overfunds. `src/bin/server.ts` starts the sentinel
  instead. Overlapping steps of one bot share a nonce, and both report a hash.
* Tollbooth. The origin's status is not looked at: error pages are extracted, cached
  and charged for. A payment whose verification throws ends the process, with the
  pages of those who have just been charged; so does a rejected feedback. Failures are
  counted for whatever name a request gives itself. A publisher's address is not
  validated and is found as the beginning of a longer one, so an address that was never
  shown may be recorded. Of two overlapping fetches the older page may stay in the cache.
  A price that changes between the 402 and the payment counts as the agent's
  failure. A lookup that fails is kept as "spoofed", and may replace a good entry.
  Address ranges are only ever added. A challenge's `expiresAt` is never read, and an
  older check that ends late replaces a newer publisher. The edge worker's comment
  says "verify and proxy"; it verifies nothing.

## 7. What is not modelled

In the modules that exist: amounts, addresses, shard arithmetic, cryptography, the
bytes that are signed, error texts (a failure is transient or permanent), back-off
times, statistics, logging, wording. Several processes on one SQLite file are not
modelled. Requests without
`x-payer-address` have no credit; `ClawRouter` has them (`NoClient`), its run does not.
Escrow, proofs and reputation of the MCP gateway are folded into the steps that
await them: nothing that `src/bin/` deploys has them. Operations without a caller
in `src/` are left out (`deleteExpired`, `clearCredit`, `getServiceConfig`,
`resyncNonce`, `canAcceptTransaction`), as are the derivation of keys, the sweeper,
which only builds transactions and reports, and all routes that only read.
Benchmarks, the web interface, scripts and examples are not part of the service.
`PROJECT.json` says it for each component.
