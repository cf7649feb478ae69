------------------------------ MODULE McpGateway ------------------------------
(***************************************************************************)
(* The tool marketplace: the routes of src/gateway/mcp_gateway.ts over the *)
(* registry (src/services/mcp_registry_adapter.ts, sqlite), the executor   *)
(* (src/services/mcp_executor.ts), the breaker and the verifier, with the  *)
(* tools src/bin/mcp_server.ts brings along and its restarts.              *)
(*                                                                         *)
(* A call asks the price, pays it, is verified, executed, logged and only  *)
(* then settled, with an await after each.  Meanwhile tools are registered *)
(* anew, the process restarts, and an upstream answers calls the executor  *)
(* has given up.                                                           *)
(*                                                                         *)
(* Abstracted: schemas, latencies and the health status computed from them *)
(* (nothing reads it), the assets and shards of the requirements, and what *)
(* settling is made of (Settlement).                                       *)
(***************************************************************************)
EXTENDS CircuitBreaker, PaymentVerifier

CONSTANTS
  Tools, Builtin,     \* all tools; those of bin/mcp_server.ts
  Owners,             \* payTo addresses, and who asks for a registration
  Endpoints,          \* upstream URLs
  Stored,             \* rows the registry may hold when the server first starts
  Calls,
  MaxRegistrations,   \* bound: registrations that succeed
  MaxRestarts         \* bound

None == "none"
Local == "local"
Missing == [owner |-> "missing", endpoint |-> None]
Rows == [owner : Owners \cup {None}, endpoint : Endpoints \cup {None}]

ASSUME McpAssumption ==
  /\ Builtin \subseteq Tools
  /\ Stored \subseteq Rows \cup {Missing}
  /\ IsFiniteSet(Calls)
  /\ MaxRegistrations \in Nat /\ MaxRestarts \in Nat

VARIABLES
  tool,       \* tool[t]: its row in registered_tools, or Missing
  health,     \* health[t]: its row in tool_health
  handler,    \* handler[t]: the executor's handler, an endpoint, Local or None
  breaker,    \* breaker[t]
  target,     \* target[c]: the tool called, or Resource
  stage,      \* stage[c]
  inflight,   \* calls whose upstream request the breaker waits for
  outcome,    \* outcome[c]: the result of the execution, once there is one
  settled,    \* calls whose payment reached the network
  bounds      \* what is left of the two bounds

vars == <<tool, health, handler, breaker, target, stage, inflight,
          outcome, settled, bounds>>
toolVars == <<tool, health, handler>>
callVars == <<target, stage, inflight, outcome, settled>>

Resource == "resource"

\* "settling" starts with logProof(), and a call that is over may still wait for
\* refund() when there is an escrow: neither changes anything here, or what comes
\* after.  "over" is answered, refused, or cut off by a restart.
Stages == {"new", "verifying", "executing", "settling", "over"}

Payees == Owners \cup {None}   \* None: the merchant pool's address
Registered == {t \in Tools : tool[t] # Missing}

MTypeOK ==
  /\ tool \in [Tools -> Rows \cup {Missing}]
  /\ health \in [Tools -> [calls : 0 .. Cardinality(Calls),
                           errors : 0 .. Cardinality(Calls)]]
  /\ handler \in [Tools -> Endpoints \cup {Local, None}]
  /\ breaker \in [Tools -> Breaker]
  /\ target \in [Calls -> Tools \cup {Resource}]
  /\ stage \in [Calls -> Stages]
  /\ inflight \subseteq Calls /\ settled \subseteq Calls
  /\ outcome \in [Calls -> {None, "ok", "error", "cut"}]
  /\ bounds \in [registrations : 0 .. MaxRegistrations, restarts : 0 .. MaxRestarts]

BuiltinRow == [owner |-> None, endpoint |-> None]

\* What main() of bin/mcp_server.ts and the gateway's constructor make of the
\* rows they find: the builtin tools are registered over whatever was there, and
\* initExternalToolHandlers wires the other endpoints.
StartedRows(rows) ==
  [t \in Tools |-> IF t \in Builtin THEN BuiltinRow ELSE rows[t]]

StartedHandlers(rows) ==
  [t \in Tools |-> IF t \in Builtin THEN Local ELSE rows[t].endpoint]

Init ==
  /\ \E rows \in [Tools -> Stored] : tool = StartedRows(rows)
  /\ health = [t \in Tools |-> [calls |-> 0, errors |-> 0]]
  /\ handler = StartedHandlers(tool)
  /\ breaker = [t \in Tools |-> Fresh]
  /\ target = [c \in Calls |-> Resource]
  /\ stage = [c \in Calls |-> "new"]
  /\ inflight = {} /\ settled = {}
  /\ outcome = [c \in Calls |-> None]
  /\ bounds = [registrations |-> MaxRegistrations, restarts |-> MaxRestarts]

Move(c, s) == stage' = [stage EXCEPT ![c] = s]

-----------------------------------------------------------------------------

\* mutant: the owner is compared only when nothing was signed.
MayRegisterSigned(t, who, payee, signs) ==
  LET exists == t \in Registered
  IN  /\ exists => signs
      /\ signs => who = payee

\* May who register t to be paid to payee?  A tool with an owner keeps it, and
\* whatever exists is only changed with a signature of its owner, or of the new
\* payee when it has none.
MayRegister(t, who, payee, signs) ==
  LET exists == t \in Registered
      owned == exists /\ tool[t].owner # None
  IN  /\ owned => tool[t].owner = payee
      /\ exists => signs
      /\ signs => who = payee

\* mutant: a tool that has a handler keeps it.
RewiredOnce(t, endpoint) ==
  IF handler[t] # None THEN handler ELSE [handler EXCEPT ![t] = endpoint]

\* The executor's handler follows an endpoint that is given, and stays otherwise.
Rewired(t, endpoint) ==
  IF endpoint = None THEN handler ELSE [handler EXCEPT ![t] = endpoint]

\* POST /mcp/v1/tools/register
Register(t, who, payee, signs, endpoint) ==
  /\ bounds.registrations > 0
  /\ MayRegister(t, who, payee, signs)
  /\ tool' = [tool EXCEPT ![t] = [owner |-> payee, endpoint |-> endpoint]]
  /\ handler' = Rewired(t, endpoint)
  /\ bounds' = [bounds EXCEPT !.registrations = @ - 1]
  /\ UNCHANGED <<health, breaker, callVars>>

-----------------------------------------------------------------------------

\* A request with a payment; one without is answered with the price, and changes
\* nothing.
Pay(c, t) ==
  /\ stage[c] = "new"
  /\ target' = [target EXCEPT ![c] = t]
  /\ Move(c, "verifying")
  /\ UNCHANGED <<toolVars, breaker, inflight, outcome, settled, bounds>>

\* The payment as the verifier sees it.  The price and the payee are read again
\* when it comes, and may no longer be the terms the payer accepted.
PaymentFor(terms) ==
  [accepted |-> terms,
   chain |-> TRUE, gas |-> "bounded", window |-> "open", value |-> FALSE,
   data |-> "transfer", asset |-> TRUE, receiver |-> TRUE, funded |-> TRUE,
   signed |-> TRUE, guardian |-> "none", relayer |-> "shard", cosigned |-> "none"]

\* mutant: a result that says it is an error is paid for like any other.
FinishPaid(c, result) ==
  /\ outcome' = [outcome EXCEPT ![c] = result]
  /\ health' = [health EXCEPT ![target[c]] =
                  [calls |-> @.calls + 1,
                   errors |-> @.errors + (IF result = "error" THEN 1 ELSE 0)]]
  /\ Move(c, "settling")

\* The result is recorded, and decides whether the payment is settled.
Finish(c, result) ==
  /\ outcome' = [outcome EXCEPT ![c] = result]
  /\ health' = [health EXCEPT ![target[c]] =
                  [calls |-> @.calls + 1,
                   errors |-> @.errors + (IF result = "error" THEN 1 ELSE 0)]]
  /\ Move(c, IF result = "error" THEN "over" ELSE "settling")

\* executeTool: no handler, a local one, or an upstream behind its breaker.
NoHandler(c) ==
  /\ handler[target[c]] = None
  /\ Finish(c, "error")
  /\ UNCHANGED <<breaker, inflight>>

RunLocal(c) ==
  /\ handler[target[c]] = Local
  /\ Move(c, "executing")
  /\ UNCHANGED <<health, breaker, inflight, outcome>>

CallUpstream(c) ==
  LET t == target[c] IN
  /\ handler[t] \in Endpoints
  /\ breaker' = [breaker EXCEPT ![t] = GetState(@)]
  /\ \/ /\ CanExecute(breaker[t])
        /\ inflight' = inflight \cup {c}
        /\ Move(c, "executing")
        /\ UNCHANGED <<health, outcome>>
     \/ /\ ~CanExecute(breaker[t])
        /\ Finish(c, "error")
        /\ UNCHANGED inflight

ExecuteTool(c) == NoHandler(c) \/ RunLocal(c) \/ CallUpstream(c)

\* The verdict.  A tool is executed before it is paid, a resource after.
VerifyReturns(c) ==
  /\ stage[c] = "verifying"
  /\ \E terms \in {"match", "other"}, sim \in {"ok", "rejected"} :
       IF Verdict(PaymentFor(terms), TRUE, sim) # Valid
       THEN Move(c, "over") /\ UNCHANGED <<health, breaker, inflight, outcome>>
       ELSE IF target[c] = Resource
       THEN Move(c, "settling") /\ UNCHANGED <<health, breaker, inflight, outcome>>
       ELSE ExecuteTool(c)
  /\ UNCHANGED <<tool, handler, target, settled, bounds>>

\* The breaker waits for the upstream, also when the executor no longer does.
Awaited(c) == c \in inflight

\* execute() of the breaker: the upstream answers, with isError or without, which
\* is a success to the breaker, or fails or is aborted.  A body that breaks off
\* or is no JSON is taken for an empty result.  The answer counts for the call
\* only if the executor still waits.
UpstreamReturns(c) ==
  /\ Awaited(c)
  /\ inflight' = inflight \ {c}
  /\ \E result \in {"ok", "error", "failure", "cut"} :
       /\ breaker' = [breaker EXCEPT ![target[c]] =
                        IF result = "failure" THEN RecordFailure(@) ELSE RecordSuccess(@)]
       /\ IF stage[c] = "executing"
          THEN Finish(c, IF result = "failure" THEN "error" ELSE result)
          ELSE UNCHANGED <<health, stage, outcome>>
  /\ UNCHANGED <<tool, handler, target, settled, bounds>>

LocalReturns(c) ==
  /\ stage[c] = "executing" /\ c \notin inflight
  /\ \E result \in {"ok", "error"} : Finish(c, result)
  /\ UNCHANGED <<tool, handler, breaker, target, inflight, settled, bounds>>

\* mutant: the executor leaves the timeout to the breaker.
ExecutionTimesOutRemote(c) ==
  /\ stage[c] = "executing" /\ c \in inflight
  /\ Finish(c, "error")
  /\ UNCHANGED <<tool, handler, breaker, target, inflight, settled, bounds>>

\* The executor's own timer wins the race.
ExecutionTimesOut(c) ==
  /\ stage[c] = "executing"
  /\ Finish(c, "error")
  /\ UNCHANGED <<tool, handler, breaker, target, inflight, settled, bounds>>

\* The settlement: the answer says settled whether it was or not.
SettleReturns(c) ==
  /\ stage[c] = "settling"
  /\ settled' \in {settled, settled \cup {c}}
  /\ Move(c, "over")
  /\ UNCHANGED <<toolVars, breaker, target, inflight, outcome, bounds>>

-----------------------------------------------------------------------------

\* The cooldown of a breaker passes.
Cool(t) ==
  /\ breaker[t].cooling
  /\ breaker' = [breaker EXCEPT ![t] = CooledDown(@)]
  /\ UNCHANGED <<toolVars, callVars, bounds>>

\* The process stops and starts again: what it held in memory is gone.
Restart ==
  /\ bounds.restarts > 0
  /\ tool' = StartedRows(tool)
  /\ handler' = StartedHandlers(tool')
  /\ breaker' = [t \in Tools |-> Fresh]
  /\ stage' = [c \in Calls |->
                 IF stage[c] = "new" THEN "new" ELSE "over"]
  /\ inflight' = {}
  /\ bounds' = [bounds EXCEPT !.restarts = @ - 1]
  /\ UNCHANGED <<health, target, outcome, settled>>

\* tools/call and resources/read, a step per await.
ToolsCall(c) ==
  \/ \E t \in Registered : Pay(c, t)
  \/ VerifyReturns(c)
  \/ LocalReturns(c) \/ ExecutionTimesOut(c)
  \/ SettleReturns(c)

ResourcesRead(c) == Pay(c, Resource)

Next ==
  \/ \E t \in Tools, who, payee \in Owners, signs \in BOOLEAN,
        endpoint \in Endpoints \cup {None} :
       Register(t, who, payee, signs, endpoint)
  \/ \E c \in Calls : ToolsCall(c) \/ ResourcesRead(c) \/ UpstreamReturns(c)
  \/ \E t \in Tools : Cool(t)
  \/ Restart

Spec == Init /\ [][Next]_vars

\* Timers fire: the executor's, and those behind verify(), settle() and the
\* breaker's signal, so that they come back.  A handler of the server itself has
\* no timer of its own, and nobody has to ask, to pay or to register.
Owed(c) ==
  VerifyReturns(c) \/ ExecutionTimesOut(c) \/ SettleReturns(c) \/ UpstreamReturns(c)

Fairness == \A c \in Calls : WF_vars(Owed(c))
FairSpec == Spec /\ Fairness

-----------------------------------------------------------------------------

\* A breaker is closed exactly while its tool has failed fewer than Threshold
\* times in a row, whatever the order in which overlapping calls report.
BreakersConsistent == \A t \in Tools : Consistent(breaker[t])

\* A half-open breaker is trying: some call's result is still to come, so it
\* cannot stay half open for want of a timer.
ProbeUnderWay ==
  \A t \in Tools : breaker[t].state = "HALF_OPEN" =>
    \E c \in inflight : target[c] = t

\* The breakers say what happened upstream, and one that is half open will say
\* more (tool_circuit_breaker.ts:74-131).
BreakersSound == MTypeOK /\ BreakersConsistent /\ ProbeUnderWay

\* A payment reaches the network only for a tool that answered while the executor
\* still waited, with a status and a body in which the gateway saw no error.  A
\* body that breaks off, or is no JSON, is not seen as one: see
\* NoErroneousSettlement (mcp_gateway.ts:380-391, 729, 438-449).
SettledOnAnswer ==
  \A c \in settled : target[c] # Resource => outcome[c] \in {"ok", "cut"}

\* A tool that names an endpoint is executed there, after registrations and
\* restarts alike.
EndpointsWired ==
  \A t \in Registered : tool[t].endpoint # None => handler[t] = tool[t].endpoint

\* Every execution is counted once in tool_health, also those whose call was
\* given up, or lost in a restart afterwards.
HealthCounts ==
  \A t \in Tools :
    LET of == {c \in Calls : target[c] = t /\ outcome[c] # None}
    IN  /\ health[t].calls = Cardinality(of)
        /\ health[t].errors = Cardinality({c \in of : outcome[c] = "error"})

\* The registry, the executor and the record of a tool's health go together
\* (mcp_gateway.ts:215-221, mcp_registry_adapter.ts:300-339).
RegistrySound == EndpointsWired /\ HealthCounts

\* A tool with an owner keeps it, whoever registers what meanwhile, in the registry
\* and over restarts; but a builtin tool that somebody has taken over falls back
\* to the merchant pool's address when the server starts again, and only then
\* (mcp_gateway.ts:112-139, bin/mcp_server.ts).
FallsBack(t) ==
  /\ t \in Builtin
  /\ tool'[t].owner = None
  /\ bounds'.restarts < bounds.restarts
OwnerKept ==
  [][\A t \in Tools : tool[t] # Missing /\ tool[t].owner # None =>
       tool'[t].owner = tool[t].owner \/ FallsBack(t)]_vars

\* A payment the gateway has taken up is answered, or the process has restarted.
CallsOver == \A c \in Calls : stage[c] \in {"new", "over"}

\* Nothing the gateway has begun stays open: every call comes to its answer and
\* the breaker hears of every upstream request (mcp_executor.ts:44-65,
\* tool_circuit_breaker.ts:121-152).
EverythingEnds == <>[](CallsOver /\ inflight = {})

-----------------------------------------------------------------------------
(* What the gateway promises and does not do.                              *)

\* "When tool execution fails (...), guarantee zero erroneous payment settlement"
\* (mcp_gateway.ts:388-390): who pays for a tool got its result.
NoErroneousSettlement ==
  \A c \in settled : target[c] # Resource => outcome[c] = "ok"
=============================================================================
