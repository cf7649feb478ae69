--------------------------- MODULE McpGatewayProofs ---------------------------
(***************************************************************************)
(* The safety of the tool marketplace, for every number of tools, owners,  *)
(* endpoints, calls, registrations and restarts, and for every threshold.  *)
(*                                                                         *)
(* The invariant has a part for the breakers, one for the calls and the    *)
(* counts kept of them, and one for the registry.                          *)
(***************************************************************************)
EXTENDS McpGateway, FiniteSetTheorems, TLAPS

BreakerInv ==
  /\ breaker \in [Tools -> Breaker]
  /\ BreakersConsistent /\ ProbeUnderWay

CallTypes ==
  /\ health \in [Tools -> [calls : Nat, errors : Nat]]
  /\ target \in [Calls -> Tools \cup {Resource}]
  /\ stage \in [Calls -> Stages]
  /\ inflight \subseteq Calls /\ settled \subseteq Calls
  /\ outcome \in [Calls -> {None, "ok", "error", "cut"}]

Running(c) == stage[c] \in {"new", "verifying", "executing"}

\* What is executed is a tool; what is still running has no result and is not
\* settled; and what is settled, or about to be, has a result worth paying for.
CallsFit ==
  \A c \in Calls :
    /\ stage[c] = "executing" \/ c \in inflight => target[c] \in Tools \ {Resource}
    /\ stage[c] = "new" => c \notin inflight
    /\ Running(c) => c \notin settled /\ outcome[c] = None
    /\ target[c] # Resource /\ (stage[c] = "settling" \/ c \in settled)
         => outcome[c] \in {"ok", "cut"}

CallInv == CallTypes /\ CallsFit /\ HealthCounts

RegistryInv ==
  /\ tool \in [Tools -> Rows \cup {Missing}]
  /\ handler \in [Tools -> Endpoints \cup {Local, None}]
  /\ bounds \in [registrations : 0 .. MaxRegistrations, restarts : 0 .. MaxRestarts]
  /\ EndpointsWired

McpInv == BreakerInv /\ CallInv /\ RegistryInv

-----------------------------------------------------------------------------
\* The breaker of one tool.

LEMMA FreshBreaker == Fresh \in Breaker /\ Consistent(Fresh) /\ Fresh.state = "CLOSED"
  BY ThresholdAssumption DEF Fresh, Breaker, Consistent

LEMMA AskedBreaker ==
  ASSUME NEW b \in Breaker, Consistent(b)
  PROVE  /\ GetState(b) \in Breaker /\ Consistent(GetState(b))
         /\ GetState(b).state = "HALF_OPEN" => CanExecute(b)
  BY ThresholdAssumption DEF GetState, CanExecute, Breaker, Consistent

\* No result leaves a breaker half open.
LEMMA ToldBreaker ==
  ASSUME NEW b \in Breaker, Consistent(b), NEW told \in {RecordSuccess(b), RecordFailure(b)}
  PROVE  told \in Breaker /\ Consistent(told) /\ told.state # "HALF_OPEN"
<1>1. CASE told = RecordSuccess(b)
  BY <1>1, FreshBreaker DEF RecordSuccess
<1>2. CASE told = RecordFailure(b)
  BY <1>2, ThresholdAssumption DEF RecordFailure, Breaker, Consistent
<1> QED BY <1>1, <1>2

LEMMA CooledBreaker ==
  ASSUME NEW b \in Breaker, Consistent(b)
  PROVE  CooledDown(b) \in Breaker /\ Consistent(CooledDown(b))
         /\ CooledDown(b).state = b.state
  BY DEF CooledDown, Breaker, Consistent

\* Breakers nobody reports to, while the calls they wait for stay what they are.
LEMMA BreakersKept ==
  ASSUME BreakerInv, UNCHANGED <<breaker, inflight>>,
         \A c \in inflight : target'[c] = target[c]
  PROVE  BreakerInv'
  BY DEF BreakerInv, BreakersConsistent, ProbeUnderWay, Consistent

LEMMA BreakerAsked ==
  ASSUME BreakerInv, NEW t \in Tools, NEW c \in Calls, target[c] = t, UNCHANGED target,
         breaker' = [breaker EXCEPT ![t] = GetState(@)],
         \/ inflight' = inflight \cup {c}
         \/ ~CanExecute(breaker[t]) /\ inflight' = inflight
  PROVE  BreakerInv'
<1>1. breaker[t] \in Breaker /\ Consistent(breaker[t])
  BY DEF BreakerInv, BreakersConsistent
<1>2. /\ GetState(breaker[t]) \in Breaker /\ Consistent(GetState(breaker[t]))
      /\ GetState(breaker[t]).state = "HALF_OPEN" => CanExecute(breaker[t])
  BY <1>1, AskedBreaker
<1>3. /\ breaker'[t] = GetState(breaker[t])
      /\ \A o \in Tools \ {t} : breaker'[o] = breaker[o]
      /\ breaker' \in [Tools -> Breaker]
  BY <1>2 DEF BreakerInv
<1>4. BreakersConsistent'
  BY <1>2, <1>3 DEF BreakerInv, BreakersConsistent, Consistent
<1>5. ProbeUnderWay'
  BY <1>2, <1>3 DEF BreakerInv, ProbeUnderWay
<1> QED BY <1>3, <1>4, <1>5 DEF BreakerInv

LEMMA BreakerTold ==
  ASSUME BreakerInv, NEW c \in inflight, target[c] \in Tools, UNCHANGED target,
         inflight' = inflight \ {c},
         NEW told \in {RecordSuccess(breaker[target[c]]), RecordFailure(breaker[target[c]])},
         breaker' = [breaker EXCEPT ![target[c]] = told]
  PROVE  BreakerInv'
<1> DEFINE t == target[c]
<1>1. breaker[t] \in Breaker /\ Consistent(breaker[t])
  BY DEF BreakerInv, BreakersConsistent
<1>2. told \in Breaker /\ Consistent(told) /\ told.state # "HALF_OPEN"
  BY <1>1, ToldBreaker
<1>3. /\ breaker'[t] = told /\ \A o \in Tools \ {t} : breaker'[o] = breaker[o]
      /\ breaker' \in [Tools -> Breaker]
  BY <1>2 DEF BreakerInv
<1>4. BreakersConsistent'
  BY <1>2, <1>3 DEF BreakerInv, BreakersConsistent, Consistent
<1>5. ProbeUnderWay'
  <2> SUFFICES ASSUME NEW o \in Tools, breaker'[o].state = "HALF_OPEN"
               PROVE  \E d \in inflight' : target'[d] = o
    BY DEF ProbeUnderWay
  <2>1. o # t /\ breaker[o].state = "HALF_OPEN"
    BY <1>2, <1>3
  <2>2. PICK d \in inflight : target[d] = o
    BY <2>1 DEF BreakerInv, ProbeUnderWay
  <2> QED BY <2>1, <2>2
<1> QED BY <1>3, <1>4, <1>5 DEF BreakerInv

LEMMA BreakerCooled ==
  ASSUME BreakerInv, NEW t \in Tools, Cool(t) PROVE BreakerInv'
<1>1. breaker[t] \in Breaker /\ Consistent(breaker[t])
  BY DEF BreakerInv, BreakersConsistent
<1>2. /\ breaker' \in [Tools -> Breaker] /\ breaker'[t] = CooledDown(breaker[t])
      /\ \A o \in Tools \ {t} : breaker'[o] = breaker[o]
  BY <1>1, CooledBreaker DEF BreakerInv, Cool
<1>3. BreakersConsistent'
  BY <1>1, <1>2, CooledBreaker DEF BreakerInv, BreakersConsistent, Consistent
<1>4. ProbeUnderWay'
  BY <1>1, <1>2, CooledBreaker DEF BreakerInv, ProbeUnderWay, Cool, callVars
<1> QED BY <1>2, <1>3, <1>4 DEF BreakerInv

LEMMA BreakersFresh ==
  ASSUME breaker' = [t \in Tools |-> Fresh] PROVE BreakerInv'
  BY FreshBreaker DEF BreakerInv, BreakersConsistent, Consistent, ProbeUnderWay

-----------------------------------------------------------------------------
\* The calls, and the counts of their results.

\* A call that moves on without a result.
LEMMA CallMoves ==
  ASSUME CallInv, NEW c \in Calls, NEW s \in Stages, Running(c), Move(c, s),
         target' \in [Calls -> Tools \cup {Resource}],
         \A d \in Calls \ {c} : target'[d] = target[d],
         s # "new", inflight' \subseteq Calls,
         \A d \in Calls \ {c} : d \in inflight' => d \in inflight,
         s = "executing" \/ c \in inflight' => target'[c] \in Tools \ {Resource},
         s = "settling" => target'[c] = Resource,
         UNCHANGED <<health, outcome, settled>>
  PROVE  CallInv'
<1>1. /\ stage' \in [Calls -> Stages] /\ stage'[c] = s
      /\ \A d \in Calls \ {c} : stage'[d] = stage[d]
  BY DEF CallInv, CallTypes, Move
<1>2. CallTypes'
  BY <1>1 DEF CallInv, CallTypes
<1>3. CallsFit'
  BY <1>1 DEF CallInv, CallsFit, CallTypes, Running, Stages
<1>4. outcome[c] = None
  BY DEF CallInv, CallsFit
<1>5. \A t \in Tools : {d \in Calls : target'[d] = t /\ outcome'[d] # None}
                         = {d \in Calls : target[d] = t /\ outcome[d] # None}
  BY <1>4
<1>6. HealthCounts'
  <2>1. HealthCounts /\ UNCHANGED <<health, outcome>>
    BY DEF CallInv
  <2>2. SUFFICES ASSUME NEW t \in Tools
                 PROVE  LET of == {d \in Calls : target'[d] = t /\ outcome'[d] # None}
                        IN  /\ health'[t].calls = Cardinality(of)
                            /\ health'[t].errors = Cardinality({d \in of : outcome'[d] = "error"})
    BY DEF HealthCounts
  <2>3. PICK of : of = {d \in Calls : target[d] = t /\ outcome[d] # None}
    OBVIOUS
  <2>4. of = {d \in Calls : target'[d] = t /\ outcome'[d] # None}
    BY <1>5, <2>3
  <2>5. /\ health[t].calls = Cardinality(of)
        /\ health[t].errors = Cardinality({d \in of : outcome[d] = "error"})
    BY <2>1, <2>3 DEF HealthCounts
  <2> QED BY <2>1, <2>4, <2>5
<1> QED BY <1>2, <1>3, <1>6 DEF CallInv

\* The calls of a tool that have their result, and those it was an error for.
Done(t) == {c \in Calls : target[c] = t /\ outcome[c] # None}
Wrong(t) == {c \in Done(t) : outcome[c] = "error"}

\* A call that gets its result is one more of those that are counted.
LEMMA CallFinishes ==
  ASSUME CallInv, NEW c \in Calls, stage[c] \in {"verifying", "executing"},
         NEW result \in {"ok", "error", "cut"}, target[c] \in Tools \ {Resource},
         Finish(c, result), inflight' \subseteq inflight, UNCHANGED <<target, settled>>
  PROVE  CallInv'
<1>0. PICK t \in Tools \ {Resource} : t = target[c]
  OBVIOUS
<1> DEFINE more == IF result = "error" THEN 1 ELSE 0
           row == [calls |-> health[t].calls + 1, errors |-> health[t].errors + more]
           s == IF result = "error" THEN "over" ELSE "settling"
<1>1. outcome[c] = None /\ c \notin settled
  BY DEF CallInv, CallsFit, Running
<1>2. /\ outcome' \in [Calls -> {None, "ok", "error", "cut"}]
      /\ outcome'[c] = result /\ \A d \in Calls \ {c} : outcome'[d] = outcome[d]
  BY DEF CallInv, CallTypes, Finish
<1>3. /\ stage' \in [Calls -> Stages] /\ stage'[c] = s /\ s \in {"over", "settling"}
      /\ \A d \in Calls \ {c} : stage'[d] = stage[d]
  BY DEF CallInv, CallTypes, Finish, Move, Stages
<1>4. /\ health[t] \in [calls : Nat, errors : Nat] /\ more \in {0, 1}
      /\ row \in [calls : Nat, errors : Nat]
  BY <1>0 DEF CallInv, CallTypes
<1>5. health' = [health EXCEPT ![t] = row]
  BY <1>0, <1>4 DEF Finish
<1>6. /\ health' \in [Tools -> [calls : Nat, errors : Nat]]
      /\ \A o \in Tools \ {t} : health'[o] = health[o]
      /\ health'[t].calls = health[t].calls + 1
      /\ health'[t].errors = health[t].errors + more
  BY <1>4, <1>5 DEF CallInv, CallTypes
<1>7. CallTypes'
  BY <1>2, <1>3, <1>6 DEF CallInv, CallTypes
<1>8. CallsFit'
  BY <1>1, <1>2, <1>3 DEF CallInv, CallsFit, CallTypes, Running
<1>9. /\ \A o \in Tools \ {t} : Done(o)' = Done(o) /\ Wrong(o)' = Wrong(o)
      /\ Done(t)' = Done(t) \cup {c} /\ c \notin Done(t) /\ c \notin Wrong(t)
      /\ Wrong(t)' = IF result = "error" THEN Wrong(t) \cup {c} ELSE Wrong(t)
  <2>1. \A o \in Tools \ {t} : Done(o)' = Done(o)
    BY <1>0, <1>2 DEF Done
  <2>2. \A o \in Tools \ {t} : Wrong(o)' = Wrong(o)
    BY <1>0, <1>2 DEF Wrong, Done
  <2>3. c \notin Done(t) /\ c \notin Wrong(t)
    BY <1>1 DEF Done, Wrong
  <2>4. Done(t)' = Done(t) \cup {c}
    BY <1>0, <1>2 DEF Done, None
  <2>5. CASE result = "error"
    <3>1. Wrong(t)' = Wrong(t) \cup {c}
      BY <1>0, <1>2, <2>5 DEF Done, Wrong, None
    <3> QED BY <2>1, <2>2, <2>3, <2>4, <2>5, <3>1
  <2>6. CASE result # "error"
    <3>1. Wrong(t)' = Wrong(t)
      BY <1>0, <1>1, <1>2, <2>6 DEF Done, Wrong
    <3> QED BY <2>1, <2>2, <2>3, <2>4, <2>6, <3>1
  <2> QED BY <2>5, <2>6
<1>10. IsFiniteSet(Done(t)) /\ IsFiniteSet(Wrong(t))
  BY McpAssumption, FS_Subset DEF Done, Wrong
<1>11. \A o \in Tools : /\ health[o].calls = Cardinality(Done(o))
                        /\ health[o].errors = Cardinality(Wrong(o))
  BY DEF CallInv, HealthCounts, Done, Wrong
<1>12. /\ Cardinality(Done(t)') = Cardinality(Done(t)) + 1
       /\ Cardinality(Wrong(t)') = Cardinality(Wrong(t)) + more
  <2>1. Cardinality(Done(t) \cup {c}) = Cardinality(Done(t)) + 1
    BY <1>9, <1>10, FS_AddElement
  <2>2. Cardinality(Wrong(t) \cup {c}) = Cardinality(Wrong(t)) + 1
    BY <1>9, <1>10, FS_AddElement
  <2>3. Cardinality(Wrong(t)) \in Nat
    BY <1>10, FS_CardinalityType
  <2> QED BY <1>9, <2>1, <2>2, <2>3
<1> HIDE DEF more
<1>13. \A o \in Tools : /\ health'[o].calls = Cardinality(Done(o)')
                        /\ health'[o].errors = Cardinality(Wrong(o)')
  BY <1>6, <1>9, <1>11, <1>12
<1>14. HealthCounts'
  BY <1>13 DEF HealthCounts, Done, Wrong
<1> QED BY <1>7, <1>8, <1>14 DEF CallInv

LEMMA CallPays ==
  ASSUME CallInv, NEW c \in Calls, NEW t \in Tools \cup {Resource}, Pay(c, t)
  PROVE  CallInv'
<1>1. target' \in [Calls -> Tools \cup {Resource}]
  BY DEF CallInv, CallTypes, Pay
<1>2. c \notin inflight
  BY DEF CallInv, CallsFit, Pay
<1> QED
  BY <1>1, <1>2, CallMoves DEF Pay, CallInv, CallTypes, Stages, Running, toolVars

LEMMA CallSettles ==
  ASSUME CallInv, NEW c \in Calls, SettleReturns(c) PROVE CallInv'
<1>1. /\ stage' \in [Calls -> Stages] /\ stage'[c] = "over" /\ stage[c] = "settling"
      /\ \A d \in Calls \ {c} : stage'[d] = stage[d]
  BY DEF CallInv, CallTypes, SettleReturns, Move, Stages
<1>2. CallTypes'
  BY <1>1 DEF CallInv, CallTypes, SettleReturns, toolVars
<1>3. CallsFit'
  BY <1>1 DEF CallInv, CallsFit, CallTypes, Running, SettleReturns
<1>4. HealthCounts'
  BY DEF CallInv, HealthCounts, SettleReturns, toolVars
<1> QED BY <1>2, <1>3, <1>4 DEF CallInv

LEMMA CallsRestart == ASSUME CallInv, Restart PROVE CallInv'
<1>1. /\ stage' \in [Calls -> Stages]
      /\ \A c \in Calls : stage'[c] = IF stage[c] = "new" THEN "new" ELSE "over"
  BY DEF CallInv, CallTypes, Restart, Stages
<1>2. CallTypes'
  BY <1>1 DEF CallInv, CallTypes, Restart
<1>3. CallsFit'
  BY <1>1 DEF CallInv, CallsFit, Running, Restart
<1>4. HealthCounts'
  BY DEF CallInv, HealthCounts, Restart
<1> QED BY <1>2, <1>3, <1>4 DEF CallInv

LEMMA CallsKept == ASSUME CallInv, UNCHANGED <<health, callVars>> PROVE CallInv'
  BY DEF CallInv, CallTypes, CallsFit, HealthCounts, Running, callVars

-----------------------------------------------------------------------------
\* The registry.

LEMMA RegistryRegisters ==
  ASSUME RegistryInv, NEW t \in Tools, NEW who, NEW payee \in Owners,
         NEW signs, NEW endpoint \in Endpoints \cup {None},
         Register(t, who, payee, signs, endpoint)
  PROVE  RegistryInv'
<1> DEFINE row == [owner |-> payee, endpoint |-> endpoint]
<1>1. row \in Rows /\ row.endpoint = endpoint
  BY DEF Rows
<1>2. tool' = [tool EXCEPT ![t] = row]
  BY DEF Register
<1> HIDE DEF row
<1>3. tool' \in [Tools -> Rows \cup {Missing}]
  BY <1>1, <1>2 DEF RegistryInv
<1>4. handler' \in [Tools -> Endpoints \cup {Local, None}]
  BY DEF RegistryInv, Register, Rewired
<1>5. EndpointsWired'
  <2> SUFFICES ASSUME NEW o \in Tools, tool'[o] # Missing, tool'[o].endpoint # None
               PROVE  handler'[o] = tool'[o].endpoint
    BY DEF EndpointsWired, Registered
  <2>1. CASE o = t
    BY <1>1, <1>2, <2>1 DEF RegistryInv, Register, Rewired
  <2>2. CASE o # t
    BY <1>2, <2>2 DEF RegistryInv, Register, Rewired, EndpointsWired, Registered
  <2> QED BY <2>1, <2>2
<1>6. bounds' \in [registrations : 0 .. MaxRegistrations, restarts : 0 .. MaxRestarts]
  BY McpAssumption DEF RegistryInv, Register
<1> QED BY <1>3, <1>4, <1>5, <1>6 DEF RegistryInv

\* What main() makes of any rows is wired.
LEMMA Started ==
  ASSUME NEW rows \in [Tools -> Rows \cup {Missing}],
         tool' = StartedRows(rows), handler' = StartedHandlers(tool')
  PROVE  /\ tool' \in [Tools -> Rows \cup {Missing}]
         /\ handler' \in [Tools -> Endpoints \cup {Local, None}]
         /\ EndpointsWired'
<1>1. BuiltinRow \in Rows /\ BuiltinRow.endpoint = None
  BY DEF BuiltinRow, Rows
<1>2. tool' \in [Tools -> Rows \cup {Missing}]
  BY <1>1 DEF StartedRows
<1>3. \A t \in Tools : tool'[t].endpoint \in Endpoints \cup {None}
  BY <1>2 DEF Rows, Missing
<1>4. handler' \in [Tools -> Endpoints \cup {Local, None}]
  BY <1>3 DEF StartedHandlers
<1>5. \A t \in Tools : tool'[t].endpoint # None => t \notin Builtin
  BY <1>1 DEF StartedRows
<1>6. EndpointsWired'
  BY <1>5 DEF StartedHandlers, EndpointsWired, Registered
<1> QED BY <1>2, <1>4, <1>6

LEMMA RegistryRestarts == ASSUME RegistryInv, Restart PROVE RegistryInv'
<1>1. bounds' \in [registrations : 0 .. MaxRegistrations, restarts : 0 .. MaxRestarts]
  BY McpAssumption DEF RegistryInv, Restart
<1> QED BY <1>1, Started DEF RegistryInv, Restart

LEMMA RegistryKept ==
  ASSUME RegistryInv, UNCHANGED <<tool, handler, bounds>> PROVE RegistryInv'
  BY DEF RegistryInv, EndpointsWired, Registered

-----------------------------------------------------------------------------
\* The steps.

LEMMA McpInit == ASSUME Init PROVE McpInv
<1>1. PICK rows \in [Tools -> Stored] : tool = StartedRows(rows)
  BY DEF Init
<1>2. rows \in [Tools -> Rows \cup {Missing}]
  BY <1>1, McpAssumption
<1>3. BuiltinRow \in Rows /\ BuiltinRow.endpoint = None
  BY DEF BuiltinRow, Rows
<1>4. RegistryInv
  <2>1. tool \in [Tools -> Rows \cup {Missing}]
    BY <1>1, <1>2, <1>3 DEF StartedRows
  <2>2. \A t \in Tools : tool[t].endpoint \in Endpoints \cup {None}
    BY <2>1 DEF Rows, Missing
  <2>3. handler \in [Tools -> Endpoints \cup {Local, None}]
    BY <2>2 DEF Init, StartedHandlers
  <2>4. EndpointsWired
    BY <1>1, <1>2, <1>3 DEF Init, StartedHandlers, StartedRows, EndpointsWired, Registered
  <2>5. bounds \in [registrations : 0 .. MaxRegistrations, restarts : 0 .. MaxRestarts]
    BY McpAssumption DEF Init
  <2> QED BY <2>1, <2>3, <2>4, <2>5 DEF RegistryInv
<1>5. CallInv
  <2>1. CallTypes /\ CallsFit
    BY DEF Init, CallTypes, CallsFit, Stages, Running, None
  <2>2. \A t \in Tools : {c \in Calls : target[c] = t /\ outcome[c] # None} = {}
    BY DEF Init
  <2>3. HealthCounts
    BY <2>2, FS_EmptySet DEF Init, HealthCounts
  <2> QED BY <2>1, <2>3 DEF CallInv
<1>6. BreakerInv
  BY FreshBreaker DEF Init, BreakerInv, BreakersConsistent, ProbeUnderWay
<1> QED BY <1>4, <1>5, <1>6 DEF McpInv

LEMMA RegisterInv ==
  ASSUME McpInv, NEW t \in Tools, NEW who, NEW payee \in Owners, NEW signs,
         NEW endpoint \in Endpoints \cup {None}, Register(t, who, payee, signs, endpoint)
  PROVE  McpInv'
<1>1. BreakerInv'
  BY BreakersKept DEF McpInv, Register, callVars
<1>2. CallInv'
  BY CallsKept DEF McpInv, Register
<1> QED BY <1>1, <1>2, RegistryRegisters DEF McpInv

LEMMA PayInv ==
  ASSUME McpInv, NEW c \in Calls, NEW t \in Tools \cup {Resource}, Pay(c, t) PROVE McpInv'
<1>1. \A d \in inflight : target'[d] = target[d]
  BY DEF McpInv, CallInv, CallTypes, CallsFit, Pay
<1>2. BreakerInv'
  BY <1>1, BreakersKept DEF McpInv, Pay
<1> QED BY <1>2, CallPays, RegistryKept DEF McpInv, Pay, toolVars

LEMMA VerifyReturnsInv ==
  ASSUME McpInv, NEW c \in Calls, VerifyReturns(c) PROVE McpInv'
<1>1. /\ BreakerInv /\ CallInv /\ RegistryInv /\ CallTypes /\ stage[c] = "verifying"
      /\ UNCHANGED <<tool, handler, target, settled, bounds>> /\ Running(c)
  BY DEF McpInv, CallInv, VerifyReturns, Running
<1>2. RegistryInv'
  BY <1>1, RegistryKept
<1>3. CASE Move(c, "over") /\ UNCHANGED <<health, breaker, inflight, outcome>>
  <2>1. CallInv'
    <3>1. c \in inflight => target[c] \in Tools \ {Resource}
      BY <1>1 DEF CallInv, CallsFit
    <3> QED BY <1>1, <1>3, <3>1, CallMoves DEF CallTypes, Stages
  <2> QED BY <1>1, <1>2, <1>3, <2>1, BreakersKept DEF McpInv
<1>4. CASE /\ target[c] = Resource /\ Move(c, "settling")
           /\ UNCHANGED <<health, breaker, inflight, outcome>>
  <2>1. c \notin inflight
    BY <1>1, <1>4 DEF CallInv, CallsFit
  <2>2. CallInv'
    BY <1>1, <1>4, <2>1, CallMoves DEF CallTypes, Stages
  <2> QED BY <1>1, <1>2, <1>4, <2>2, BreakersKept DEF McpInv
<1>5. CASE target[c] # Resource /\ ExecuteTool(c)
  <2>1. target[c] \in Tools \ {Resource}
    BY <1>1, <1>5 DEF CallTypes
  <2>2. CASE NoHandler(c)
    <3>1. CallInv'
      BY <1>1, <2>1, <2>2, CallFinishes DEF NoHandler
    <3> QED BY <1>1, <1>2, <2>2, <3>1, BreakersKept DEF NoHandler, McpInv
  <2>3. CASE RunLocal(c)
    <3>1. CallInv'
      BY <1>1, <2>1, <2>3, CallMoves DEF RunLocal, CallTypes, Stages
    <3> QED BY <1>1, <1>2, <2>3, <3>1, BreakersKept DEF RunLocal, McpInv
  <2>4. CASE CallUpstream(c)
    <3>1. /\ breaker' = [breaker EXCEPT ![target[c]] = GetState(@)]
          /\ \/ inflight' = inflight \cup {c}
             \/ ~CanExecute(breaker[target[c]]) /\ inflight' = inflight
      BY <2>4 DEF CallUpstream
    <3>2. BreakerInv'
      BY <1>1, <2>1, <3>1, BreakerAsked
    <3>3. CASE /\ inflight' = inflight \cup {c} /\ Move(c, "executing")
               /\ UNCHANGED <<health, outcome>>
      <4>1. CallInv'
        BY <1>1, <2>1, <3>3, CallMoves DEF CallTypes, Stages
      <4> QED BY <1>2, <3>2, <4>1 DEF McpInv
    <3>4. CASE Finish(c, "error") /\ UNCHANGED inflight
      <4>1. CallInv'
        BY <1>1, <2>1, <3>4, CallFinishes
      <4> QED BY <1>2, <3>2, <4>1 DEF McpInv
    <3> QED BY <2>4, <3>3, <3>4 DEF CallUpstream
  <2> QED BY <1>5, <2>2, <2>3, <2>4 DEF ExecuteTool
<1> QED BY <1>3, <1>4, <1>5 DEF VerifyReturns

LEMMA UpstreamReturnsInv ==
  ASSUME McpInv, NEW c \in Calls, UpstreamReturns(c) PROVE McpInv'
<1>1. /\ BreakerInv /\ CallInv /\ RegistryInv /\ c \in inflight
      /\ UNCHANGED <<tool, handler, target, settled, bounds>> /\ inflight' = inflight \ {c}
  BY DEF McpInv, UpstreamReturns, Awaited
<1>2. target[c] \in Tools \ {Resource}
  BY <1>1 DEF CallInv, CallsFit
<1>3. PICK result \in {"ok", "error", "failure", "cut"} :
        /\ breaker' = [breaker EXCEPT ![target[c]] =
                         IF result = "failure" THEN RecordFailure(@) ELSE RecordSuccess(@)]
        /\ IF stage[c] = "executing"
           THEN Finish(c, IF result = "failure" THEN "error" ELSE result)
           ELSE UNCHANGED <<health, stage, outcome>>
  BY DEF UpstreamReturns
<1>4. BreakerInv'
  <2> DEFINE told == IF result = "failure" THEN RecordFailure(breaker[target[c]])
                     ELSE RecordSuccess(breaker[target[c]])
  <2>1. told \in {RecordSuccess(breaker[target[c]]), RecordFailure(breaker[target[c]])}
    OBVIOUS
  <2>2. breaker' = [breaker EXCEPT ![target[c]] = told]
    BY <1>3
  <2> HIDE DEF told
  <2> QED BY <1>1, <1>2, <2>1, <2>2, BreakerTold
<1>5. CallInv'
  <2>1. CASE stage[c] = "executing"
    BY <1>1, <1>2, <1>3, <2>1, CallFinishes
  <2>2. CASE stage[c] # "executing"
    <3>1. CallTypes' /\ CallsFit'
      BY <1>1, <1>3, <2>2 DEF CallInv, CallTypes, CallsFit, Running
    <3>2. HealthCounts'
      <4>1. HealthCounts /\ UNCHANGED <<health, target, outcome>>
        BY <1>1, <1>3, <2>2 DEF CallInv
      <4> QED BY <4>1 DEF HealthCounts
    <3> QED BY <3>1, <3>2 DEF CallInv
  <2> QED BY <2>1, <2>2
<1> QED BY <1>1, <1>4, <1>5, RegistryKept DEF McpInv

\* The executor's answer, while the breaker still waits or has nothing to wait for.
LEMMA ExecutorReturnsInv ==
  ASSUME McpInv, NEW c \in Calls, LocalReturns(c) \/ ExecutionTimesOut(c) PROVE McpInv'
<1>1. /\ BreakerInv /\ CallInv /\ RegistryInv /\ stage[c] = "executing"
      /\ UNCHANGED <<tool, handler, breaker, target, inflight, settled, bounds>>
  BY DEF McpInv, LocalReturns, ExecutionTimesOut
<1>2. PICK result \in {"ok", "error"} : Finish(c, result)
  BY DEF LocalReturns, ExecutionTimesOut
<1>3. target[c] \in Tools \ {Resource}
  BY <1>1 DEF CallInv, CallsFit
<1>4. CallInv'
  BY <1>1, <1>2, <1>3, CallFinishes
<1> QED BY <1>1, <1>4, BreakersKept, RegistryKept DEF McpInv

LEMMA SettleReturnsInv ==
  ASSUME McpInv, NEW c \in Calls, SettleReturns(c) PROVE McpInv'
  BY CallSettles, BreakersKept, RegistryKept DEF McpInv, SettleReturns, toolVars

LEMMA CoolInv == ASSUME McpInv, NEW t \in Tools, Cool(t) PROVE McpInv'
  BY BreakerCooled, CallsKept, RegistryKept DEF McpInv, Cool, toolVars

LEMMA RestartInv == ASSUME McpInv, Restart PROVE McpInv'
  BY BreakersFresh, CallsRestart, RegistryRestarts DEF McpInv, Restart

LEMMA McpStutter == ASSUME McpInv, UNCHANGED vars PROVE McpInv'
  BY BreakersKept, CallsKept, RegistryKept DEF McpInv, vars, callVars

LEMMA McpInductive == McpInv /\ [Next]_vars => McpInv'
<1> SUFFICES ASSUME McpInv, [Next]_vars PROVE McpInv'
  OBVIOUS
<1>1. ASSUME NEW c \in Calls, ToolsCall(c) \/ ResourcesRead(c) \/ UpstreamReturns(c)
      PROVE McpInv'
  BY <1>1, PayInv, VerifyReturnsInv, UpstreamReturnsInv, ExecutorReturnsInv,
     SettleReturnsInv DEF ToolsCall, ResourcesRead, Registered
<1> QED
  BY <1>1, RegisterInv, CoolInv, RestartInv, McpStutter DEF Next

LEMMA McpSafe == Spec => []McpInv
  BY McpInit, McpInductive, PTL DEF Spec

\* No more results than calls.
LEMMA McpTyped == ASSUME McpInv PROVE MTypeOK
<1>1. \A t \in Tools : /\ health[t] \in [calls : Nat, errors : Nat]
                       /\ health[t].calls <= Cardinality(Calls)
                       /\ health[t].errors <= Cardinality(Calls)
  <2> SUFFICES ASSUME NEW t \in Tools
               PROVE  /\ health[t] \in [calls : Nat, errors : Nat]
                      /\ health[t].calls <= Cardinality(Calls)
                      /\ health[t].errors <= Cardinality(Calls)
    OBVIOUS
  <2>1. health[t].calls = Cardinality(Done(t)) /\ health[t].errors = Cardinality(Wrong(t))
    BY DEF McpInv, CallInv, HealthCounts, Done, Wrong
  <2>2. Done(t) \subseteq Calls /\ Wrong(t) \subseteq Calls
    BY DEF Done, Wrong
  <2>3. health[t] \in [calls : Nat, errors : Nat]
    BY DEF McpInv, CallInv, CallTypes
  <2> QED BY <2>1, <2>2, <2>3, McpAssumption, FS_Subset
<1>2. Cardinality(Calls) \in Nat
  BY McpAssumption, FS_CardinalityType
<1>3. \A t \in Tools : health[t] \in [calls : 0 .. Cardinality(Calls),
                                      errors : 0 .. Cardinality(Calls)]
  BY <1>1, <1>2
<1> QED
  BY <1>3 DEF McpInv, BreakerInv, CallInv, CallTypes, RegistryInv, MTypeOK

-----------------------------------------------------------------------------

\* tool_circuit_breaker.ts:74-131: the breaker of every tool is open after
\* Threshold failures in a row and not before, and one that is half open has a
\* call on its way that will decide it, in whatever order late results come.
THEOREM BreakersSafe == Spec => []BreakersSound
<1>1. McpInv => BreakersSound
  BY McpTyped DEF McpInv, BreakerInv, BreakersSound
<1> QED BY <1>1, McpSafe, PTL

\* mcp_gateway.ts:380-391: what is settled was answered while the executor waited,
\* and the gateway saw no error in it (a broken body is settled: the run
\* erroneous_settlement).
THEOREM SettlementsAnswered == Spec => []SettledOnAnswer
<1>1. McpInv => SettledOnAnswer
  BY DEF McpInv, CallInv, CallTypes, CallsFit, SettledOnAnswer
<1> QED BY <1>1, McpSafe, PTL

\* mcp_gateway.ts:215-221 and mcp_registry_adapter.ts:300-339: tools are executed
\* where the registry says, and every result is counted once.
THEOREM RegistrySafe == Spec => []RegistrySound
<1>1. McpInv => RegistrySound
  BY DEF McpInv, CallInv, RegistryInv, RegistrySound
<1> QED BY <1>1, McpSafe, PTL

LEMMA OwnedStep ==
  ASSUME McpInv, Next, NEW t \in Tools, tool[t] # Missing, tool[t].owner # None
  PROVE  tool'[t].owner = tool[t].owner \/ FallsBack(t)
<1>1. CASE UNCHANGED tool
  BY <1>1
<1>2. ASSUME NEW o \in Tools, NEW who \in Owners, NEW payee \in Owners,
             NEW signs \in BOOLEAN, NEW endpoint \in Endpoints \cup {None},
             Register(o, who, payee, signs, endpoint)
      PROVE  tool'[t].owner = tool[t].owner
  <2>1. tool'[o].owner = payee /\ \A u \in Tools \ {o} : tool'[u] = tool[u]
    BY <1>2 DEF Register, McpInv, RegistryInv
  <2>2. t = o => tool[t].owner = payee
    BY <1>2 DEF Register, MayRegister, Registered
  <2> QED BY <2>1, <2>2
<1>3. CASE Restart
  <2>1. CASE t \in Builtin
    <3>1. tool'[t].owner = None
      BY <1>3, <2>1 DEF Restart, StartedRows, BuiltinRow
    <3>2. bounds.restarts \in Nat /\ bounds'.restarts = bounds.restarts - 1
      <4>1. bounds \in [registrations : 0 .. MaxRegistrations, restarts : 0 .. MaxRestarts]
        BY McpTyped DEF MTypeOK
      <4> QED BY <1>3, <4>1, McpAssumption DEF Restart
    <3> QED BY <2>1, <3>1, <3>2 DEF FallsBack
  <2>2. CASE t \notin Builtin
    BY <1>3, <2>2 DEF Restart, StartedRows
  <2> QED BY <2>1, <2>2
<1>4. ASSUME NEW c \in Calls, ToolsCall(c) \/ ResourcesRead(c) \/ UpstreamReturns(c)
      PROVE  UNCHANGED tool
  BY <1>4 DEF ToolsCall, ResourcesRead, UpstreamReturns, Pay, VerifyReturns, LocalReturns,
     ExecutionTimesOut, SettleReturns, toolVars
<1>5. CASE \E u \in Tools : Cool(u)
  BY <1>1, <1>5 DEF Cool, toolVars
<1> QED BY <1>1, <1>2, <1>3, <1>4, <1>5 DEF Next

\* mcp_gateway.ts:112-186: no registration gives a tool with an owner to another
\* one, and no restart either, except that a builtin tool falls back to the pool.
THEOREM OwnersSafe == Spec => OwnerKept
<1>1. McpInv /\ [Next]_vars =>
        [\A t \in Tools : tool[t] # Missing /\ tool[t].owner # None =>
           tool'[t].owner = tool[t].owner \/ FallsBack(t)]_vars
  BY OwnedStep
<1> QED BY <1>1, McpSafe, PTL DEF Spec, OwnerKept
=============================================================================
