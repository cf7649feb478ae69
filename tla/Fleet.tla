-------------------------------- MODULE Fleet --------------------------------
(***************************************************************************)
(* The bots of src/services/fleet_service.ts, with the daemon that funds   *)
(* the relayers they use.  executeBotStep, which POST .../fleet/step runs  *)
(* for every request, reads the bot's nonce from the network, signs a      *)
(* payment that a relayer of the bot's shard pays the gas for, broadcasts  *)
(* it, asks for a completion and counts the run.  Nothing keeps two steps  *)
(* of one bot apart.                                                       *)
(*                                                                         *)
(* Abstracted: prompts, completions and what statuses report.              *)
(***************************************************************************)
EXTENDS Treasury

CONSTANTS
  Steps,       \* requests for a step
  BotOf,       \* BotOf[s]: the bot it is for
  RelayerOf    \* RelayerOf[b]: the relayer of the bot's shard

Bots == {BotOf[s] : s \in Steps}

ASSUME FleetAssumption ==
  /\ IsFiniteSet(Steps)
  /\ RelayerOf \in [Bots -> Relayers]

VARIABLES
  step,       \* step[s]: what executeBotStep waits for
  nonce,      \* nonce[s]: the nonce of its payment, once it was read
  account,    \* account[b]: the bot's nonce on the network
  held,       \* payments the network holds
  executed,   \* payments it executed
  runs        \* runs[b]: runsCount

fvars == <<step, nonce, account, held, executed, runs>>
vars == <<tvars, fvars>>

Ended == {"done", "failed"}

FTypeOK ==
  /\ step \in [Steps -> {"new", "reading", "sending", "completing"} \cup Ended]
  /\ nonce \in [Steps -> Nat]
  /\ account \in [Bots -> Nat]
  /\ held \subseteq Steps /\ executed \subseteq Steps
  /\ runs \in [Bots -> 0 .. Cardinality(Steps)]

Init ==
  /\ TInit
  /\ step = [s \in Steps |-> "new"]
  /\ nonce = [s \in Steps |-> 0]
  /\ account = [b \in Bots |-> 0]
  /\ held = {} /\ executed = {}
  /\ runs = [b \in Bots |-> 0]

Move(s, to) == step' = [step EXCEPT ![s] = to]

-----------------------------------------------------------------------------

AskForStep(s) ==
  /\ step[s] = "new"
  /\ Move(s, "reading")
  /\ UNCHANGED <<tvars, nonce, account, held, executed, runs>>

NonceRead(s) == account[BotOf[s]]

\* getAccount(bot)
BotReads(s) ==
  /\ step[s] = "reading"
  /\ \/ /\ nonce' = [nonce EXCEPT ![s] = NonceRead(s)]
        /\ Move(s, "sending")
        /\ UNCHANGED bounds
     \/ Fault /\ Move(s, "failed") /\ UNCHANGED nonce
  /\ UNCHANGED <<daemon, localNonce, phase, cursor, acct, pool, low,
                 account, held, executed, runs>>

\* The network refuses a payment whose nonce has passed.
Kept(s) == IF nonce[s] >= account[BotOf[s]] THEN held \cup {s} ELSE held

\* mutant: an answer without a hash is taken for one.
BotSendsBlind(s) ==
  /\ step[s] = "sending"
  /\ \/ held' = Kept(s) /\ UNCHANGED bounds
     \/ Fault /\ held' \in {held, Kept(s)}
  /\ Move(s, "completing")
  /\ UNCHANGED <<daemon, localNonce, phase, cursor, acct, pool, low,
                 nonce, account, executed, runs>>

\* POST /transaction/send: an answer without a hash is an error, and so is one
\* that is lost.
BotSends(s) ==
  /\ step[s] = "sending"
  /\ \/ /\ held' = Kept(s)
        /\ Move(s, IF s \in Kept(s) THEN "completing" ELSE "failed")
        /\ UNCHANGED bounds
     \/ /\ Fault
        /\ held' \in {held, Kept(s)}
        /\ Move(s, "failed")
  /\ UNCHANGED <<daemon, localNonce, phase, cursor, acct, pool, low,
                 nonce, account, executed, runs>>

\* Gemini completes or fails: the run is counted all the same.
Completes(s) ==
  /\ step[s] = "completing"
  /\ Move(s, "done")
  /\ runs' = [runs EXCEPT ![BotOf[s]] = @ + 1]
  /\ UNCHANGED <<tvars, nonce, account, held, executed>>

ExecuteBotStep(s) == AskForStep(s) \/ BotReads(s) \/ BotSends(s) \/ Completes(s)

\* The network executes the payment, while the relayer can pay for the gas, and
\* drops what has the same nonce.
ExecutePayment(s) ==
  LET b == BotOf[s]
      r == RelayerOf[b]
  IN  /\ s \in held
      /\ nonce[s] = account[b]
      /\ r \notin low
      /\ account' = [account EXCEPT ![b] = @ + 1]
      /\ held' = {o \in held : BotOf[o] = b => nonce[o] > nonce[s]}
      /\ executed' = executed \cup {s}
      /\ \/ UNCHANGED <<low, bounds>>
         \/ /\ bounds.drains > 0
            /\ low' = low \cup {r}
            /\ bounds' = [bounds EXCEPT !.drains = @ - 1]
      /\ UNCHANGED <<daemon, localNonce, phase, cursor, acct, pool, step, nonce, runs>>

\* A restart of the process ends the steps under way, and forgets the runs.
RestartAll ==
  /\ Restart
  /\ step' = [s \in Steps |-> IF step[s] = "new" THEN "new"
                              ELSE IF step[s] \in Ended THEN step[s] ELSE "failed"]
  /\ runs' = [b \in Bots |-> 0]
  /\ UNCHANGED <<nonce, account, held, executed>>

Next ==
  \/ (Check \/ Execute \/ \E r \in Relayers : Drain(r)) /\ UNCHANGED fvars
  \/ \E s \in Steps : ExecuteBotStep(s) \/ ExecutePayment(s)
  \/ RestartAll

Spec == Init /\ [][Next]_vars

\* As for the daemon alone; a payment is executed once its relayer stays funded.
Fairness ==
  /\ WF_vars(Check /\ UNCHANGED fvars)
  /\ WF_vars(Execute /\ UNCHANGED fvars)
  /\ \A s \in Steps :
       /\ WF_vars(ExecuteBotStep(s) /\ step[s] # "new")
       /\ WF_vars(ExecutePayment(s))
FairSpec == Spec /\ Fairness

-----------------------------------------------------------------------------

TypeOK == TTypeOK /\ FTypeOK

\* A payment of a bot is the next one of its account when it comes to the
\* network: it waits for nothing but gas.
NothingAhead == \A s \in held : nonce[s] = account[BotOf[s]]

\* Whoever numbers its transactions itself, the daemon or a bot, neither leaves a
\* gap before one nor runs into one of its own, as far as it promises that.
NoncesSound == TypeOK /\ NoGap /\ NoncesApart /\ NothingAhead

\* What a bot reports as a run left a payment on the network, or another step of
\* that bot took its place there: overlapping steps share their nonce.
RunsArePaid ==
  \A s \in Steps : step[s] = "done" =>
    \E o \in held \cup executed : BotOf[o] = BotOf[s] /\ nonce[o] = nonce[s]

\* With the sentinel a payment the network has is executed, or one with the same
\* nonce is: its relayer gets gas again.
PaymentsExecute ==
  \A s \in Steps : (daemon = Sentinel /\ s \in held) ~> s \notin held

\* The sentinel does what it is for: the relayers are refilled, and what they pay
\* the gas for is executed (relayer_gas_sentinel.ts:137-285, README.md:465).
GasArrives == Refilled /\ PaymentsExecute
=============================================================================
