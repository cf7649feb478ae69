----------------------------- MODULE PaidRequest -----------------------------
(***************************************************************************)
(* A paid call from end to end: the agent of AgentClient, the chat and     *)
(* messages routes of src/gateway/blockrun_gateway.ts behind their rate    *)
(* limiter (for the SDK: the edge tollbooth of packages/tollbooth-edge and *)
(* the origin behind it), and the payer's account on the network.          *)
(*                                                                         *)
(* The gateway verifies, settles and infers in this order, one request at  *)
(* a time per call, and goes on when the client has given up.  What        *)
(* settling is made of is the subject of Settlement; here a settlement     *)
(* reaches the network or not, whatever it reports.                        *)
(***************************************************************************)
EXTENDS AgentClient, PaymentVerifier

CONSTANTS
  Gateways,   \* deployments: [upstream: handler, gemini or none; timed: is
              \* upstreamTimeoutMs set; pool, provider: what the verifier has;
              \* limited: is the rate limiter enabled]
  RateMax,    \* requests a window of the rate limiter admits
  Presented   \* what a payment may be when it arrives: what these clients make,
              \* and what a client, its clock or new terms may have made of it

ASSUME GatewayAssumption ==
  /\ Gateways \subseteq [upstream : {"handler", "gemini", "none"}, timed : BOOLEAN,
                         pool : BOOLEAN, provider : BOOLEAN,
                         limited : BOOLEAN]
  /\ RateMax \in Nat \ {0}
  /\ Presented \subseteq Payment

VARIABLES
  gw,        \* the gateway's deployment
  count,     \* requests of this window, saturated at RateMax
  at,        \* at[c]: what the server is doing for the call
  verified,  \* verified[c]: the payment verify() found valid, {} before
  acct,      \* the account's nonce on the network
  sent,      \* calls whose payment the network took
  executed,  \* calls whose payment it executed
  unseen     \* history: the most that the calls past their limits had still to
             \* book when one more call passed them

svars == <<gw, count, at, verified, acct, sent, executed>>
vars == <<cvars, svars, unseen>>

Stages == {"idle", "verifying", "settling", "inferring", "forwarded"}

PTypeOK ==
  /\ lib \in Libraries
  /\ method \in [Calls -> Methods]
  /\ phase \in [Calls -> Phases]
  /\ {nonce, seen} \subseteq [Calls -> Nat \cup {None}]
  /\ relayer \in [Calls -> {"shard", "other"}]
  /\ consent \in [Calls -> BOOLEAN]
  /\ nextNonce \in Nat \cup {None}
  /\ known \in BOOLEAN
  /\ spend \in Nat
  /\ wire \in [Calls -> {"none", "plain", "paid"}]
  /\ reply \in [Calls -> Replies]
  /\ gw \in Gateways
  /\ count \in 0 .. RateMax
  /\ at \in [Calls -> Stages]
  /\ verified \in [Calls -> SUBSET Payment]
  /\ unseen \in Nat
  /\ acct \in Nat
  /\ executed \subseteq sent /\ sent \subseteq Calls

PInit ==
  /\ Init
  /\ gw \in Gateways
  /\ count = 0
  /\ at = [c \in Calls |-> "idle"]
  /\ verified = [c \in Calls |-> {}]
  /\ unseen = 0
  /\ acct = StartNonce
  /\ sent = {}
  /\ executed = {}

-----------------------------------------------------------------------------

\* What may arrive for the call: with the relayer it was given, and signed over
\* the bytes others rebuild only if its client does that.
PaymentsOf(c) ==
  {[p EXCEPT !.signed = @ /\ consent[c], !.relayer = relayer[c]] : p \in Presented}

\* The network's answer to the simulation: a nonce below the account's is stale,
\* one above it may be taken or not.
SimulationsOf(c) ==
  IF ~gw.provider THEN {"off"}
  ELSE {"funds", "rejected", "unreachable"}
         \cup (IF nonce[c] >= acct THEN {"ok"} ELSE {})
         \cup (IF nonce[c] # acct THEN {"stale"} ELSE {})

Stage(c, s) == at' = [at EXCEPT ![c] = s]

\* The answer reaches a client that still listens to this request.
Answer(c, r) ==
  reply' = IF Listening(c) THEN [reply EXCEPT ![c] = r] ELSE reply

\* createRateLimiter: one more request in the window.
Counted == count' = IF gw.limited THEN Min({count + 1, RateMax}) ELSE count

Admitted == count < RateMax

\* The window passes, or the record is pruned.
WindowEnds ==
  /\ count > 0
  /\ count' = 0
  /\ UNCHANGED <<cvars, gw, at, verified, acct, sent, executed, unseen>>

\* POST /api/v1/chat/completions and /api/v1/messages, up to their first await.
Receive(c) ==
  /\ lib # Sdk /\ wire[c] # "none" /\ at[c] = "idle"
  /\ Counted
  /\ wire' = [wire EXCEPT ![c] = "none"]
  /\ \/ ~Admitted /\ Answer(c, "error") /\ UNCHANGED at
     \/ Admitted /\ wire[c] = "plain" /\ Answer(c, "challenge") /\ UNCHANGED at
     \/ Admitted /\ wire[c] = "paid" /\ Stage(c, "verifying") /\ UNCHANGED reply
  /\ UNCHANGED <<lib, method, phase, nonce, seen, relayer, consent, nextNonce,
                 known, spend, gw, verified, acct, sent, executed, unseen>>

\* Payments verify() may call valid, and those it may not, as the network answers.
Accepted(c) ==
  {p \in PaymentsOf(c) : \E sim \in SimulationsOf(c) : Verdict(p, gw.pool, sim) = Valid}
Refused(c) ==
  {p \in PaymentsOf(c) : \E sim \in SimulationsOf(c) : Verdict(p, gw.pool, sim) # Valid}

\* The verifier's verdict: on, or 402 without requirements, the 500 of next(err).
Verify(c) ==
  /\ at[c] = "verifying"
  /\ \/ /\ \E p \in Accepted(c) : verified' = [verified EXCEPT ![c] = {p}]
        /\ Stage(c, "settling")
        /\ UNCHANGED reply
     \/ /\ Refused(c) # {}
        /\ Stage(c, "idle")
        /\ Answer(c, "error")
        /\ UNCHANGED verified
  /\ UNCHANGED <<lib, method, phase, nonce, seen, relayer, consent, nextNonce,
                 known, spend, wire, gw, count, acct, sent, executed, unseen>>

\* The network keeps a transaction whose nonce is not behind the account's.
Broadcast(c) ==
  IF nonce[c] >= acct THEN sent' \in {sent, sent \cup {c}} ELSE UNCHANGED sent

\* executeSettlement: inference follows whatever it returns.
Settle(c) ==
  /\ at[c] = "settling"
  /\ Broadcast(c)
  /\ Stage(c, "inferring")
  /\ UNCHANGED <<cvars, gw, count, verified, acct, executed, unseen>>

\* A handler may fail (500) or be timed out (504); a failure of Gemini is made
\* up for by a mock completion.
Inferences == IF gw.upstream = "handler" THEN {"ok", "error"} ELSE {"ok"}

\* A handler without upstreamTimeoutMs may never come back: see Fairness.
Infer(c) ==
  /\ at[c] = "inferring"
  /\ Stage(c, "idle")
  /\ \E r \in Inferences : Answer(c, r)
  /\ UNCHANGED <<lib, method, phase, nonce, seen, relayer, consent, nextNonce,
                 known, spend, wire, gw, count, verified, acct, sent, executed,
                 unseen>>

-----------------------------------------------------------------------------

\* handleFetch: a bot without a payment header is told the price, any payment
\* header goes through to the origin.
EdgeReceive(c) ==
  /\ lib = Sdk /\ wire[c] # "none" /\ at[c] = "idle"
  /\ wire' = [wire EXCEPT ![c] = "none"]
  /\ \/ wire[c] = "plain" /\ Answer(c, "challenge") /\ UNCHANGED at
     \/ wire[c] = "paid" /\ Stage(c, "forwarded") /\ UNCHANGED reply
  /\ UNCHANGED <<lib, method, phase, nonce, seen, relayer, consent, nextNonce,
                 known, spend, gw, count, verified, acct, sent, executed, unseen>>

\* The publisher's own server: it may broadcast the payment or ignore it.
OriginAnswers(c) ==
  /\ at[c] = "forwarded"
  /\ Broadcast(c)
  /\ Stage(c, "idle")
  /\ \E r \in {"ok", "error"} : Answer(c, r)
  /\ UNCHANGED <<lib, method, phase, nonce, seen, relayer, consent, nextNonce,
                 known, spend, wire, gw, count, verified, acct, executed, unseen>>

-----------------------------------------------------------------------------

\* GET /relayer/address/:userAddress: limited, without a pool (503), or lost.
ResolveRelayer(c) ==
  /\ Counted
  /\ \E found \in {FALSE, Admitted /\ gw.pool} : Resolve(c, found)
  /\ UNCHANGED <<gw, at, verified, acct, sent, executed, unseen>>

AskAccount(c) ==
  /\ \E n \in {None, acct} : ReadAccount(c, n)
  /\ UNCHANGED <<svars, unseen>>

\* The network executes the account's transactions in the order of their nonces.
Execute(c) ==
  /\ c \in sent \ executed
  /\ nonce[c] = acct
  /\ acct' = acct + 1
  /\ executed' = executed \cup {c}
  /\ UNCHANGED <<cvars, gw, count, at, verified, sent, unseen>>

\* Calls that have passed the limits and not booked their price.
Passed ==
  {c \in Calls : \/ phase[c] \in {"resolving", "numbering", "told"}
                 \/ phase[c] = "paying" /\ lib # Sdk
                 \/ phase[c] = "reading" /\ method[c] = "chat"}

CostOf(S) == MapThenSumSet(LAMBDA c : PriceOf[c], S)

\* What a call that passes the limits does not see of the session's spending.
Noted(c) ==
  unseen' = IF phase[c] = "asking" /\ phase'[c] \in {"resolving", "numbering"}
            THEN Max({unseen, CostOf(Passed)}) ELSE unseen

ClientStep(c) == Call(c) /\ Noted(c) /\ UNCHANGED svars

\* The messages route takes the same steps as the chat route.
GatewayRoute(c) == Receive(c) \/ Verify(c) \/ Settle(c) \/ Infer(c)

Next ==
  \/ WindowEnds
  \/ \E c \in Calls :
       \/ ClientStep(c) \/ ResolveRelayer(c) \/ AskAccount(c)
       \/ GatewayRoute(c) \/ EdgeReceive(c) \/ OriginAnswers(c)
       \/ Execute(c)

\* The event loops run, requests on a connection arrive, timers fire, and the
\* network executes what it can: one of these steps is taken while there is one.
\* The origin owes no answer, a handler owes one only when it is timed, and the
\* SDK never stops waiting by itself.
Owed(c) ==
  \/ ClientStep(c) /\ phase[c] # "new" /\ (lib = Sdk => ~Listening(c))
  \/ ResolveRelayer(c) \/ AskAccount(c) \/ EdgeReceive(c) \/ Execute(c)
  \/ GatewayRoute(c) /\ (at[c] = "inferring" => gw.timed \/ gw.upstream # "handler")

Fairness == \A c \in Calls : WF_vars(Owed(c))

Spec == PInit /\ [][Next]_vars
FairSpec == Spec /\ Fairness

-----------------------------------------------------------------------------

\* Two payments of an agent or of a Python client never share a nonce, however
\* their calls overlap: the second would never be executed.  (getAccountNonce,
\* blockrun_mvx_client.ts:280: the read and the increment are either side of an
\* await.)
NoncesDistinct ==
  lib # Sdk =>
    \A c, d \in Calls : Numbered(c) /\ nonce[c] = nonce[d] => c = d

\* A payment of an agent that was told the account's nonce stays executable: the
\* account does not overtake it while it is under way.
NonceUsable ==
  lib = Agent =>
    \A c \in Calls \ executed :
      Numbered(c) /\ seen[c] # None => nonce[c] >= acct

\* What an agent's broadcast payment waits for on the network is its own earlier
\* calls: every nonce below it was given to one of them.
GapExplained ==
  lib = Agent =>
    \A c \in sent \ executed : \A n \in acct .. nonce[c] - 1 :
      \E d \in Calls : nonce[d] = n

\* The nonces of overlapping calls fit the account they are for: none is shared,
\* overtaken, or left behind a number that no call holds
\* (blockrun_mvx_client.ts:280-296).
NoncesFit == PTypeOK /\ NoncesDistinct /\ NonceUsable /\ GapExplained

\* maxSessionCost (maxTotalBudgetUsd) bounds what a client books.  It is passed
\* only where calls overlap, and then by no more than what one of them could not
\* see at its check: the prices of the calls that had passed theirs and not booked.
SpendBounded == spend <= MaxSession + unseen

\* What was executed on chain for a call that came back well is booked.
\* (README.md:184; a payment whose call then failed is not.)
PaidIsBooked ==
  CostOf({c \in executed : phase[c] = "done"}) <= spend

\* What a session has spent is neither more than its limit and what overlapped
\* allow, nor less than the chain shows: calls that do not overlap stay within the
\* limit, however many they are (blockrun_mvx_client.ts:338-364, 435).
SpendKept == SpendBounded /\ PaidIsBooked

PaidFor(c) == \E p \in verified[c] : Pays(Decoded(p))

\* Whatever arrives as a payment, the gateway settles and infers for a call, and a
\* client gets what it paid for, only on a payment that verify() took as it was:
\* that moves the money asked for to the merchant, now, with its payer's consent
\* (blockrun_gateway.ts:879-947).  Data in base64 counts as what it decodes to.
\* Whether the settlement then succeeds is not part of it: the routes infer after
\* one that failed, too.
ServedIsVerified ==
  lib # Sdk =>
    \A c \in Calls :
      at[c] \in {"settling", "inferring"} \/ (phase[c] = "paying" /\ reply[c] = "ok")
        => PaidFor(c)

\* A call of a client with a timeout has come to its end.
ClientsEnd == \A c \in Calls : lib # Sdk => phase[c] \in Ended \cup {"new"}

\* A request the gateway took up is answered, unless its handler may hang.
GatewayAnswers ==
  \A c \in Calls :
    lib # Sdk /\ (gw.timed \/ gw.upstream # "handler") => at[c] = "idle"

\* Neither side of a call waits for ever, whatever the network and the other calls
\* do: the client's timeouts cover both of its requests
\* (blockrun_mvx_client.ts:315 and 421), and the gateway comes to an answer also
\* for a client that has left (blockrun_gateway.ts:819-1035).
CallsEnd == <>[](ClientsEnd /\ GatewayAnswers)

\* Every payment an agent has on the network is in the end executed, or waits
\* behind a nonce whose call signed it and has not got there: the count of
\* getAccountNonce (blockrun_mvx_client.ts:280-296) leaves no gap of its own.
Blocked(c) == \E d \in Calls \ sent : nonce[d] \in acct .. nonce[c] - 1
PaymentsMove ==
  <>[](\A c \in Calls : lib = Agent /\ c \in sent => c \in executed \/ Blocked(c))
=============================================================================
