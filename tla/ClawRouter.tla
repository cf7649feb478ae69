----------------------------- MODULE ClawRouter ------------------------------
(***************************************************************************)
(* Paid chat completions of the Claw router (src/router/router_server.ts)  *)
(* with the credits of src/router/two_phase_reconciler.ts, the matrix of   *)
(* src/router/arbitrage_matrix.ts and the slasher of                       *)
(* src/router/sla_slasher.ts.                                              *)
(*                                                                         *)
(* A request is one completion a client wants: the handler runs once       *)
(* without a payment and, after a 402, once more with a payment of the     *)
(* amount that was asked.  The handler is cut at its awaits: verify(),     *)
(* dispatch(), the slasher's reports, settle() and the stream.             *)
(*                                                                         *)
(* Abstracted: prompts, tokens, models and the averages of the latency:    *)
(* any order of the healthy providers may be a ranking, and a completion   *)
(* may cost anything up to MaxCost.  FallbackStream has the inside of      *)
(* dispatch() and of the stream.                                           *)
(***************************************************************************)
EXTENDS Integers, FiniteSets, Sequences, FiniteSetsExt, SequencesExt

CONSTANTS
  Requests,
  Clients, ClientOf, \* ClientOf[r]: the address in x-payer-address, or none
  NoClient,
  Providers,         \* registered in the matrix
  DefaultSpot,       \* the specification used when no provider is left
  Prices, ListPrice, \* what a completion is estimated at, and at start-up
  MaxCost,           \* bound: the cost of a completion that was delivered
  Saved,             \* the credits in the database when the router starts
  HasQueue, HasSlasher,  \* what the server was constructed with
  FailLimit,         \* consecutiveFailureLimit
  MayCrash,          \* the process may be killed
  WritesFail         \* a write of credits to SQLite may throw

Offered == Providers \cup {DefaultSpot}

ASSUME ClawAssumption ==
  /\ IsFiniteSet(Requests) /\ IsFiniteSet(Providers)
  /\ NoClient \notin Clients
  /\ DefaultSpot \notin Providers
  /\ ClientOf \in [Requests -> Clients \cup {NoClient}]
  /\ Prices \subseteq Nat \ {0}
  /\ ListPrice \in [Offered -> Prices]
  /\ MaxCost \in Nat
  /\ Saved \in [Clients -> Nat]
  /\ FailLimit \in Nat \ {0}
  /\ {HasQueue, HasSlasher, MayCrash, WritesFail} \subseteq BOOLEAN

VARIABLES
  stage,    \* stage[r]: where the handler is, or what the client was told
  ask,      \* ask[r]: the amount of the challenge, then of the payment
  due,      \* due[r]: requiredMicroUsdc
  price,    \* price[r]: pricingResult, the full price
  ranked,   \* ranked[r]: the providers handed to dispatch(), best first
  chosen,   \* chosen[r]: how many of them the dispatcher has come to
  cost,     \* cost[r]: the price of what was delivered
  credit,   \* creditLedger
  stored,   \* session_credits
  listed,   \* the prices in the matrix
  healthy, failures  \* the matrix and the slasher's failureCounts

rvars == <<stage, ask, due, price, ranked, chosen, cost>>
lvars == <<credit, stored>>
mvars == <<listed, healthy, failures>>
vars == <<rvars, lvars, mvars>>

Working == {"verifying", "dispatching", "rating", "settling", "streaming",
            "failing", "breaking", "unbooked"}
Answered == {"served", "cut", "rejected", "underpaid", "failed"}
Stages == {"new", "challenged", "dropped"} \cup Working \cup Answered

\* The client has all of its completion; what follows it may still be to come, or
\* was cut off when the process ended.
Delivered == {"served", "unbooked", "cut"}

CTypeOK ==
  /\ stage \in [Requests -> Stages]
  /\ ask \in [Requests -> Nat]
  /\ due \in [Requests -> Nat]
  /\ price \in [Requests -> Nat]
  /\ ranked \in [Requests -> Seq(Offered)]
  /\ \A r \in Requests : chosen[r] \in 0 .. Len(ranked[r])
  /\ cost \in [Requests -> 0 .. MaxCost]
  /\ credit \in [Clients -> Nat]
  /\ stored \in [Clients -> Nat]
  /\ listed \in [Providers -> Prices]
  /\ healthy \in [Providers -> BOOLEAN]
  /\ failures \in [Offered -> 0 .. FailLimit - 1]

Init ==
  /\ stage = [r \in Requests |-> "new"]
  /\ ask = [r \in Requests |-> 0]
  /\ due = [r \in Requests |-> 0]
  /\ price = [r \in Requests |-> 0]
  /\ ranked = [r \in Requests |-> <<>>]
  /\ chosen = [r \in Requests |-> 0]
  /\ cost = [r \in Requests |-> 0]
  /\ credit = Saved
  /\ stored = Saved
  /\ listed = [p \in Providers |-> ListPrice[p]]
  /\ healthy = [p \in Providers |-> TRUE]
  /\ failures = [p \in Offered |-> 0]

-----------------------------------------------------------------------------
(* The matrix and the slasher.                                             *)

HealthyOnes == {p \in Providers : healthy[p]}

\* getRankedProviders under one of its strategies; without a healthy provider
\* the router tries a built-in default.
Rankings ==
  IF HealthyOnes = {} THEN {<<DefaultSpot>>} ELSE SetToSeqs(HealthyOnes)

EstimateOf(p) == IF p \in Providers THEN listed[p] ELSE ListPrice[p]

\* updateHealth ignores a provider it does not know.
SetHealth(p, ok) == healthy' = [q \in Providers |-> IF q = p THEN ok ELSE healthy[q]]

\* reportTtft up to its call of the chain.
ReportTtft(p, slow) ==
  IF ~HasSlasher THEN UNCHANGED <<healthy, failures>>
  ELSE /\ SetHealth(p, ~slow)
       /\ failures' = [failures EXCEPT ![p] = IF slow THEN @ ELSE 0]

\* reportFailure up to its call of the chain.
ReportFailure(p) ==
  IF ~HasSlasher THEN UNCHANGED <<healthy, failures>>
  ELSE IF failures[p] + 1 >= FailLimit
       THEN SetHealth(p, FALSE) /\ failures' = [failures EXCEPT ![p] = 0]
       ELSE failures' = [failures EXCEPT ![p] = @ + 1] /\ UNCHANGED healthy

\* POST /api/v1/claw/spot-pricing.
IngestSpotPricing(p, amount) ==
  /\ listed[p] # amount
  /\ listed' = [listed EXCEPT ![p] = amount]
  /\ UNCHANGED <<rvars, lvars, healthy, failures>>

-----------------------------------------------------------------------------
(* The credits.                                                            *)

SetCredit(c, amount) ==
  /\ credit' = [credit EXCEPT ![c] = amount]
  /\ stored' = [stored EXCEPT ![c] = amount]

CreditOf(r) == IF ClientOf[r] = NoClient THEN 0 ELSE credit[ClientOf[r]]

LessOf(a, b) == IF a <= b THEN a ELSE b

\* applyCredit: what is left to pay, and the credit is gone.
Remaining(r, full) == full - LessOf(CreditOf(r), full)

ApplyCreditKept(r, full) ==
  IF CreditOf(r) < full THEN UNCHANGED lvars
  ELSE SetCredit(ClientOf[r], CreditOf(r) - full)

ApplyCredit(r, full) ==
  IF CreditOf(r) = 0 THEN UNCHANGED lvars
  ELSE SetCredit(ClientOf[r], CreditOf(r) - LessOf(CreditOf(r), full))

\* reconcile: an estimate above the cost becomes credit.
Unspent(r, actual) == ClientOf[r] # NoClient /\ price[r] > actual

Reconcile(r, actual) ==
  IF Unspent(r, actual)
  THEN SetCredit(ClientOf[r], CreditOf(r) + price[r] - actual)
  ELSE UNCHANGED lvars

-----------------------------------------------------------------------------
(* The handler.                                                            *)

Goto(r, where) == stage' = [stage EXCEPT ![r] = where]

\* Up to the 402 or the await on verify().
Estimate(r, list) ==
  /\ price' = [price EXCEPT ![r] = EstimateOf(list[1])]
  /\ due' = [due EXCEPT ![r] = Remaining(r, EstimateOf(list[1]))]
  /\ ranked' = [ranked EXCEPT ![r] = list]
  /\ ApplyCredit(r, EstimateOf(list[1]))

\* A request without a payment: credit covers all of it, or it is challenged.
AskUnpaid(r) ==
  /\ stage[r] = "new"
  /\ \E list \in Rankings :
       /\ Estimate(r, list)
       /\ IF Remaining(r, EstimateOf(list[1])) = 0
          THEN Goto(r, "dispatching") /\ UNCHANGED ask
          ELSE /\ Goto(r, "challenged")
               /\ ask' = [ask EXCEPT ![r] = Remaining(r, EstimateOf(list[1]))]
  /\ UNCHANGED <<chosen, cost, mvars>>

\* The same request with a payment of what was asked.  The payment is not even
\* looked at when credit covers the whole price meanwhile.
AskPaid(r) ==
  /\ stage[r] = "challenged"
  /\ \E list \in Rankings :
       /\ Estimate(r, list)
       /\ IF Remaining(r, EstimateOf(list[1])) = 0
          THEN Goto(r, "dispatching") /\ ask' = [ask EXCEPT ![r] = 0]
          ELSE Goto(r, "verifying") /\ UNCHANGED ask
  /\ UNCHANGED <<chosen, cost, mvars>>

\* verify(): the amount must cover what is due; the signature, the nonce or the
\* balance may be wrong all the same.
VerifyReturns(r) ==
  /\ stage[r] = "verifying"
  /\ \/ Goto(r, IF ask[r] >= due[r] THEN "dispatching" ELSE "underpaid")
     \/ Goto(r, "rejected")
  /\ UNCHANGED <<ask, due, price, ranked, chosen, cost, lvars, mvars>>

\* dispatch(): the first n - 1 providers of the ranking gave no first chunk.
DispatchReturns(r) ==
  /\ stage[r] = "dispatching"
  /\ Goto(r, "rating")
  /\ \E n \in 1 .. Len(ranked[r]), slow \in BOOLEAN :
       /\ chosen' = [chosen EXCEPT ![r] = n]
       /\ ReportTtft(ranked[r][n], slow)
  /\ UNCHANGED <<ask, due, price, ranked, cost, lvars, listed>>

DispatchFails(r) ==
  /\ stage[r] = "dispatching"
  /\ Goto(r, "failing")
  /\ ReportFailure(ranked[r][1])
  /\ UNCHANGED <<ask, due, price, ranked, chosen, cost, lvars, listed>>

\* reportTtft returns or throws; a payment is settled when there is a queue.
RatingReturns(r) ==
  /\ stage[r] = "rating"
  /\ Goto(r, IF HasQueue /\ ask[r] > 0 THEN "settling" ELSE "streaming")
  /\ UNCHANGED <<ask, due, price, ranked, chosen, cost, lvars, mvars>>

SettleReturnsBlaming(r) ==
  /\ stage[r] = "settling"
  /\ \/ Goto(r, "streaming") /\ UNCHANGED <<healthy, failures>>
     \/ Goto(r, "failing") /\ ReportFailure(ranked[r][1])
  /\ UNCHANGED <<ask, due, price, ranked, chosen, cost, lvars, listed>>

\* settle() returns or throws: the answer is marked as settled either way.
SettleReturns(r) ==
  /\ stage[r] = "settling"
  /\ Goto(r, "streaming")
  /\ UNCHANGED <<ask, due, price, ranked, chosen, cost, lvars, mvars>>

StreamEnds(r) ==
  /\ stage[r] = "streaming"
  /\ Goto(r, "served")
  /\ \E actual \in 0 .. MaxCost :
       /\ cost' = [cost EXCEPT ![r] = actual]
       /\ Reconcile(r, actual)
  /\ UNCHANGED <<ask, due, price, ranked, chosen, mvars>>

\* reconcile() raises the credit in memory and throws when it writes it, into the
\* catch that is meant for the dispatch: the primary is reported.
ReconcileThrows(r) ==
  /\ WritesFail
  /\ stage[r] = "streaming"
  /\ Goto(r, "unbooked")
  /\ \E actual \in 0 .. MaxCost :
       /\ Unspent(r, actual)
       /\ cost' = [cost EXCEPT ![r] = actual]
       /\ credit' = [credit EXCEPT ![ClientOf[r]] = @ + price[r] - actual]
  /\ ReportFailure(ranked[r][1])
  /\ UNCHANGED <<ask, due, price, ranked, chosen, stored, listed>>

\* The last provider of the chain broke in mid-stream.
StreamBreaks(r) ==
  /\ stage[r] = "streaming"
  /\ Goto(r, "breaking")
  /\ chosen' = [chosen EXCEPT ![r] = Len(ranked[r])]
  /\ ReportFailure(ranked[r][1])
  /\ UNCHANGED <<ask, due, price, ranked, cost, lvars, listed>>

AnswerFailureUnslashed(r) ==
  /\ stage[r] = "failing"
  /\ failures[ranked[r][1]] > 0
  /\ Goto(r, "failed")
  /\ UNCHANGED <<ask, due, price, ranked, chosen, cost, lvars, mvars>>

\* The 502 of a request that has sent nothing yet.
AnswerFailure(r) ==
  /\ stage[r] = "failing"
  /\ Goto(r, "failed")
  /\ UNCHANGED <<ask, due, price, ranked, chosen, cost, lvars, mvars>>

\* The process ends, with the requests of here among those it was working on; a
\* new one loads the credits and registers its providers.
ProcessEnds(here) ==
  /\ stage' = [r \in Requests |->
                 IF stage[r] = "unbooked" THEN "cut"
                 ELSE IF stage[r] \in Working \/ r \in here THEN "dropped" ELSE stage[r]]
  /\ credit' = stored
  /\ listed' = [p \in Providers |-> ListPrice[p]]
  /\ healthy' = [p \in Providers |-> TRUE]
  /\ failures' = [p \in Offered |-> 0]
  /\ UNCHANGED <<ask, due, price, ranked, chosen, cost, stored>>

Restart == ProcessEnds({})

\* The 502 after the headers were sent: json() throws out of the handler, and
\* nothing handles the rejected promise.
AnswerBroken(r) ==
  /\ stage[r] \in {"breaking", "unbooked"}
  /\ Restart

\* applyCredit() throws when it writes, outside of any try.
ApplyThrows(r) ==
  /\ WritesFail
  /\ stage[r] \in {"new", "challenged"}
  /\ CreditOf(r) # 0
  /\ ProcessEnds({r})

Crash == MayCrash /\ Restart

Step(r) ==
  \/ VerifyReturns(r) \/ DispatchReturns(r) \/ DispatchFails(r)
  \/ RatingReturns(r) \/ SettleReturns(r) \/ StreamEnds(r) \/ ReconcileThrows(r)
  \/ StreamBreaks(r) \/ AnswerFailure(r) \/ AnswerBroken(r)

Next ==
  \/ \E r \in Requests : AskUnpaid(r) \/ AskPaid(r) \/ ApplyThrows(r) \/ Step(r)
  \/ \E p \in Providers, amount \in Prices : IngestSpotPricing(p, amount)
  \/ Crash

Spec == Init /\ [][Next]_vars

-----------------------------------------------------------------------------
(* Properties.                                                             *)

Of(c) == {r \in Requests : ClientOf[r] = c}
SumOver(S, f) == MapThenSumSet(LAMBDA r : f[r], S)
Served(c) == {r \in Of(c) : stage[r] \in Delivered}

\* No credit comes from nowhere: what a client was served and what it still has
\* as credit never exceed its old credit and the payments accepted for what it
\* was served, however its requests overlap, whatever the matrix charges
\* meanwhile and across restarts (two_phase_reconciler.ts:76-101,
\* router_server.ts:241-246, 364-381).
CreditEarned ==
  \A c \in Clients :
    credit[c] + SumOver(Served(c), [r \in Requests |-> LessOf(cost[r], price[r])])
      <= Saved[c] + SumOver(Served(c), ask)

\* The database never promises more than memory, and it has all of a client's
\* credit, so that no restart loses any, unless a write has failed whose request
\* is about to end the process (two_phase_reconciler.ts:44-50, 76-101).
CreditDurable ==
  \A c \in Clients :
    /\ stored[c] <= credit[c]
    /\ stored[c] = credit[c] \/ \E r \in Of(c) : stage[r] = "unbooked"

\* The clients' credits are what they earned, in memory and on disk.
CreditSound == CTypeOK /\ CreditEarned /\ CreditDurable

\* A provider is marked unhealthy, or has a failure counted, only by a request
\* that waited for it and that it, or the whole chain behind it, let down, and
\* never for what verify(), the settlement or the chain did wrong; with one
\* exception, which the code does not tell apart: the primary of a completion
\* whose credit could not be written is blamed although it did its part
\* (sla_slasher.ts:71-101, router_server.ts:316-322, 338-340, 377, 393-399).
LetDown(r, p) ==
  \E i \in 1 .. Len(ranked[r]) :
    /\ ranked[r][i] = p
    /\ \/ stage[r] = "dispatching" /\ (stage'[r] = "failing" \/ i = chosen'[r])
       \/ stage[r] = "streaming" /\ stage'[r] = "breaking"

BlamedForWrite(r, p) ==
  /\ stage[r] = "streaming" /\ stage'[r] = "unbooked"
  /\ credit'[ClientOf[r]] # stored'[ClientOf[r]]
  /\ p = ranked[r][1]

BlameJustified ==
  [][\A p \in Providers :
       (healthy[p] /\ ~healthy'[p]) \/ failures'[p] > failures[p] =>
         \E r \in Requests : LetDown(r, p) \/ BlamedForWrite(r, p)]_vars

\* No request is worked on for ever: each that was admitted is answered, or the
\* process goes down with it (router_server.ts:307-402).
CallsEnd ==
  \A r \in Requests : []<>(stage[r] \notin Working)

-----------------------------------------------------------------------------
(* What the protocol promises and the code does not do.                    *)

\* "creditApplied" in the challenge (router_server.ts:260): a payment of the
\* amount asked in a 402 is enough.
ChallengeHonoured == \A r \in Requests : stage[r] # "underpaid"
=============================================================================
