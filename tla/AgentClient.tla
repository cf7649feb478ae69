----------------------------- MODULE AgentClient -----------------------------
(***************************************************************************)
(* An agent that pays for what it calls: BlockRunMvxClient                 *)
(* (src/client/blockrun_mvx_client.ts), the Python client                  *)
(* (python/blockrun_mvx/client.py) and MultiversxX402Client                *)
(* (packages/client-sdk/src/client.ts), one library and one wallet in a    *)
(* behaviour.                                                              *)
(*                                                                         *)
(* A call sends its request without a payment, is told the price, checks   *)
(* its limits, resolves a relayer, takes a nonce, signs, and sends the     *)
(* request again.  Every await is a place where another call of the same   *)
(* client may run; Python's calls do not overlap.  The server and the      *)
(* network are PaidRequest's: actions here take what they answer as a      *)
(* parameter.                                                              *)
(*                                                                         *)
(* Abstracted: models, prompts, the encoding of headers and the bytes that *)
(* are signed.                                                             *)
(***************************************************************************)
EXTENDS Integers, FiniteSets, FiniteSetsExt

CONSTANTS
  Calls,
  PriceOf,       \* PriceOf[c]: the amount of the 402
  Libraries,     \* the libraries the agent may have been written with
  Concurrency,   \* bound: calls under way at once, of the asynchronous clients
  MaxPerCall,    \* maxCostPerCall
  MaxSession,    \* maxSessionCost
  StartNonce     \* the account's nonce when the client is constructed

Agent == "agent"     \* blockrun_mvx_client.ts
Python == "python"   \* client.py
Sdk == "sdk"         \* client-sdk

ASSUME ClientAssumption ==
  /\ IsFiniteSet(Calls)
  /\ PriceOf \in [Calls -> Nat \ {0}]
  /\ Libraries \subseteq {Agent, Python, Sdk}
  /\ Concurrency \in Nat \ {0}
  /\ {MaxPerCall, MaxSession, StartNonce} \subseteq Nat

VARIABLES
  lib,        \* the library
  method,     \* method[c]: "chat", "stream" or "fetch", of the three loops of
              \* blockrun_mvx_client.ts; always "chat" with the other libraries
  phase,      \* phase[c]: where the call is
  nonce,      \* nonce[c]: the nonce of its payment, or None
  seen,       \* seen[c]: the account nonce it was told, or None
  relayer,    \* relayer[c]: "shard" or "other" once it was resolved
  consent,    \* consent[c]: its signature is over the bytes others rebuild
  nextNonce,  \* localNonce; the SDK's cachedNonce, None before it is known
  known,      \* the relayer's address is cached
  spend,      \* sessionSpendUsd, totalSpentUsd
  wire,       \* wire[c]: its request on the way to the server, "none" once read
  reply       \* reply[c]: the answer to it, or Unanswered

cvars == <<lib, method, phase, nonce, seen, relayer, consent, nextNonce, known,
           spend, wire, reply>>

None == -1
Unanswered == "unanswered"

\* "challenge" is a 402 with requirements; a 402 without them and every other
\* status are the same to a client, "error".
Replies == {Unanswered, "ok", "challenge", "error"}

Phases == {"new", "asking", "resolving", "numbering", "told", "paying",
           "reading", "done", "failed"}
Ended == {"done", "failed"}

Methods == {"chat", "stream", "fetch"}

UnderWay == {c \in Calls : phase[c] \notin Ended \cup {"new"}}
Numbered(c) == nonce[c] # None

Init ==
  /\ lib \in Libraries
  /\ method = [c \in Calls |-> "chat"]
  /\ phase = [c \in Calls |-> "new"]
  /\ nonce = [c \in Calls |-> None]
  /\ seen = [c \in Calls |-> None]
  /\ relayer = [c \in Calls |-> "other"]
  /\ consent = [c \in Calls |-> TRUE]
  /\ nextNonce = IF lib = Sdk THEN None ELSE 0
  /\ known = FALSE
  /\ spend = 0
  /\ wire = [c \in Calls |-> "none"]
  /\ reply = [c \in Calls |-> Unanswered]

-----------------------------------------------------------------------------

Move(c, p) == phase' = [phase EXCEPT ![c] = p]

\* Waiting for the response: the answer of a call that gave up is not read.
Listening(c) == phase[c] \in {"asking", "paying"} /\ reply[c] = Unanswered

\* The request goes out, with the payment or without.
Post(c, what) ==
  /\ wire' = [wire EXCEPT ![c] = what]
  /\ UNCHANGED reply

Consume(c) == reply' = [reply EXCEPT ![c] = Unanswered]

\* The first, unpaid request.
Ask(c, m) ==
  /\ phase[c] = "new"
  /\ Cardinality(UnderWay) < IF lib = Python THEN 1 ELSE Concurrency
  /\ method' = [method EXCEPT ![c] = m]
  /\ Move(c, "asking")
  /\ Post(c, "plain")
  /\ UNCHANGED <<lib, nonce, seen, relayer, consent, nextNonce, known, spend>>

\* A response that is not a 402 ends the call: with what it asked for, or not.
AnsweredFree(c) ==
  /\ phase[c] = "asking"
  /\ reply[c] \notin {Unanswered, "challenge"}
  /\ Move(c, IF reply[c] = "ok" THEN "done" ELSE "failed")
  /\ Consume(c)
  /\ UNCHANGED <<lib, method, nonce, seen, relayer, consent, nextNonce, known,
                 spend, wire>>

\* mutant: the session's limit is forgotten.
WithinCallLimit(c) == PriceOf[c] <= MaxPerCall

\* The limits, against what was spent by the calls that are over.
WithinLimits(c) ==
  /\ PriceOf[c] <= MaxPerCall
  /\ spend + PriceOf[c] <= MaxSession

\* The 402: a price above a limit is the end of the call; otherwise a relayer
\* is resolved, unless it is known, and the SDK first takes its nonce.
Challenged(c) ==
  /\ phase[c] = "asking" /\ reply[c] = "challenge"
  /\ IF ~WithinLimits(c) THEN Move(c, "failed") /\ UNCHANGED relayer
     ELSE /\ Move(c, IF lib = Sdk \/ known THEN "numbering" ELSE "resolving")
          /\ relayer' = [relayer EXCEPT ![c] = IF known THEN "shard" ELSE "other"]
  /\ Consume(c)
  /\ UNCHANGED <<lib, method, nonce, seen, consent, nextNonce, known, spend, wire>>

\* The SDK resolves the relayer last, so it signs next and books the cost.
SignWithSdk(c) ==
  /\ spend' = spend + PriceOf[c]
  /\ Move(c, "paying")
  /\ Post(c, "paid")
  /\ UNCHANGED known

\* GET /relayer/address: the SDK does not keep the answer.  Where none came, the
\* receiver's address takes its place, or nothing does.
Resolve(c, found) ==
  /\ phase[c] = "resolving"
  /\ relayer' = [relayer EXCEPT ![c] = IF found THEN "shard" ELSE "other"]
  /\ IF lib = Sdk THEN SignWithSdk(c)
     ELSE /\ known' = (known \/ found)
          /\ Move(c, "numbering")
          /\ UNCHANGED <<spend, wire, reply>>
  /\ UNCHANGED <<lib, method, nonce, seen, consent, nextNonce>>

\* getAccount: the client is told n, or None when it has no provider or the
\* request fails.  The SDK asks only while it has no nonce of its own.
ReadAccount(c, n) ==
  /\ phase[c] = "numbering"
  /\ lib = Agent \/ (lib = Sdk /\ nextNonce = None)
  /\ seen' = [seen EXCEPT ![c] = n]
  /\ Move(c, "told")
  /\ UNCHANGED <<lib, method, nonce, relayer, consent, nextNonce, known, spend,
                 wire, reply>>

\* mutant: the local count steps on by one instead of past the nonce in use.
TakeNonceLagging(c) ==
  /\ phase[c] = "told" /\ lib = Agent
  /\ nonce' = [nonce EXCEPT ![c] = Max({nextNonce, seen[c]})]
  /\ nextNonce' = nextNonce + 1
  /\ Move(c, "paying")
  /\ Post(c, "paid")
  /\ UNCHANGED <<lib, method, seen, relayer, consent, known, spend>>

\* mutant: the count is increased before it is used.
TakeNonceSkipping(c) ==
  /\ phase[c] = "told" /\ lib = Agent
  /\ LET n == Max({nextNonce, seen[c]}) + 1
     IN  nonce' = [nonce EXCEPT ![c] = n] /\ nextNonce' = n
  /\ Move(c, "paying")
  /\ Post(c, "paid")
  /\ UNCHANGED <<lib, method, seen, relayer, consent, known, spend>>

\* getAccountNonce: the local count catches up with the account and moves on.
TakeNonce(c) ==
  /\ phase[c] = "told" /\ lib = Agent
  /\ LET n == Max({nextNonce, seen[c]})
     IN  /\ nonce' = [nonce EXCEPT ![c] = n]
         /\ nextNonce' = n + 1
  /\ Move(c, "paying")
  /\ Post(c, "paid")
  /\ UNCHANGED <<lib, method, seen, relayer, consent, known, spend>>

\* Python's count starts at zero and never looks at the account.  Its signature
\* is over a serialisation of its own, keys sorted.
TakePythonNonce(c) ==
  /\ phase[c] = "numbering" /\ lib = Python
  /\ nonce' = [nonce EXCEPT ![c] = nextNonce]
  /\ nextNonce' = nextNonce + 1
  /\ \E same \in BOOLEAN : consent' = [consent EXCEPT ![c] = same]
  /\ Move(c, "paying")
  /\ Post(c, "paid")
  /\ UNCHANGED <<lib, method, seen, relayer, known, spend>>

\* getNonce of the SDK: the cached nonce, or the one just fetched, which makes
\* the cache; a fetch that fails counts as zero and is not cached.
TakeSdkNonce(c) ==
  /\ lib = Sdk
  /\ \/ /\ phase[c] = "numbering" /\ nextNonce # None
        /\ nonce' = [nonce EXCEPT ![c] = nextNonce]
        /\ nextNonce' = nextNonce + 1
     \/ /\ phase[c] = "told" /\ seen[c] # None
        /\ nonce' = [nonce EXCEPT ![c] = seen[c]]
        /\ nextNonce' = seen[c] + 1
     \/ /\ phase[c] = "told" /\ seen[c] = None
        /\ nonce' = [nonce EXCEPT ![c] = 0]
        /\ UNCHANGED nextNonce
  /\ Move(c, "resolving")
  /\ UNCHANGED <<lib, method, seen, relayer, consent, known, spend, wire, reply>>

-----------------------------------------------------------------------------

\* The response to the request that carries the payment.
AnsweredPaid(c) ==
  /\ phase[c] = "paying" /\ reply[c] # Unanswered
  /\ Consume(c)
  /\ UNCHANGED <<lib, method, nonce, seen, relayer, consent, nextNonce, known, wire>>

\* mutant: the cost is booked on the response, and again after the body.
PaidChatTwice(c) ==
  /\ AnsweredPaid(c)
  /\ Move(c, IF reply[c] = "ok" THEN "reading" ELSE "failed")
  /\ spend' = IF reply[c] = "ok" THEN spend + PriceOf[c] ELSE spend

\* A chat reads the body before it books the cost.
PaidChat(c) ==
  /\ AnsweredPaid(c)
  /\ Move(c, IF reply[c] = "ok" THEN "reading" ELSE "failed")
  /\ UNCHANGED spend

\* A stream books the cost whatever the status.
PaidStream(c) ==
  /\ AnsweredPaid(c)
  /\ spend' = spend + PriceOf[c]
  /\ Move(c, IF reply[c] = "ok" THEN "reading" ELSE "failed")

\* fetchWithPayment books it on success and leaves the body to its caller: the
\* agent, or the client's own clawChatCompletion.
PaidFetch(c) ==
  /\ AnsweredPaid(c)
  /\ spend' = IF reply[c] = "ok" THEN spend + PriceOf[c] ELSE spend
  /\ IF reply[c] = "ok" THEN \E p \in {"done", "reading"} : Move(c, p)
                         ELSE Move(c, "failed")

\* The SDK booked the cost when it signed.
PaidSdk(c) ==
  /\ AnsweredPaid(c)
  /\ Move(c, IF reply[c] = "ok" THEN "done" ELSE "failed")
  /\ UNCHANGED spend

\* The body: complete, or broken off, by the timeout as well.
ReadBody(c) ==
  /\ phase[c] = "reading"
  /\ \/ /\ spend' = IF method[c] = "chat" THEN spend + PriceOf[c] ELSE spend
        /\ Move(c, "done")
     \/ Move(c, "failed") /\ UNCHANGED spend
  /\ UNCHANGED <<lib, method, nonce, seen, relayer, consent, nextNonce, known,
                 wire, reply>>

\* mutant: the retry that carries the payment has no timeout.
GiveUpAsking(c) ==
  /\ Listening(c) /\ phase[c] = "asking"
  /\ Move(c, "failed")
  /\ \E w \in {wire[c], "none"} : wire' = [wire EXCEPT ![c] = w]
  /\ UNCHANGED <<lib, method, nonce, seen, relayer, consent, nextNonce, known,
                 spend, reply>>

\* The wait is given up: AbortSignal.timeout, urlopen(timeout), or a connection
\* that breaks, the SDK's only end.  The server may have read the request or not.
GiveUp(c) ==
  /\ Listening(c)
  /\ Move(c, "failed")
  /\ \E w \in {wire[c], "none"} : wire' = [wire EXCEPT ![c] = w]
  /\ UNCHANGED <<lib, method, nonce, seen, relayer, consent, nextNonce, known,
                 spend, reply>>

-----------------------------------------------------------------------------

\* The operations of the libraries, each the steps between its awaits; Resolve
\* and ReadAccount, which they also share, are PaidRequest's to answer.
Negotiate(c) == AnsweredFree(c) \/ Challenged(c) \/ GiveUp(c)

\* chat, messages, smartChat, callMcpTool and readMcpResource only choose the URL
\* and the body of the first request.
AskByName(c) == Ask(c, "chat")

ExecuteWith402Payment(c) ==
  /\ lib = Agent
  /\ \/ AskByName(c)
     \/ /\ method[c] = "chat"
        /\ Negotiate(c) \/ TakeNonce(c) \/ PaidChat(c) \/ ReadBody(c)

ChatStream(c) ==
  /\ lib = Agent
  /\ \/ Ask(c, "stream")
     \/ /\ method[c] = "stream"
        /\ Negotiate(c) \/ TakeNonce(c) \/ PaidStream(c) \/ ReadBody(c)

FetchWithPayment(c) ==
  /\ lib = Agent
  /\ \/ Ask(c, "fetch")
     \/ /\ method[c] = "fetch"
        /\ Negotiate(c) \/ TakeNonce(c) \/ PaidFetch(c)

\* What clawChatCompletion does with the response of its fetchWithPayment.
ClawChatCompletion(c) ==
  /\ lib = Agent /\ method[c] = "fetch"
  /\ ReadBody(c)

ExecuteWith402Loop(c) ==
  /\ lib = Python
  /\ \/ Ask(c, "chat") \/ Negotiate(c) \/ TakePythonNonce(c)
     \/ PaidChat(c) \/ ReadBody(c)

\* callTool, readResource and fetchProtectedMarkdown are chat's loop over, each
\* with its own URL; a 402 is answered, and what comes of it returned or thrown.
PaidLoop(c) == Negotiate(c) \/ TakeSdkNonce(c) \/ PaidSdk(c)

SdkChat(c) ==
  /\ lib = Sdk
  /\ Ask(c, "chat") \/ PaidLoop(c)

Call(c) ==
  \/ ExecuteWith402Payment(c) \/ ChatStream(c) \/ FetchWithPayment(c)
  \/ ClawChatCompletion(c) \/ ExecuteWith402Loop(c) \/ SdkChat(c)
=============================================================================
