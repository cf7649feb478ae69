----------------------------- MODULE RouterServer ------------------------------
(***************************************************************************)
(* The router as a whole: the handler of a completion with the credits and *)
(* the blame (ClawRouter), and the inside of its dispatch() and of its     *)
(* stream (FallbackStream).  They share no variable: to the handler, any   *)
(* provider may answer or break at any time.  A behaviour shows one.       *)
(***************************************************************************)
EXTENDS ClawRouter, FallbackStream

VARIABLE part   \* the one this behaviour shows

allVars == <<part, vars, fvars>>

ServerInit ==
  /\ part \in {"calls", "streams"}
  /\ Init /\ FInit
  /\ part = "calls" => text = CHOOSE t \in Texts : TRUE   \* no matter

Calling(A) == part = "calls" /\ A /\ UNCHANGED <<part, fvars>>
Streaming(A) == part = "streams" /\ A /\ UNCHANGED <<part, vars>>

ServerNext == Calling(Next) \/ Streaming(FNext)

\* Calls to providers, the network and the chain return or time out, and clients
\* come when they like; a provider's next chunk, end or error comes, or fetch's
\* own timeouts end the wait.  No request is favoured: what is under way moves.
ServerSpec ==
  /\ ServerInit /\ [][ServerNext]_allVars
  /\ WF_allVars(Calling(\E r \in Requests : Step(r)) \/ Streaming(Read))

-----------------------------------------------------------------------------

\* Every stream that is read ends or fails, whatever the providers send and
\* wherever they break (fallback_dispatcher.ts:40-107, live_stream_executor.ts:
\* 120-200).
StreamsEnd == []<>(part = "streams" => phase \in {"ended", "failed"})
=============================================================================
