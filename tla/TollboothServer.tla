---------------------------- MODULE TollboothServer ----------------------------
(***************************************************************************)
(* The tollbooth as a whole (registerRoutes in                             *)
(* src/tollbooth/tollbooth_server.ts): the pages, the identity of          *)
(* crawlers and the publishers of domains.  The parts share no variable,   *)
(* and what one of them does leaves the others' actions as they are, so a  *)
(* behaviour shows one of them.                                            *)
(***************************************************************************)
EXTENDS Tollbooth, BotIdentity, Publishers

VARIABLE part   \* the one this behaviour shows

allVars == <<part, vars, ivars, pvars>>

Parts == {"pages", "crawlers", "publishers"}

ServerInit ==
  /\ part \in Parts
  /\ Init /\ IInit /\ PubInit
  /\ part # "crawlers" => genuine /\ ranges   \* no matter

ServePages == part = "pages" /\ Next /\ UNCHANGED <<part, ivars, pvars>>
ClassifyBots == part = "crawlers" /\ INext /\ UNCHANGED <<part, vars, pvars>>
VerifyPublishers == part = "publishers" /\ PubNext /\ UNCHANGED <<part, vars, ivars>>

ServerNext == ServePages \/ ClassifyBots \/ VerifyPublishers

ServerSpec == ServerInit /\ [][ServerNext]_allVars

-----------------------------------------------------------------------------

\* What the routes keep goes together: a cached page is no older than it claims to
\* be, and who is charged is charged for news (tollbooth_server.ts:389-455).
ServerSound == PageSound /\ ITypeOK /\ PubTypeOK

\* Nothing is relied upon for longer than its time to live allows: neither a page
\* of the origin nor what DNS says of a crawler.
NothingStale == ServedFresh /\ AdmittedFresh
=============================================================================
