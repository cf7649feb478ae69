------------------------------- MODULE Tollbooth -------------------------------
(***************************************************************************)
(* TollboothServer (src/tollbooth/tollbooth_server.ts): the route that     *)
(* takes every GET of a page, with its Markdown cache and the reporter of  *)
(* abuse (src/tollbooth/abuse_reporter.ts).                                *)
(*                                                                         *)
(* A bot's request waits for its classification, for the verifier, for the *)
(* origin when the cache has no fresh page, for the settlement and for the *)
(* feedback on an agent; others run in between, the origin changes its     *)
(* page, and the process may end.  Time is kept as ages, which stop        *)
(* growing once nothing compares them any more.                            *)
(*                                                                         *)
(* A page is whatever the origin answers: the handler does not look at the *)
(* status of the answer, so the body of an error is a page as well.        *)
(*                                                                         *)
(* Abstracted: URLs (there is one), the extraction of Markdown, the toll   *)
(* (a payment repeats the terms of the moment it comes, or others), and    *)
(* how bots are told from humans and impostors.                            *)
(***************************************************************************)
EXTENDS PaymentVerifier, Integers, FiniteSetsExt

CONSTANTS
  Requests,
  Agents, AgentOf, \* AgentOf[r]: what r says in x-agent-identity, which nobody checks
  Unnamed,         \* it says nothing
  MaxPage,     \* bound: the page changes so often
  Ttl,         \* cacheTtlMs, in ticks
  Window,      \* windowMs of the reporter, in ticks
  Threshold    \* failureThreshold

ASSUME TollboothAssumption ==
  /\ IsFiniteSet(Requests)
  /\ Unnamed \notin Agents
  /\ AgentOf \in [Requests -> Agents \cup {Unnamed}]
  /\ {MaxPage, Ttl, Window} \subseteq Nat
  /\ Threshold \in Nat \ {0}

VARIABLES
  page,      \* the page the origin has now
  gone,      \* gone[p]: how long ago the origin replaced p
  cache,     \* the entry of markdownCache, or Empty
  stage,     \* stage[r]: what its handler waits for, or how it was answered
  has,       \* has[r]: the page of its If-None-Match, or None
  got,       \* got[r]: the page its answer is about, or None
  waited,    \* waited[r]: how long ago it looked at the cache
  charged,   \* requests whose payment was handed to the network
  failures,  \* failures[a]: the reporter's entry for that agent, or Empty
  failedAgo, \* history: how long ago r was refused for its payment, or None
             \* when it was not, or when its agent was reported since
  reports    \* reports[a]: feedback given on that agent

vars == <<page, gone, cache, stage, has, got, waited, charged, failures,
          failedAgo, reports>>

None == -1
Empty == [stamp |-> "empty"]

Pages == 0 .. MaxPage
Replaced == {p \in Pages : p < page}
Ages == 0 .. Ttl          \* Ttl: too old to be served
Recent == 0 .. Window     \* Window + 1: no longer counted together
Entries == [count : 1 .. Max({1, Threshold - 1}), age : 0 .. Window + 1]

\* "other": proxied for a human, forbidden, the 402 with the price, or a 502.
\* "dropped": no answer, as the process ended.
Answers == {"page", "unmodified", "refused", "other", "dropped"}
Waiting == {"classifying", "verifying", "reporting", "fetching", "read", "settling"}

TypeOK ==
  /\ page \in Pages
  /\ gone \in [Pages -> Ages]
  /\ cache \in [page : Pages, age : Ages] \cup {Empty}
  /\ stage \in [Requests -> {"new"} \cup Waiting \cup Answers]
  /\ has \in [Requests -> Pages \cup {None}]
  /\ got \in [Requests -> Pages \cup {None}]
  /\ waited \in [Requests -> Ages]
  /\ charged \subseteq Requests
  /\ failures \in [Agents -> Entries \cup {Empty}]
  /\ failedAgo \in [Requests -> (0 .. Window + 1) \cup {None}]
  /\ reports \in [Agents -> Nat]

Init ==
  /\ page = 0
  /\ gone = [p \in Pages |-> 0]
  /\ cache = Empty
  /\ stage = [r \in Requests |-> "new"]
  /\ has = [r \in Requests |-> None]
  /\ got = [r \in Requests |-> None]
  /\ waited = [r \in Requests |-> 0]
  /\ charged = {}
  /\ failures = [a \in Agents |-> Empty]
  /\ failedAgo = [r \in Requests |-> None]
  /\ reports = [a \in Agents |-> 0]

Move(r, s) == stage' = [stage EXCEPT ![r] = s]
caching == <<cache, got, waited>>
reporting == <<failures, failedAgo, reports>>

-----------------------------------------------------------------------------

\* mutant: failures are counted together however long ago they were.
CountedForever(entry) ==
  IF entry = Empty THEN [entry |-> [count |-> 1, age |-> 0], report |-> FALSE]
  ELSE IF entry.count + 1 < Threshold
  THEN [entry |-> [entry EXCEPT !.count = @ + 1], report |-> FALSE]
  ELSE [entry |-> Empty, report |-> TRUE]

\* recordFailure: what becomes of the entry, and whether a report is due.  The
\* first failure opens a window, and only a later one can be the last.
Counted(entry) ==
  IF entry = Empty \/ entry.age > Window
  THEN [entry |-> [count |-> 1, age |-> 0], report |-> FALSE]
  ELSE IF entry.count + 1 < Threshold
  THEN [entry |-> [entry EXCEPT !.count = @ + 1], report |-> FALSE]
  ELSE [entry |-> Empty, report |-> TRUE]

Of(a) == {r \in Requests : AgentOf[r] = a}

\* A request is refused for its payment.  One without an agent is counted by its
\* address, which is never reported.
RecordFailure(r) ==
  LET a == AgentOf[r]
      counted == Counted(failures[a])
  IN  IF a = Unnamed
      THEN Move(r, "refused") /\ UNCHANGED reporting
      ELSE /\ failures' = [failures EXCEPT ![a] = counted.entry]
           /\ IF counted.report
              THEN /\ Move(r, "reporting")
                   /\ reports' = [reports EXCEPT ![a] = @ + 1]
                   /\ failedAgo' = [o \in Requests |->
                                      IF AgentOf[o] = a THEN None ELSE failedAgo[o]]
              ELSE /\ Move(r, "refused")
                   /\ failedAgo' = [failedAgo EXCEPT ![r] = 0]
                   /\ UNCHANGED reports

\* The process ends; a new one has empty maps.
ProcessEnds ==
  /\ stage' = [o \in Requests |-> IF stage[o] \in Waiting THEN "dropped" ELSE stage[o]]
  /\ cache' = Empty
  /\ failures' = [a \in Agents |-> Empty]
  /\ UNCHANGED <<page, gone, has, got, waited, charged, failedAgo, reports>>

\* giveFeedback returns and the 402 is sent, or it rejects: nothing handles that.
FeedbackReturns(r) ==
  /\ stage[r] = "reporting"
  /\ \/ /\ Move(r, "refused")
        /\ UNCHANGED <<page, gone, caching, has, charged, reporting>>
     \/ ProcessEnds

-----------------------------------------------------------------------------

\* A GET comes in, from a client that may have some page already.
Receive(r) ==
  /\ stage[r] = "new"
  /\ \E p \in (0 .. page) \cup {None} : has' = [has EXCEPT ![r] = p]
  /\ Move(r, "classifying")
  /\ UNCHANGED <<page, gone, caching, charged, reporting>>

\* verifyBot has found a bot (BotIdentity says when), and it has a payment.
Classify(r) ==
  /\ stage[r] = "classifying"
  /\ Move(r, "verifying")
  /\ UNCHANGED <<page, gone, caching, has, charged, reporting>>

TurnedAway(r) ==
  /\ stage[r] = "classifying"
  /\ Move(r, "other")
  /\ has' = [has EXCEPT ![r] = None]
  /\ UNCHANGED <<page, gone, caching, charged, reporting>>

\* An impostor gets a 403.  It is counted by its address, which is never reported.
Spoofed(r) == TurnedAway(r)

\* A human gets the origin's answer as it is.
ProxyToOrigin(r) == TurnedAway(r)

\* A bot without a payment is told the price.
Send402Challenge(r) == TurnedAway(r)

\* A bot's payment cannot be decoded.
Malformed(r) ==
  /\ stage[r] = "classifying"
  /\ RecordFailure(r)
  /\ UNCHANGED <<page, gone, caching, has, charged>>

PaymentFor(terms, signed) ==
  [accepted |-> terms,
   chain |-> TRUE, gas |-> "bounded", window |-> "open", value |-> FALSE,
   data |-> "transfer", asset |-> TRUE, receiver |-> TRUE, funded |-> TRUE,
   signed |-> signed, guardian |-> "none", relayer |-> "shard", cosigned |-> "none"]

Fresh == cache # Empty /\ cache.age < Ttl

\* The page is at hand, in p: a client that has it pays nothing.
Deliver(r, p) == Move(r, IF has[r] = p THEN "unmodified" ELSE "settling")

\* The verdict; a valid payment gets the page from the cache or from the origin.
Verify(r) ==
  /\ stage[r] = "verifying"
  /\ \E terms \in {"match", "other"}, signed \in BOOLEAN :
       IF Verdict(PaymentFor(terms, signed), TRUE, "ok") # Valid
       THEN RecordFailure(r) /\ UNCHANGED caching
       ELSE /\ \/ /\ Fresh
                  /\ got' = [got EXCEPT ![r] = cache.page]
                  /\ Deliver(r, cache.page)
                  /\ UNCHANGED waited
               \/ /\ ~Fresh
                  /\ waited' = [waited EXCEPT ![r] = 0]
                  /\ Move(r, "fetching")
                  /\ UNCHANGED got
            /\ UNCHANGED <<cache, reporting>>
  /\ UNCHANGED <<page, gone, has, charged>>

\* A payload without `accepted`: verify() throws outside any try block, and the
\* rejection nobody handles ends the process.
VerifyThrows(r) ==
  /\ stage[r] = "verifying"
  /\ Verdict(PaymentFor("absent", TRUE), TRUE, "ok") = Thrown
  /\ ProcessEnds

\* The origin builds its answer, whatever its status, or fails.
OriginReads(r) ==
  /\ stage[r] = "fetching"
  /\ \/ got' = [got EXCEPT ![r] = page] /\ Move(r, "read")
     \/ Move(r, "other") /\ UNCHANGED got
  /\ UNCHANGED <<page, gone, cache, has, waited, charged, reporting>>

\* mutant: the entry is stamped when the page has come.
StampedLate(r) == 0

\* An entry is as old as the request that filled it.
Stamped(r) == waited[r]

\* The answer arrives, and replaces what others have cached in the meantime.
FetchReturns(r) ==
  /\ stage[r] = "read"
  /\ cache' = [page |-> got[r], age |-> Stamped(r)]
  /\ waited' = [waited EXCEPT ![r] = 0]
  /\ Deliver(r, got[r])
  /\ UNCHANGED <<page, gone, has, got, charged, reporting>>

\* mutant: the page is paid for before it is there.
ChargeEarly(r) ==
  /\ stage[r] \in {"fetching", "settling"} /\ r \notin charged
  /\ charged' = charged \cup {r}
  /\ UNCHANGED <<page, gone, caching, stage, has, reporting>>

\* settle() hands the payment to the network,
Charge(r) ==
  /\ stage[r] = "settling" /\ r \notin charged
  /\ charged' = charged \cup {r}
  /\ UNCHANGED <<page, gone, caching, stage, has, reporting>>

\* and returns or throws: the page is sent, and marked settled, whatever came of it.
SettleReturns(r) ==
  /\ stage[r] = "settling"
  /\ Move(r, "page")
  /\ UNCHANGED <<page, gone, caching, has, charged, reporting>>

-----------------------------------------------------------------------------

\* The origin replaces its page.
PageChanges ==
  /\ page < MaxPage
  /\ page' = page + 1
  /\ UNCHANGED <<gone, caching, stage, has, charged, reporting>>

\* A tick.  It is not taken unless it makes something older.
Older(age, limit) == IF age < limit THEN age + 1 ELSE limit

Tick ==
  /\ gone' = [p \in Pages |-> IF p \in Replaced THEN Older(gone[p], Ttl) ELSE 0]
  /\ cache' = IF cache = Empty THEN Empty ELSE [cache EXCEPT !.age = Older(@, Ttl)]
  /\ waited' = [r \in Requests |->
                  IF stage[r] \in {"fetching", "read"} THEN Older(waited[r], Ttl) ELSE 0]
  /\ failures' = [a \in Agents |->
                    IF failures[a] = Empty THEN Empty
                    ELSE [failures[a] EXCEPT !.age = Older(@, Window + 1)]]
  /\ failedAgo' = [r \in Requests |->
                     IF failedAgo[r] = None THEN None ELSE Older(failedAgo[r], Window + 1)]
  /\ UNCHANGED <<page, stage, has, got, charged, reports>>

Handler(r) ==
  \/ Classify(r) \/ Spoofed(r) \/ ProxyToOrigin(r) \/ Send402Challenge(r)
  \/ Malformed(r) \/ Verify(r) \/ VerifyThrows(r) \/ FeedbackReturns(r)
  \/ OriginReads(r) \/ FetchReturns(r) \/ Charge(r) \/ SettleReturns(r)

Next ==
  \/ \E r \in Requests : Receive(r) \/ Handler(r)
  \/ PageChanges
  \/ Tick

-----------------------------------------------------------------------------

\* What the cache serves was the origin's page within the last Ttl, also when
\* fetches overlap and end out of order: an entry is never younger than the
\* news that its page was replaced.
CacheFresh ==
  cache # Empty => gone[cache.page] <= cache.age

\* A page that is served from the cache is the origin's, or was replaced less than
\* Ttl ago.
ServedFresh ==
  [][\A r \in Requests :
       stage[r] = "verifying" /\ stage'[r] \in {"settling", "unmodified"}
         => gone[got'[r]] < Ttl]_vars

\* Nobody is charged before the origin's answer is at hand, or for what it has
\* already, and who is charged gets that answer and no other, unless the process
\* ends while its payment is settled: then the page is lost.
ChargedForNews ==
  \A r \in charged :
    /\ stage[r] \in {"settling", "page", "dropped"}
    /\ got[r] # None /\ got[r] # has[r]

\* What the tollbooth serves and charges for is an answer of the origin that its
\* client did not have.
PageSound == TypeOK /\ CacheFresh /\ ChargedForNews

\* An agent is reported only for Threshold refusals of requests in its name, all
\* of them within the window and none of them reported before.
\* (abuse_reporter.ts:35 the window, :43 "Reset counter to prevent repeated
\* spamming")
Behind(r) == {r} \cup {o \in Of(AgentOf[r]) : failedAgo[o] \in Recent}
ReportsEarned ==
  [][\A a \in Agents :
       reports'[a] # reports[a] =>
         \E r \in Of(a) : /\ stage[r] # "reporting" /\ stage'[r] = "reporting"
                         /\ Cardinality(Behind(r)) >= Threshold]_vars
=============================================================================
