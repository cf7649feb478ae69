------------------------ MODULE TollboothServerProofs ------------------------
(***************************************************************************)
(* The properties of the tollbooth, for every number of requests, pages,   *)
(* queries, publishers and checks, and for every time to live, window and  *)
(* threshold.  The parts share no variable: each has its own invariant,    *)
(* and a step of another part leaves it alone.                             *)
(***************************************************************************)
EXTENDS TollboothServer, FiniteSetTheorems, TLAPS

-----------------------------------------------------------------------------
\* Publishers.  What is recorded comes from a check that heard it.

\* What can be read now, and what a check has read, has been shown at some time.
Seen ==
  /\ \A w \in Places : shown[w] \in ever \cup {Nothing}
  /\ \A k \in Checks : check[k].heard \in ever \cup {Nothing}

\* A check under way is made for a publisher.
MadeFor == \A k \in Checks : check[k].at \in Verifying => check[k].of \in PublisherAddresses

PubInv == PubTypeOK /\ Seen /\ MadeFor /\ PublishersProved

CheckTypes ==
  [at : Verifying \cup {<<"new">>, <<"verified">>, <<"refused">>},
   of : PublisherAddresses \cup {Nobody}, auto : BOOLEAN,
   expected : 0 .. MaxTokens, heard : Proofs \cup {Nothing}]

\* At the start nothing is shown and nobody recorded (publisher_verifier.ts:20-24).
LEMMA PubInitInv == ASSUME PubInit PROVE PubInv
<1> USE PublishersAssumption
<1>1. PubTypeOK
  BY DEF PubInit, PubTypeOK, Idle, Nothing, Places, Nobody, Verifying, Proofs
<1>2. Seen /\ MadeFor /\ PublishersProved
  BY DEF PubInit, Seen, MadeFor, PublishersProved, Idle, Verifying, Places
<1> QED BY <1>1, <1>2 DEF PubInv

\* A check that is idle, or asks somewhere, has heard nothing.
LEMMA IdleCheck ==
  ASSUME NEW s \in {"new", "verified", "refused"}
  PROVE  Idle(s) \in CheckTypes /\ Idle(s).heard = Nothing
  BY PublishersAssumption DEF Idle, CheckTypes, Nothing, Nobody

LEMMA AskingCheck ==
  ASSUME PubTypeOK, NEW k \in Checks, NEW w \in Places, NEW p \in PublisherAddresses,
         NEW auto \in BOOLEAN, Ask(k, w, p, auto)
  PROVE  /\ check' \in [Checks -> CheckTypes]
         /\ check'[k].heard = Nothing /\ check'[k].of = p
         /\ \A j \in Checks \ {k} : check'[j] = check[j]
<1> DEFINE asked == [at |-> <<w, "asked">>, of |-> p, auto |-> auto,
                     expected |-> token[p], heard |-> Nothing]
<1>1. check \in [Checks -> CheckTypes] /\ token[p] \in 0 .. MaxTokens
  BY DEF PubTypeOK, CheckTypes
<1>2. <<w, "asked">> \in Verifying
  BY DEF Verifying
<1>3. asked \in CheckTypes
  BY <1>1, <1>2 DEF CheckTypes
<1>4. check' = [check EXCEPT ![k] = asked]
  BY DEF Ask
<1>5. asked.heard = Nothing /\ asked.of = p
  OBVIOUS
<1> HIDE DEF asked
<1> QED BY <1>1, <1>3, <1>4, <1>5

\* What a step of check k must leave behind, when nothing new is recorded.
LEMMA CheckMoves ==
  ASSUME PubInv, NEW k \in Checks,
         check' \in [Checks -> CheckTypes],
         \A j \in Checks \ {k} : check'[j] = check[j],
         check'[k].heard \in ever \cup {Nothing},
         check'[k].at \in Verifying => check'[k].of \in PublisherAddresses,
         UNCHANGED <<token, shown, ever>>,
         \/ verified' \in {verified, Nobody}
         \/ /\ verified' \in PublisherAddresses
            /\ \E proof \in ever :
                 \/ proof.by = verified'
                 \/ proof.token = Address /\ <<verified', proof.by>> \in Prefixes
  PROVE  PubInv'
<1>1. PubTypeOK'
  BY DEF PubInv, PubTypeOK, CheckTypes
<1>2. Seen'
  BY DEF PubInv, Seen
<1>3. MadeFor'
  BY DEF PubInv, MadeFor
<1>4. PublishersProved'
  BY DEF PubInv, PublishersProved
<1> QED BY <1>1, <1>2, <1>3, <1>4 DEF PubInv

LEMMA CreateChallengeInv ==
  ASSUME PubInv, NEW p \in PublisherAddresses, CreateChallenge(p) PROVE PubInv'
<1>1. token' \in [PublisherAddresses -> 0 .. MaxTokens]
  BY PublishersAssumption DEF PubInv, PubTypeOK, CreateChallenge
<1> QED
  BY <1>1 DEF PubInv, PubTypeOK, Seen, MadeFor, PublishersProved, CreateChallenge

LEMMA ShowInv ==
  ASSUME PubInv, NEW w \in Places, NEW proof \in Proofs, Show(w, proof) PROVE PubInv'
<1>1. PubTypeOK'
  BY DEF PubInv, PubTypeOK, Show
<1>2. Seen'
  BY DEF PubInv, PubTypeOK, Seen, Show
<1>3. MadeFor' /\ PublishersProved'
  BY DEF PubInv, MadeFor, PublishersProved, Show
<1> QED BY <1>1, <1>2, <1>3 DEF PubInv

LEMMA VerifyDomainInv ==
  ASSUME PubInv, NEW k \in Checks, NEW p \in PublisherAddresses, VerifyDomain(k, p)
  PROVE  PubInv'
<1>1. PICK w \in Places, auto \in BOOLEAN : Ask(k, w, p, auto)
  BY DEF VerifyDomain, Places
<1>2. PubTypeOK
  BY DEF PubInv
<1> QED
  BY <1>1, <1>2, AskingCheck, CheckMoves DEF VerifyDomain

LEMMA ReadsInv ==
  ASSUME PubInv, NEW k \in Checks, NEW w \in Places, Reads(k, w) PROVE PubInv'
<1>1. PICK h \in {shown[w], Nothing} :
        check' = [check EXCEPT ![k].at = <<w, "heard">>, ![k].heard = h]
  BY DEF Reads
<1>2. /\ check \in [Checks -> CheckTypes] /\ h \in Proofs \cup {Nothing}
      /\ h \in ever \cup {Nothing} /\ check[k].of \in PublisherAddresses
  <2>1. check[k].at \in Verifying
    BY DEF Reads, Verifying
  <2> QED BY <2>1 DEF PubInv, PubTypeOK, CheckTypes, Seen, MadeFor
<1>3. <<w, "heard">> \in Verifying
  BY DEF Verifying
<1>4. check' = [check EXCEPT ![k] = [check[k] EXCEPT !.at = <<w, "heard">>, !.heard = h]]
  BY <1>1
<1>5. [check[k] EXCEPT !.at = <<w, "heard">>, !.heard = h] \in CheckTypes
  BY <1>2, <1>3 DEF CheckTypes
<1>6. check'[k].heard = h /\ check'[k].of = check[k].of
  BY <1>2, <1>4 DEF CheckTypes
<1> QED
  BY <1>2, <1>4, <1>5, <1>6, CheckMoves DEF Reads

\* Whoever is recorded was heard, and what was heard was shown.
LEMMA SearchedInv ==
  ASSUME PubInv, NEW k \in Checks, NEW w \in Places, Searched(k, w) PROVE PubInv'
<1> DEFINE c == check[k]
<1>1. /\ check \in [Checks -> CheckTypes] /\ c.of \in PublisherAddresses
      /\ c.heard \in ever \cup {Nothing}
  <2>1. c.at \in Verifying
    BY DEF Searched, Verifying
  <2> QED BY <2>1 DEF PubInv, PubTypeOK, CheckTypes, Seen, MadeFor
<1>2. CASE Proves(c, w) /\ verified' = c.of /\ check' = [check EXCEPT ![k] = Idle("verified")]
  <2>1. c.heard.by = c.of \/ (c.heard.token = Address /\ <<c.of, c.heard.by>> \in Prefixes)
    BY <1>2 DEF Proves, ShowsAddress
  <2>2. c.of = Nobody \/ c.heard \in ever
    BY <1>1, <2>1, PublishersAssumption DEF Nothing
  <2>3. Idle("verified") \in CheckTypes /\ Idle("verified").heard = Nothing
    BY IdleCheck
  <2>4. Idle("verified").at \notin Verifying
    BY DEF Idle, Verifying
  <2> HIDE DEF c
  <2> QED
    BY <1>1, <1>2, <2>1, <2>2, <2>3, <2>4, CheckMoves DEF Searched
<1>3. CASE Ask(k, "page", c.of, FALSE) /\ verified' = verified
  <2>1. PubTypeOK /\ "page" \in Places
    BY DEF PubInv, Places
  <2> HIDE DEF c
  <2> QED
    BY <1>1, <1>3, <2>1, AskingCheck, CheckMoves DEF Searched
<1>4. CASE check' = [check EXCEPT ![k] = Idle("refused")] /\ verified' = verified
  <2>1. Idle("refused") \in CheckTypes /\ Idle("refused").heard = Nothing
    BY IdleCheck
  <2>2. Idle("refused").at \notin Verifying
    BY DEF Idle, Verifying
  <2> QED
    BY <1>1, <1>4, <2>1, <2>2, CheckMoves DEF Searched
<1> QED BY <1>2, <1>3, <1>4 DEF Searched

LEMMA PubStutterInv == ASSUME PubInv, UNCHANGED pvars PROVE PubInv'
  BY DEF PubInv, PubTypeOK, Seen, MadeFor, PublishersProved, pvars

-----------------------------------------------------------------------------
\* Crawlers.  What is believed of the address was true lately.

\* The family's DNS confirms the address now, or has done so some time ago.
LapsedSince == genuine => lapsed = 0

\* A confirmation that is on its way is no older than its lookup,
ConfirmedLately == \A q \in Queries : query[q] = "confirmed" => lapsed <= took[q]

\* and one that is kept was as old as that when it came.
KeptLately ==
  dnsCache # Unknown /\ dnsCache.verified => lapsed <= dnsCache.age + LookupTime

IdInv == ITypeOK /\ LapsedSince /\ ConfirmedLately /\ KeptLately

LEMMA IdInitInv == ASSUME IInit PROVE IdInv
<1> USE IdentityAssumption
<1>1. ITypeOK
  BY DEF IInit, ITypeOK, LongAgo
<1>2. LapsedSince /\ ConfirmedLately /\ KeptLately
  BY DEF IInit, LapsedSince, ConfirmedLately, KeptLately
<1> QED BY <1>1, <1>2 DEF IdInv

LEMMA VerifyBotInv ==
  ASSUME IdInv, NEW q \in Queries, VerifyBot(q) PROVE IdInv'
<1> DEFINE s == IF ranges THEN "verified" ELSE IF ~StillKnown THEN "reverse"
                ELSE IF dnsCache.verified THEN "verified" ELSE "spoofed"
<1>1. query' = [query EXCEPT ![q] = s]
  BY DEF VerifyBot, To
<1>2. s \in {"verified", "reverse", "spoofed"}
  OBVIOUS
<1> HIDE DEF s
<1>3. ITypeOK'
  BY <1>1, <1>2 DEF IdInv, ITypeOK, VerifyBot, Looking, Classified
<1>4. LapsedSince' /\ ConfirmedLately' /\ KeptLately'
  BY <1>1, <1>2 DEF IdInv, ITypeOK, LapsedSince, ConfirmedLately, KeptLately, VerifyBot
<1> QED BY <1>3, <1>4 DEF IdInv

LEMMA LookupInv ==
  ASSUME IdInv, NEW q \in Queries, Lookup(q) PROVE IdInv'
<1> USE IdentityAssumption
<1>1. ITypeOK /\ LapsedSince /\ ConfirmedLately /\ KeptLately
  BY DEF IdInv
<1>2. CASE ReverseReturns(q)
  <2>1. ITypeOK'
    BY <1>1, <1>2 DEF ITypeOK, ReverseReturns, To, Looking, Classified
  <2>2. LapsedSince' /\ ConfirmedLately' /\ KeptLately'
    BY <1>1, <1>2 DEF ITypeOK, LapsedSince, ConfirmedLately, KeptLately, ReverseReturns, To
  <2> QED BY <2>1, <2>2 DEF IdInv
<1>3. CASE ForwardReads(q)
  <2>1. ITypeOK'
    BY <1>1, <1>3 DEF ITypeOK, ForwardReads, To, Looking, Classified
  <2>2. LapsedSince' /\ ConfirmedLately' /\ KeptLately'
    BY <1>1, <1>3 DEF ITypeOK, LapsedSince, ConfirmedLately, KeptLately, ForwardReads, To
  <2> QED BY <2>1, <2>2 DEF IdInv
<1>4. CASE LookupReturns(q)
  <2> DEFINE kept == [age |-> 0, verified |-> query[q] = "confirmed"]
  <2>1. kept \in [age : 0 .. DnsTtl, verified : BOOLEAN] /\ kept.age = 0
        /\ kept.verified = (query[q] = "confirmed")
    OBVIOUS
  <2>2. dnsCache' = kept
    BY <1>4 DEF LookupReturns
  <2> HIDE DEF kept
  <2>3. ITypeOK'
    BY <1>1, <1>4, <2>1, <2>2 DEF ITypeOK, LookupReturns, To, Looking, Classified
  <2>4. LapsedSince' /\ ConfirmedLately'
    BY <1>1, <1>4 DEF ITypeOK, LapsedSince, ConfirmedLately, LookupReturns, To
  <2>5. query[q] = "confirmed" => lapsed <= LookupTime
    BY <1>1 DEF ITypeOK, ConfirmedLately, LongAgo
  <2>6. KeptLately'
    BY <1>1, <1>4, <2>1, <2>2, <2>5 DEF ITypeOK, KeptLately, LookupReturns
  <2> QED BY <2>3, <2>4, <2>6 DEF IdInv
<1> QED BY <1>2, <1>3, <1>4 DEF Lookup

LEMMA FeedOrMoveInv ==
  ASSUME IdInv, RefreshFeed \/ AddressMoves PROVE IdInv'
<1> USE IdentityAssumption
<1>1. ITypeOK'
  <2>1. 0 \in 0 .. LongAgo
    BY DEF LongAgo
  <2> QED BY <2>1 DEF IdInv, ITypeOK, RefreshFeed, AddressMoves
<1>2. LapsedSince' /\ ConfirmedLately' /\ KeptLately'
  BY DEF IdInv, ITypeOK, LapsedSince, ConfirmedLately, KeptLately, RefreshFeed,
         AddressMoves
<1> QED BY <1>1, <1>2 DEF IdInv

\* Everything that is compared grows together, up to its limit.
LEMMA IdentityTickInv ==
  ASSUME IdInv, IdentityTick PROVE IdInv'
<1> USE IdentityAssumption
<1>1. ITypeOK /\ LapsedSince /\ ConfirmedLately /\ KeptLately
  BY DEF IdInv
<1>2. lapsed' \in 0 .. LongAgo /\ lapsed' <= lapsed + 1
  BY <1>1 DEF ITypeOK, IdentityTick, LongAgo
<1>3. /\ took' \in [Queries -> 0 .. LookupTime]
      /\ \A q \in Queries : query[q] \in Looking => took'[q] = took[q] + 1
  BY <1>1 DEF ITypeOK, IdentityTick
<1>4. /\ dnsCache' \in [age : 0 .. DnsTtl, verified : BOOLEAN] \cup {Unknown}
      /\ KeptLately'
  <2>1. CASE dnsCache # Unknown /\ dnsCache.age < DnsTtl
    <3>1. dnsCache \in [age : 0 .. DnsTtl, verified : BOOLEAN]
      BY <1>1, <2>1 DEF ITypeOK
    <3>2. dnsCache' = [dnsCache EXCEPT !.age = dnsCache.age + 1]
      BY <2>1 DEF IdentityTick
    <3>3. /\ dnsCache' \in [age : 0 .. DnsTtl, verified : BOOLEAN]
          /\ dnsCache'.age = dnsCache.age + 1 /\ dnsCache'.verified = dnsCache.verified
      BY <2>1, <3>1, <3>2
    <3>4. KeptLately'
      BY <1>1, <1>2, <2>1, <3>1, <3>3 DEF ITypeOK, KeptLately, LongAgo
    <3> QED BY <3>3, <3>4
  <2>2. CASE ~(dnsCache # Unknown /\ dnsCache.age < DnsTtl)
    <3>1. dnsCache' = dnsCache
      BY <2>2 DEF IdentityTick
    <3>2. dnsCache # Unknown => dnsCache.age = DnsTtl
      BY <1>1, <2>2 DEF ITypeOK
    <3>3. KeptLately'
      BY <1>1, <1>2, <3>1, <3>2 DEF ITypeOK, KeptLately, LongAgo
    <3> QED BY <1>1, <3>1, <3>3 DEF ITypeOK
  <2> QED BY <2>1, <2>2
<1>6. ITypeOK'
  BY <1>1, <1>2, <1>3, <1>4 DEF ITypeOK, IdentityTick
<1>7. LapsedSince'
  BY <1>1 DEF LapsedSince, IdentityTick
<1>8. ConfirmedLately'
  <2>1. \A q \in Queries : query[q] = "confirmed" => query[q] \in Looking
    BY DEF Looking
  <2> QED
    BY <1>1, <1>2, <1>3, <2>1 DEF ITypeOK, ConfirmedLately, IdentityTick, LongAgo
<1> QED BY <1>4, <1>6, <1>7, <1>8 DEF IdInv

\* The invariant makes the step property hold, if answers are kept at all.
LEMMA AdmittedStep ==
  ASSUME DnsTtl # 0, IdInv, [INext]_ivars, NEW q \in Queries,
         query[q] # "verified", query'[q] = "verified", ~ranges
  PROVE  lapsed < LongAgo
<1> USE IdentityAssumption
<1>1. ITypeOK /\ ConfirmedLately /\ KeptLately
  BY DEF IdInv
<1>2. CASE VerifyBot(q)
  <2>1. dnsCache # Unknown /\ dnsCache.age < DnsTtl /\ dnsCache.verified
    BY <1>1, <1>2 DEF ITypeOK, VerifyBot, To, StillKnown
  <2>2. dnsCache.age \in Nat
    BY <1>1, <2>1 DEF ITypeOK
  <2> QED BY <1>1, <2>1, <2>2 DEF ITypeOK, KeptLately, LongAgo
<1>3. CASE LookupReturns(q)
  <2>1. query[q] = "confirmed"
    BY <1>1, <1>3 DEF ITypeOK, LookupReturns, To
  <2> QED BY <1>1, <2>1 DEF ITypeOK, ConfirmedLately, LongAgo
<1>4. CASE ReverseReturns(q) \/ ForwardReads(q)
  BY <1>1, <1>4 DEF ITypeOK, ReverseReturns, ForwardReads, To
<1>5. CASE \E o \in Queries \ {q} : VerifyBot(o) \/ Lookup(o)
  BY <1>1, <1>5 DEF ITypeOK, VerifyBot, Lookup, ReverseReturns, ForwardReads,
                    LookupReturns, To
<1>6. CASE RefreshFeed \/ AddressMoves \/ IdentityTick \/ UNCHANGED ivars
  BY <1>6 DEF RefreshFeed, AddressMoves, IdentityTick, ivars
<1> QED BY <1>2, <1>3, <1>4, <1>5, <1>6 DEF INext, Lookup

LEMMA IdStutterInv == ASSUME IdInv, UNCHANGED ivars PROVE IdInv'
  BY DEF IdInv, ITypeOK, LapsedSince, ConfirmedLately, KeptLately, ivars

-----------------------------------------------------------------------------
\* Pages.  News of a replaced page is no older than what is kept of it.

\* What a fetch has read was the origin's page since the request looked for it.
ReadFresh ==
  \A r \in Requests : stage[r] = "read" => got[r] \in Pages /\ gone[got[r]] <= waited[r]

\* Who is about to pay, or got a page, had another one or none.
NewsOnly ==
  \A r \in Requests : stage[r] \in {"settling", "page"} => got[r] \in Pages /\ got[r] # has[r]

\* The page the origin has, or will have, was not replaced yet.
NotGone == \A p \in Pages : p >= page => gone[p] = 0

\* A refused payment is the end of its request.
RefusedOnce == \A r \in Requests : failedAgo[r] # None => stage[r] = "refused"

\* What an entry counts are refusals of its agent, no older than the entry, that
\* were not reported yet.
Refused(a, age) == {o \in Of(a) : failedAgo[o] \in 0 .. age}
CountsRefusals ==
  \A a \in Agents : failures[a] # Empty =>
    failures[a].count <= Cardinality(Refused(a, failures[a].age))

PageTypes ==
  /\ page \in Pages
  /\ gone \in [Pages -> Ages]
  /\ cache \in [page : Pages, age : Ages] \cup {Empty}
  /\ stage \in [Requests -> {"new"} \cup Waiting \cup Answers]
  /\ has \in [Requests -> Pages \cup {None}]
  /\ got \in [Requests -> Pages \cup {None}]
  /\ waited \in [Requests -> Ages]
  /\ charged \subseteq Requests

ReportTypes ==
  /\ failures \in [Agents -> Entries \cup {Empty}]
  /\ failedAgo \in [Requests -> (0 .. Window + 1) \cup {None}]
  /\ reports \in [Agents -> Nat]

PagesInv == PageTypes /\ CacheFresh /\ ChargedForNews /\ ReadFresh /\ NewsOnly /\ NotGone
ReportsInv == ReportTypes /\ RefusedOnce /\ CountsRefusals

LEMMA MaxOfTwo ==
  ASSUME NEW n \in Nat \ {0}
  PROVE  LET m == Max({1, n - 1}) IN m \in Nat /\ m >= 1 /\ m >= n - 1
<1> DEFINE IsMax(m) == m \in {1, n - 1} /\ \A o \in {1, n - 1} : m >= o
<1>1. \E m : IsMax(m)
  <2>1. CASE n - 1 <= 1
    BY <2>1
  <2>2. CASE n - 1 > 1
    BY <2>2
  <2> QED BY <2>1, <2>2
<1>2. IsMax(Max({1, n - 1}))
  BY <1>1 DEF Max
<1> QED BY <1>2

LEMMA RefusedFinite ==
  ASSUME NEW a \in Agents, NEW age
  PROVE  /\ IsFiniteSet(Refused(a, age)) /\ Cardinality(Refused(a, age)) \in Nat
         /\ Refused(a, age) \subseteq Of(a)
<1>1. Refused(a, age) \subseteq Requests /\ IsFiniteSet(Requests)
  BY TollboothAssumption DEF Refused, Of
<1> QED BY <1>1, FS_Subset, FS_CardinalityType DEF Refused

-----------------------------------------------------------------------------

LEMMA PagesInit == ASSUME Init PROVE PagesInv
<1> USE TollboothAssumption
<1>1. 0 \in Pages /\ 0 \in Ages
  BY DEF Pages, Ages
<1> QED
  BY <1>1 DEF PagesInv, Init, PageTypes, CacheFresh, ChargedForNews, ReadFresh, NewsOnly,
              NotGone

LEMMA ReportsInit == ASSUME Init PROVE ReportsInv
  BY TollboothAssumption DEF Init, ReportsInv, ReportTypes, RefusedOnce, CountsRefusals

\* A move to an answer or a wait that says nothing about pages.
LEMMA PlainMove ==
  ASSUME PagesInv, NEW r \in Requests, NEW s \in {"new", "classifying", "verifying",
           "fetching", "refused", "reporting", "other", "unmodified"},
         stage[r] \notin {"settling", "page", "dropped"}, Move(r, s), has' \in [Requests -> Pages \cup {None}],
         got' \in [Requests -> Pages \cup {None}], waited' \in [Requests -> Ages],
         \A o \in Requests \ {r} : has'[o] = has[o] /\ got'[o] = got[o] /\ waited'[o] = waited[o],
         UNCHANGED <<page, gone, cache, charged>>
  PROVE  PagesInv'
<1>1. PageTypes'
  BY DEF PagesInv, PageTypes, Move, Waiting, Answers
<1>2. stage'[r] = s /\ \A o \in Requests \ {r} : stage'[o] = stage[o]
  BY DEF PagesInv, PageTypes, Move
<1>3. CacheFresh' /\ NotGone'
  BY DEF PagesInv, CacheFresh, NotGone, Pages
<1>4. ChargedForNews'
  BY <1>2 DEF PagesInv, ChargedForNews, PageTypes
<1>5. ReadFresh' /\ NewsOnly'
  BY <1>2 DEF PagesInv, ReadFresh, NewsOnly, Pages
<1> QED BY <1>1, <1>3, <1>4, <1>5 DEF PagesInv

\* A refusal touches nothing that is about pages.
LEMMA RefusedMove ==
  ASSUME PagesInv, NEW r \in Requests, RecordFailure(r),
         stage[r] \in {"classifying", "verifying"},
         UNCHANGED <<page, gone, caching, has, charged>>
  PROVE  PagesInv'
<1>1. Move(r, "refused") \/ Move(r, "reporting")
  BY DEF RecordFailure
<1> QED BY <1>1, PlainMove DEF caching, PagesInv, PageTypes

LEMMA ReceiveInv ==
  ASSUME PagesInv, NEW r \in Requests, Receive(r) PROVE PagesInv'
<1>1. PICK p \in (0 .. page) \cup {None} : has' = [has EXCEPT ![r] = p]
  BY DEF Receive
<1>2. p \in Pages \cup {None}
  BY <1>1, TollboothAssumption DEF PagesInv, PageTypes, Pages
<1> QED
  BY <1>1, <1>2, PlainMove DEF Receive, caching, PagesInv, PageTypes

LEMMA ClassifiedInv ==
  ASSUME PagesInv, NEW r \in Requests, Classify(r) \/ TurnedAway(r) \/ Malformed(r)
  PROVE  PagesInv'
<1>1. CASE Classify(r)
  BY <1>1, PlainMove DEF Classify, caching, PagesInv, PageTypes
<1>2. CASE TurnedAway(r)
  BY <1>2, PlainMove DEF TurnedAway, caching, PagesInv, PageTypes
<1>3. CASE Malformed(r)
  BY <1>3, RefusedMove DEF Malformed
<1> QED BY <1>1, <1>2, <1>3

\* A page at hand: what is due depends on what the client has.
LEMMA DeliverInv ==
  ASSUME PagesInv, NEW r \in Requests, NEW p \in Pages, Deliver(r, p),
         stage[r] \notin {"settling", "page", "dropped"},
         got' \in [Requests -> Pages \cup {None}], got'[r] = p,
         waited' \in [Requests -> Ages],
         \A o \in Requests \ {r} : got'[o] = got[o] /\ waited'[o] = waited[o],
         cache' \in [page : Pages, age : Ages] \cup {Empty}, CacheFresh',
         UNCHANGED <<page, gone, has, charged>>
  PROVE  PagesInv'
<1> DEFINE s == IF has[r] = p THEN "unmodified" ELSE "settling"
<1>1. stage' = [stage EXCEPT ![r] = s] /\ s \in {"unmodified", "settling"}
  BY DEF Deliver, Move
<1>2. s = "settling" => got'[r] # has'[r]
  OBVIOUS
<1> HIDE DEF s
<1>3. PageTypes'
  BY <1>1 DEF PagesInv, PageTypes, Waiting, Answers
<1>4. stage'[r] = s /\ \A o \in Requests \ {r} : stage'[o] = stage[o]
  BY <1>1 DEF PagesInv, PageTypes
<1>5. NotGone'
  BY DEF PagesInv, NotGone, Pages
<1>6. ChargedForNews'
  BY <1>1, <1>4 DEF PagesInv, ChargedForNews, PageTypes
<1>7. ReadFresh'
  BY <1>1, <1>4 DEF PagesInv, ReadFresh, Pages
<1>8. NewsOnly'
  BY <1>1, <1>2, <1>4 DEF PagesInv, NewsOnly, Pages
<1> QED BY <1>3, <1>5, <1>6, <1>7, <1>8 DEF PagesInv

LEMMA VerifyInv ==
  ASSUME PagesInv, NEW r \in Requests, Verify(r) PROVE PagesInv'
<1>1. CASE RecordFailure(r) /\ UNCHANGED caching
  BY <1>1, RefusedMove DEF Verify
<1>2. CASE /\ Fresh /\ got' = [got EXCEPT ![r] = cache.page] /\ Deliver(r, cache.page)
           /\ UNCHANGED <<cache, waited>>
  <2>1. cache.page \in Pages
    BY <1>2 DEF PagesInv, PageTypes, Fresh
  <2>2. CacheFresh'
    BY <1>2 DEF PagesInv, CacheFresh, Verify
  <2> QED
    BY <1>2, <2>1, <2>2, DeliverInv DEF Verify, PagesInv, PageTypes
<1>3. CASE /\ waited' = [waited EXCEPT ![r] = 0] /\ Move(r, "fetching")
           /\ UNCHANGED <<got, cache>>
  <2>1. 0 \in Ages
    BY TollboothAssumption DEF Ages
  <2> QED
    BY <1>3, <2>1, PlainMove DEF Verify, PagesInv, PageTypes
<1> QED BY <1>1, <1>2, <1>3 DEF Verify

LEMMA ProcessEndsInv ==
  ASSUME PagesInv, ProcessEnds PROVE PagesInv'
<1>1. /\ stage' \in [Requests -> {"new"} \cup Waiting \cup Answers]
      /\ \A o \in Requests : stage'[o] = "page" <=> stage[o] = "page"
      /\ \A o \in Requests : stage[o] \in {"settling", "page", "dropped"}
                            => stage'[o] \in {"page", "dropped"}
      /\ \A o \in Requests : stage'[o] \notin {"read", "settling"}
  BY DEF PagesInv, PageTypes, ProcessEnds, Waiting, Answers
<1>2. PageTypes'
  BY <1>1 DEF PagesInv, PageTypes, ProcessEnds
<1>3. CacheFresh' /\ NotGone' /\ ReadFresh'
  BY <1>1 DEF PagesInv, CacheFresh, NotGone, ReadFresh, ProcessEnds, Pages
<1>4. ChargedForNews'
  BY <1>1 DEF PagesInv, PageTypes, ChargedForNews, ProcessEnds
<1>5. NewsOnly'
  BY <1>1 DEF PagesInv, PageTypes, NewsOnly, ProcessEnds, Pages
<1> QED BY <1>2, <1>3, <1>4, <1>5 DEF PagesInv

LEMMA FeedbackReturnsInv ==
  ASSUME PagesInv, NEW r \in Requests, FeedbackReturns(r) PROVE PagesInv'
<1>1. CASE Move(r, "refused") /\ UNCHANGED <<page, gone, caching, has, charged, reporting>>
  BY <1>1, PlainMove DEF FeedbackReturns, caching, PagesInv, PageTypes
<1> QED BY <1>1, ProcessEndsInv DEF FeedbackReturns

LEMMA OriginReadsInv ==
  ASSUME PagesInv, NEW r \in Requests, OriginReads(r) PROVE PagesInv'
<1>1. CASE Move(r, "other") /\ UNCHANGED got
  BY <1>1, PlainMove DEF OriginReads, PagesInv, PageTypes
<1>2. CASE got' = [got EXCEPT ![r] = page] /\ Move(r, "read")
  <2>1. PageTypes'
    BY <1>2 DEF OriginReads, PagesInv, PageTypes, Move, Waiting
  <2>2. /\ stage'[r] = "read" /\ got'[r] = page
        /\ \A o \in Requests \ {r} : stage'[o] = stage[o] /\ got'[o] = got[o]
    BY <1>2 DEF PagesInv, PageTypes, Move
  <2>3. page \in Pages /\ gone[page] = 0 /\ waited[r] >= 0
    BY DEF PagesInv, PageTypes, NotGone, Pages, Ages
  <2>4. CacheFresh' /\ NotGone'
    BY DEF PagesInv, CacheFresh, NotGone, OriginReads, Pages
  <2>5. ReadFresh'
    BY <2>2, <2>3 DEF PagesInv, ReadFresh, OriginReads, Pages
  <2>6. ChargedForNews' /\ NewsOnly'
    BY <2>2 DEF PagesInv, PageTypes, ChargedForNews, NewsOnly, OriginReads, Pages
  <2> QED BY <2>1, <2>4, <2>5, <2>6 DEF PagesInv
<1> QED BY <1>1, <1>2 DEF OriginReads

LEMMA FetchReturnsInv ==
  ASSUME PagesInv, NEW r \in Requests, FetchReturns(r) PROVE PagesInv'
<1> DEFINE new == [page |-> got[r], age |-> waited[r]]
<1>1. got[r] \in Pages /\ gone[got[r]] <= waited[r] /\ waited[r] \in Ages
  BY DEF FetchReturns, PagesInv, PageTypes, ReadFresh
<1>2. new \in [page : Pages, age : Ages] /\ new.page = got[r] /\ new.age = waited[r]
  BY <1>1
<1>3. cache' = new
  BY DEF FetchReturns, Stamped
<1> HIDE DEF new
<1>4. CacheFresh'
  BY <1>1, <1>2, <1>3 DEF CacheFresh, FetchReturns
<1>5. 0 \in Ages
  BY TollboothAssumption DEF Ages
<1> QED
  BY <1>1, <1>2, <1>3, <1>4, <1>5, DeliverInv DEF FetchReturns, PagesInv, PageTypes

LEMMA ChargeInv ==
  ASSUME PagesInv, NEW r \in Requests, Charge(r) PROVE PagesInv'
<1>1. got[r] \in Pages /\ got[r] # has[r] /\ stage[r] = "settling" /\ got[r] # None
  BY DEF Charge, PagesInv, NewsOnly, Pages, None
<1>2. PageTypes'
  BY DEF Charge, caching, PagesInv, PageTypes
<1>3. CacheFresh' /\ NotGone' /\ ReadFresh' /\ NewsOnly'
  BY DEF Charge, caching, PagesInv, CacheFresh, NotGone, ReadFresh, NewsOnly, Pages
<1>4. ChargedForNews'
  BY <1>1 DEF Charge, caching, PagesInv, ChargedForNews
<1> QED BY <1>2, <1>3, <1>4 DEF PagesInv

LEMMA SettleReturnsInv ==
  ASSUME PagesInv, NEW r \in Requests, SettleReturns(r) PROVE PagesInv'
<1>1. stage' = [stage EXCEPT ![r] = "page"] /\ stage[r] = "settling"
  BY DEF SettleReturns, Move
<1>2. PageTypes'
  BY <1>1 DEF SettleReturns, caching, PagesInv, PageTypes, Answers
<1>3. CacheFresh' /\ NotGone' /\ ReadFresh'
  BY <1>1 DEF SettleReturns, caching, PagesInv, PageTypes, CacheFresh, NotGone, ReadFresh,
              Pages
<1>4. ChargedForNews' /\ NewsOnly'
  BY <1>1 DEF SettleReturns, caching, PagesInv, PageTypes, ChargedForNews, NewsOnly, Pages
<1> QED BY <1>2, <1>3, <1>4 DEF PagesInv

LEMMA PageChangesInv ==
  ASSUME PagesInv, PageChanges PROVE PagesInv'
<1>1. page \in Pages /\ page' = page + 1 /\ page' \in Pages
  BY TollboothAssumption DEF PagesInv, PageTypes, PageChanges, Pages
<1>2. NotGone'
  BY <1>1 DEF PagesInv, NotGone, PageChanges, Pages
<1> QED
  BY <1>1, <1>2 DEF PagesInv, PageTypes, CacheFresh, ChargedForNews, ReadFresh, NewsOnly,
                    PageChanges, caching, Pages

\* Ages grow together, up to the same limit.
LEMMA OlderMonotone ==
  ASSUME NEW limit \in Nat, NEW a \in 0 .. limit, NEW b \in 0 .. limit
  PROVE  /\ Older(a, limit) \in 0 .. limit
         /\ a <= b => Older(a, limit) <= Older(b, limit)
  BY DEF Older

LEMMA TickInv ==
  ASSUME PagesInv, Tick PROVE PagesInv'
<1>1. /\ page \in Pages /\ gone \in [Pages -> Ages] /\ waited \in [Requests -> Ages]
      /\ Ttl \in Nat /\ Ages = 0 .. Ttl
  BY TollboothAssumption DEF PagesInv, PageTypes, Ages
<1>2. \A a, b \in Ages : /\ Older(a, Ttl) \in Ages
                         /\ a <= b => Older(a, Ttl) <= Older(b, Ttl)
  BY <1>1, OlderMonotone
<1>3. /\ gone' \in [Pages -> Ages]
      /\ \A p \in Pages : gone'[p] = IF p \in Replaced THEN Older(gone[p], Ttl) ELSE 0
  BY <1>1, <1>2 DEF Tick
<1>4. \A p \in Pages, a \in Ages : gone[p] <= a => gone'[p] <= Older(a, Ttl)
  <2>1. TAKE p \in Pages, a \in Ages
  <2>2. /\ Older(a, Ttl) \in 0 .. Ttl
        /\ gone[p] <= a => Older(gone[p], Ttl) <= Older(a, Ttl)
    BY <1>1, <1>2
  <2>3. gone'[p] \in {Older(gone[p], Ttl), 0}
    BY <1>3
  <2> HIDE DEF Older
  <2> QED BY <1>1, <2>2, <2>3
<1>5. /\ waited' \in [Requests -> Ages]
      /\ \A r \in Requests : stage[r] = "read" => waited'[r] = Older(waited[r], Ttl)
  BY <1>1, <1>2 DEF Tick
<1>6. /\ cache' \in [page : Pages, age : Ages] \cup {Empty}
      /\ cache' # Empty => cache # Empty /\ cache'.page = cache.page
                           /\ cache'.age = Older(cache.age, Ttl)
  <2>1. CASE cache = Empty
    BY <2>1 DEF Tick
  <2>2. CASE cache # Empty
    <3>1. cache \in [page : Pages, age : Ages]
      BY <2>2 DEF PagesInv, PageTypes
    <3>2. cache' = [cache EXCEPT !.age = Older(cache.age, Ttl)]
      BY <2>2 DEF Tick
    <3> QED BY <1>2, <2>2, <3>1, <3>2
  <2> QED BY <2>1, <2>2
<1>7. PageTypes'
  BY <1>3, <1>5, <1>6 DEF PagesInv, PageTypes, Tick
<1>8. CacheFresh'
  BY <1>4, <1>6 DEF PagesInv, PageTypes, CacheFresh
<1>9. ReadFresh'
  BY <1>1, <1>4, <1>5 DEF PagesInv, ReadFresh, Tick, Pages
<1>10. NotGone'
  BY <1>1, <1>3 DEF NotGone, Replaced, Tick, Pages
<1>11. ChargedForNews' /\ NewsOnly'
  BY DEF PagesInv, ChargedForNews, NewsOnly, Tick, Pages
<1> QED BY <1>7, <1>8, <1>9, <1>10, <1>11 DEF PagesInv

LEMMA PagesStutter == ASSUME PagesInv, UNCHANGED vars PROVE PagesInv'
  BY DEF PagesInv, PageTypes, CacheFresh, ChargedForNews, ReadFresh, NewsOnly, NotGone, vars

LEMMA PagesNext == ASSUME PagesInv, [Next]_vars PROVE PagesInv'
<1>1. ASSUME NEW r \in Requests, Handler(r) PROVE PagesInv'
  BY <1>1, ClassifiedInv, VerifyInv, ProcessEndsInv, FeedbackReturnsInv, OriginReadsInv,
     FetchReturnsInv, ChargeInv, SettleReturnsInv
     DEF Handler, VerifyThrows, Spoofed, ProxyToOrigin, Send402Challenge
<1> QED
  BY <1>1, ReceiveInv, PageChangesInv, TickInv, PagesStutter DEF Next

\* What is taken from the cache is fresh in the step that takes it.
LEMMA ServedStep ==
  ASSUME PagesInv, [Next]_vars, NEW r \in Requests,
         stage[r] = "verifying", stage'[r] \in {"settling", "unmodified"}
  PROVE  gone[got'[r]] < Ttl
<1>1. ASSUME Verify(r) PROVE gone[got'[r]] < Ttl
  <2>1. Fresh /\ got' = [got EXCEPT ![r] = cache.page]
    BY <1>1 DEF Verify, RecordFailure, Move, PagesInv, PageTypes
  <2>2. cache \in [page : Pages, age : Ages] /\ got'[r] = cache.page
    BY <2>1 DEF PagesInv, PageTypes, Fresh
  <2> QED
    BY <2>1, <2>2, TollboothAssumption DEF PagesInv, PageTypes, CacheFresh, Fresh, Ages
<1>2. ASSUME ProcessEnds PROVE FALSE
  BY <1>2 DEF ProcessEnds, Waiting, PagesInv, PageTypes
<1>3. ASSUME NEW o \in Requests \ {r}, Receive(o) \/ Handler(o) PROVE FALSE
  <2>1. CASE Receive(o) \/ Classify(o) \/ TurnedAway(o) \/ Verify(o) \/ Malformed(o)
    BY <2>1 DEF Receive, Classify, TurnedAway, Malformed, Verify, RecordFailure, Deliver,
                Move, PagesInv, PageTypes
  <2>2. CASE OriginReads(o) \/ FetchReturns(o) \/ Charge(o) \/ SettleReturns(o)
    BY <2>2 DEF OriginReads, FetchReturns, Charge, SettleReturns, Deliver, Move, PagesInv,
                PageTypes
  <2>3. CASE VerifyThrows(o) \/ FeedbackReturns(o)
    BY <1>2, <2>3 DEF VerifyThrows, FeedbackReturns, Move, PagesInv, PageTypes
  <2> QED
    BY <1>3, <2>1, <2>2, <2>3 DEF Handler, Spoofed, ProxyToOrigin, Send402Challenge
<1>4. ASSUME \/ Receive(r) \/ Classify(r) \/ TurnedAway(r) \/ Malformed(r)
             \/ OriginReads(r) \/ FetchReturns(r) \/ Charge(r) \/ SettleReturns(r)
             \/ FeedbackReturns(r)
      PROVE FALSE
  BY <1>4 DEF Receive, Classify, TurnedAway, Malformed, OriginReads, FetchReturns, Charge,
              SettleReturns, FeedbackReturns
<1>5. ASSUME PageChanges \/ Tick \/ UNCHANGED vars PROVE FALSE
  BY <1>5 DEF PageChanges, Tick, vars
<1> QED
  BY <1>1, <1>2, <1>3, <1>4, <1>5 DEF Next, Handler, VerifyThrows, Spoofed, ProxyToOrigin,
     Send402Challenge

-----------------------------------------------------------------------------
\* Reports.  What an entry counts was refused within its age.

\* A request that is not refused stays out of it.
LEMMA ReportsKept ==
  ASSUME ReportsInv, UNCHANGED reporting,
         \A r \in Requests : stage[r] = "refused" => stage'[r] = "refused"
  PROVE  ReportsInv'
<1>1. ReportTypes' /\ RefusedOnce'
  BY DEF ReportsInv, ReportTypes, RefusedOnce, reporting
<1>2. CountsRefusals'
  BY DEF ReportsInv, CountsRefusals, Refused, Of, reporting
<1> QED BY <1>1, <1>2 DEF ReportsInv

\* What recordFailure makes of an entry: one more is counted, or all are reported,
\* if they fell within the window.
LEMMA CountedOnce ==
  ASSUME NEW entry \in Entries \cup {Empty}
  PROVE  LET c == Counted(entry) IN
         /\ c.entry \in Entries \cup {Empty}
         /\ c.report => /\ entry # Empty /\ entry.age \in Recent
                        /\ entry.count + 1 >= Threshold
                        /\ c.entry = Empty
         /\ ~c.report => /\ c.entry # Empty
                         /\ \/ c.entry.count = 1
                            \/ /\ entry # Empty /\ c.entry.age = entry.age
                               /\ c.entry.count = entry.count + 1
<1> DEFINE m == Max({1, Threshold - 1})
<1> DEFINE E == [count : 1 .. m, age : 0 .. Window + 1]
<1> DEFINE one == [count |-> 1, age |-> 0]
<1>1. m \in Nat /\ m >= 1 /\ m >= Threshold - 1 /\ Threshold \in Nat /\ Threshold >= 1
  BY MaxOfTwo, TollboothAssumption
<1>2. Entries = E
  BY DEF Entries
<1> HIDE DEF m
<1>3. one \in E /\ one # Empty /\ one.count = 1 /\ \A e \in E : e # Empty
  BY <1>1, TollboothAssumption DEF Empty
<1>4. CASE entry = Empty \/ entry.age > Window
  BY <1>2, <1>3, <1>4 DEF Counted
<1>5. CASE entry # Empty /\ ~(entry.age > Window) /\ entry.count + 1 < Threshold
  <2> DEFINE e == [entry EXCEPT !.count = entry.count + 1]
  <2>1. entry \in E /\ entry.count \in Nat
    BY <1>1, <1>2, <1>5
  <2>2. e \in E /\ e.count = entry.count + 1 /\ e.age = entry.age
    BY <1>1, <1>5, <2>1
  <2>3. Counted(entry).entry = e /\ Counted(entry).report = FALSE
    BY <1>5 DEF Counted
  <2> HIDE DEF e
  <2> QED BY <1>2, <1>3, <1>5, <2>2, <2>3
<1>6. CASE entry # Empty /\ ~(entry.age > Window) /\ ~(entry.count + 1 < Threshold)
  <2>1. entry \in E /\ entry.count \in Nat /\ entry.age \in Nat
    BY <1>1, <1>2, <1>6, TollboothAssumption
  <2>2. Counted(entry).entry = Empty /\ Counted(entry).report = TRUE
    BY <1>6 DEF Counted
  <2>3. entry.age \in Recent /\ entry.count + 1 >= Threshold
    BY <1>1, <1>6, <2>1, TollboothAssumption DEF Recent
  <2> QED BY <1>6, <2>2, <2>3
<1> QED BY <1>4, <1>5, <1>6

LEMMA RecordFailureInv ==
  ASSUME PagesInv, ReportsInv, NEW r \in Requests,
         stage[r] \in {"classifying", "verifying"}, RecordFailure(r)
  PROVE  ReportsInv'
<1> DEFINE a == AgentOf[r]
<1>1. /\ ReportTypes /\ RefusedOnce /\ CountsRefusals /\ Window \in Nat
      /\ a \in Agents \cup {Unnamed}
  BY TollboothAssumption DEF ReportsInv
<1>2. CASE a = Unnamed
  <2>1. Move(r, "refused") /\ UNCHANGED reporting
    BY <1>2 DEF RecordFailure
  <2>2. \A o \in Requests : stage[o] = "refused" => stage'[o] = "refused"
    BY <2>1 DEF Move, PagesInv, PageTypes
  <2> QED BY <2>1, <2>2, ReportsKept
<1>3. CASE a # Unnamed
  <2> DEFINE c == Counted(failures[a])
  <2>1. a \in Agents /\ failures[a] \in Entries \cup {Empty}
    BY <1>1, <1>3 DEF ReportTypes
  <2>2. /\ c.entry \in Entries \cup {Empty}
        /\ c.report => c.entry = Empty
        /\ ~c.report => /\ c.entry # Empty
                        /\ \/ c.entry.count = 1
                           \/ /\ failures[a] # Empty /\ c.entry.age = failures[a].age
                              /\ c.entry.count = failures[a].count + 1
    BY <2>1, CountedOnce
  <2>3. failures' = [failures EXCEPT ![a] = c.entry]
    BY <1>3 DEF RecordFailure
  <2>4. \/ /\ c.report /\ Move(r, "reporting")
           /\ reports' = [reports EXCEPT ![a] = @ + 1]
           /\ failedAgo' = [o \in Requests |-> IF AgentOf[o] = a THEN None ELSE failedAgo[o]]
        \/ /\ ~c.report /\ Move(r, "refused")
           /\ failedAgo' = [failedAgo EXCEPT ![r] = 0] /\ UNCHANGED reports
    BY <1>3 DEF RecordFailure
  <2> HIDE DEF a, c
  <2>5. failures' \in [Agents -> Entries \cup {Empty}] /\ reports' \in [Agents -> Nat]
        /\ failures'[a] = c.entry /\ \A b \in Agents \ {a} : failures'[b] = failures[b]
    BY <1>1, <2>1, <2>2, <2>3, <2>4 DEF ReportTypes
  <2>6. CASE /\ c.report /\ Move(r, "reporting")
             /\ failedAgo' = [o \in Requests |-> IF AgentOf[o] = a THEN None ELSE failedAgo[o]]
    <3>1. ReportTypes'
      BY <1>1, <2>5, <2>6 DEF ReportTypes
    <3>2. RefusedOnce'
      BY <1>1, <2>6 DEF RefusedOnce, Move, PagesInv, PageTypes
    <3>3. ASSUME NEW b \in Agents, failures'[b] # Empty
          PROVE  failures'[b].count <= Cardinality(Refused(b, failures[b].age)')
                 /\ failures'[b] = failures[b]
      <4>1. b # a /\ failures'[b] = failures[b]
        BY <2>2, <2>5, <2>6, <3>3
      <4>2. Refused(b, failures[b].age)' = Refused(b, failures[b].age)
        BY <2>6, <4>1 DEF Refused, Of
      <4> QED BY <1>1, <3>3, <4>1, <4>2 DEF CountsRefusals
    <3>4. CountsRefusals'
      BY <3>3 DEF CountsRefusals
    <3> QED BY <3>1, <3>2, <3>4 DEF ReportsInv
  <2>7. CASE /\ ~c.report /\ Move(r, "refused")
             /\ failedAgo' = [failedAgo EXCEPT ![r] = 0] /\ UNCHANGED reports
    <3>1. failedAgo' \in [Requests -> (0 .. Window + 1) \cup {None}]
          /\ failedAgo'[r] = 0 /\ \A o \in Requests \ {r} : failedAgo'[o] = failedAgo[o]
      BY <1>1, <2>7 DEF ReportTypes
    <3>2. ReportTypes'
      BY <2>5, <3>1 DEF ReportTypes
    <3>3. RefusedOnce'
      BY <1>1, <2>7, <3>1 DEF RefusedOnce, Move, PagesInv, PageTypes
    <3>4. failedAgo[r] = None /\ AgentOf[r] = a
      BY <1>1 DEF RefusedOnce, a
    <3>5. ASSUME NEW b \in Agents, failures'[b] # Empty
          PROVE  failures'[b].count <= Cardinality(Refused(b, failures[b].age)')
      <4>0. failures'[b].age \in 0 .. Window + 1 /\ failures'[b].count \in Nat
        BY <2>5, <3>5, MaxOfTwo, TollboothAssumption DEF Entries
      <4> DEFINE now == {o \in Of(b) : failedAgo'[o] \in 0 .. failures'[b].age}
      <4> DEFINE before == Refused(b, failures[b].age)
      <4>1. now = Refused(b, failures[b].age)' /\ now \subseteq Requests
        BY DEF Refused, Of
      <4>2. IsFiniteSet(now) /\ Cardinality(now) \in Nat
        BY <4>1, TollboothAssumption, FS_Subset, FS_CardinalityType
      <4>3. IsFiniteSet(before) /\ Cardinality(before) \in Nat
        BY RefusedFinite
      <4>4. CASE b # a
        <5>1. failures'[b] = failures[b]
          BY <2>5, <4>4
        <5>2. r \notin Of(b)
          BY <3>4, <4>4 DEF Of
        <5>3. now = before
          BY <3>1, <5>1, <5>2 DEF Refused, Of
        <5> QED BY <1>1, <3>5, <4>1, <5>1, <5>3 DEF CountsRefusals
      <4>5. CASE b = a
        <5>1. r \in now
          BY <3>1, <3>4, <4>0, <4>5 DEF Of
        <5>2. CASE failures'[b].count = 1
          <6>1. Cardinality(now) # 0
            BY <4>2, <5>1, FS_EmptySet
          <6> HIDE DEF now
          <6> QED BY <4>1, <4>2, <5>2, <6>1
        <5>3. CASE /\ failures[b] # Empty /\ failures'[b].age = failures[b].age
                   /\ failures'[b].count = failures[b].count + 1
          <6>1. r \notin before /\ before \cup {r} \subseteq now
            <7>1. failedAgo[r] \notin 0 .. failures[b].age
              BY <3>4, <4>0, <5>3 DEF None
            <7>2. ASSUME NEW o \in before PROVE o \in now
              <8>1. o \in Of(b) /\ failedAgo[o] \in 0 .. failures[b].age /\ o # r
                BY <7>1, <7>2 DEF Refused
              <8>2. failedAgo'[o] = failedAgo[o]
                BY <3>1, <8>1 DEF Of
              <8> QED BY <5>3, <8>1, <8>2
            <7> QED BY <5>1, <7>1, <7>2 DEF Refused
          <6>2. Cardinality(before \cup {r}) = Cardinality(before) + 1
            BY <4>3, <6>1, FS_AddElement
          <6>3. Cardinality(before \cup {r}) <= Cardinality(now)
            BY <4>2, <6>1, FS_Subset
          <6>4. failures[b].count <= Cardinality(before)
            BY <1>1, <5>3 DEF CountsRefusals
          <6>5. failures[b].count \in Nat
            BY <1>1, <5>3, MaxOfTwo, TollboothAssumption DEF ReportTypes, Entries
          <6> HIDE DEF now, before
          <6> QED BY <4>1, <4>2, <4>3, <5>3, <6>2, <6>3, <6>4, <6>5
        <5> QED BY <2>2, <2>5, <2>7, <4>5, <5>2, <5>3
      <4> QED BY <4>4, <4>5
    <3>6. CountsRefusals'
      BY <3>5 DEF CountsRefusals
    <3> QED BY <3>2, <3>3, <3>6 DEF ReportsInv
  <2> QED BY <2>4, <2>6, <2>7
<1> QED BY <1>2, <1>3

LEMMA ReportsEnd ==
  ASSUME PagesInv, ReportsInv, ProcessEnds PROVE ReportsInv'
<1>1. ReportTypes' /\ RefusedOnce'
  BY DEF ProcessEnds, ReportsInv, ReportTypes, RefusedOnce, PagesInv, PageTypes, Waiting
<1>2. CountsRefusals'
  BY DEF ProcessEnds, CountsRefusals
<1> QED BY <1>1, <1>2 DEF ReportsInv

LEMMA ReportsTick ==
  ASSUME ReportsInv, Tick PROVE ReportsInv'
<1> DEFINE W == Window + 1
<1>1. ReportTypes /\ RefusedOnce /\ CountsRefusals /\ W \in Nat
  BY TollboothAssumption DEF ReportsInv
<1>2. \A x, y \in 0 .. W : /\ Older(x, W) \in 0 .. W
                           /\ x <= y => Older(x, W) <= Older(y, W)
  BY <1>1, OlderMonotone
<1>3. /\ failedAgo' \in [Requests -> (0 .. W) \cup {None}]
      /\ \A r \in Requests : failedAgo'[r] = IF failedAgo[r] = None THEN None
                                             ELSE Older(failedAgo[r], W)
  BY <1>1, <1>2 DEF ReportTypes, Tick
<1>4. ASSUME NEW a \in Agents
      PROVE  /\ failures'[a] \in Entries \cup {Empty}
             /\ (failures'[a] = Empty) = (failures[a] = Empty)
             /\ failures[a] # Empty => /\ failures'[a].count = failures[a].count
                                       /\ failures'[a].age = Older(failures[a].age, W)
                                       /\ failures[a].age \in 0 .. W
                                       /\ failures[a].count \in Nat
  <2>1. CASE failures[a] = Empty
    BY <2>1 DEF Tick
  <2>2. CASE failures[a] # Empty
    <3>1. failures[a] \in Entries
      BY <1>1, <2>2 DEF ReportTypes
    <3>2. failures'[a] = [failures[a] EXCEPT !.age = Older(failures[a].age, W)]
      BY <2>2 DEF Tick
    <3>3. Max({1, Threshold - 1}) \in Nat
      BY MaxOfTwo, TollboothAssumption
    <3>4. failures'[a] \in Entries /\ failures'[a] # Empty
      BY <1>2, <3>1, <3>2 DEF Entries, Empty
    <3> QED BY <1>2, <2>2, <3>1, <3>2, <3>3, <3>4 DEF Entries
  <2> QED BY <2>1, <2>2
<1>5. failures' \in [Agents -> Entries \cup {Empty}]
  <2>1. DOMAIN failures' = Agents /\ failures' = [a \in Agents |-> failures'[a]]
    BY DEF Tick
  <2> QED BY <1>4, <2>1
<1>6. ReportTypes'
  BY <1>1, <1>3, <1>5 DEF ReportTypes, Tick
<1>7. RefusedOnce'
  BY <1>1, <1>3 DEF RefusedOnce, Tick
<1>8. ASSUME NEW a \in Agents, failures'[a] # Empty
      PROVE  failures'[a].count <= Cardinality(Refused(a, failures[a].age)')
  <2> DEFINE now == {o \in Of(a) : failedAgo'[o] \in 0 .. failures'[a].age}
  <2> DEFINE before == Refused(a, failures[a].age)
  <2>1. now = Refused(a, failures[a].age)' /\ now \subseteq Requests
    BY DEF Refused, Of
  <2>2. failures[a] # Empty /\ failures[a].age \in 0 .. W /\ failures[a].count \in Nat
        /\ failures'[a].age = Older(failures[a].age, W)
        /\ failures'[a].count = failures[a].count
    BY <1>4, <1>8
  <2>3. before \subseteq now
    <3> SUFFICES ASSUME NEW o \in before PROVE o \in now
      OBVIOUS
    <3>1. o \in Of(a) /\ o \in Requests /\ failedAgo[o] \in 0 .. failures[a].age
      BY DEF Refused, Of
    <3>2. failedAgo[o] # None /\ failedAgo[o] \in 0 .. W /\ failedAgo[o] <= failures[a].age
      BY <1>1, <2>2, <3>1 DEF None
    <3>3. failedAgo'[o] = Older(failedAgo[o], W)
      BY <1>3, <3>1, <3>2
    <3>4. failedAgo'[o] \in 0 .. W /\ failedAgo'[o] <= failures'[a].age
      BY <1>2, <2>2, <3>2, <3>3
    <3>5. failures'[a].age \in 0 .. W
      BY <1>2, <2>2
    <3> QED BY <1>1, <3>1, <3>4, <3>5
  <2>4. /\ IsFiniteSet(now) /\ Cardinality(now) \in Nat
        /\ Cardinality(before) \in Nat /\ Cardinality(before) <= Cardinality(now)
    BY <2>1, <2>3, TollboothAssumption, RefusedFinite, FS_Subset, FS_CardinalityType
  <2>5. failures[a].count <= Cardinality(before)
    BY <1>1, <2>2 DEF CountsRefusals
  <2> HIDE DEF now, before
  <2> QED BY <2>1, <2>2, <2>4, <2>5
<1>9. CountsRefusals'
  BY <1>8 DEF CountsRefusals
<1> QED BY <1>6, <1>7, <1>9 DEF ReportsInv

LEMMA ReportsNext ==
  ASSUME PagesInv, ReportsInv, [Next]_vars PROVE ReportsInv'
<1>1. ASSUME NEW r \in Requests, Verify(r) \/ Malformed(r) PROVE ReportsInv'
  <2>1. stage[r] \in {"classifying", "verifying"}
    BY <1>1 DEF Verify, Malformed
  <2>2. CASE RecordFailure(r)
    BY <2>1, <2>2, RecordFailureInv
  <2>3. CASE UNCHANGED reporting /\ (Deliver(r, cache.page) \/ Move(r, "fetching"))
    <3>1. \A o \in Requests : stage[o] = "refused" => stage'[o] = "refused"
      BY <2>1, <2>3 DEF Deliver, Move, PagesInv, PageTypes
    <3> QED BY <2>3, <3>1, ReportsKept
  <2> QED BY <1>1, <2>2, <2>3 DEF Verify, Malformed
<1>2. ASSUME NEW r \in Requests,
             \/ Receive(r) \/ Classify(r) \/ TurnedAway(r) \/ OriginReads(r)
             \/ FetchReturns(r) \/ Charge(r) \/ SettleReturns(r)
      PROVE ReportsInv'
  <2>1. UNCHANGED reporting
    BY <1>2 DEF Receive, Classify, TurnedAway, OriginReads, FetchReturns, Charge,
                SettleReturns
  <2>2. stage[r] # "refused" /\ \A o \in Requests \ {r} : stage'[o] = stage[o]
    BY <1>2 DEF Receive, Classify, TurnedAway, OriginReads, FetchReturns, Charge,
                SettleReturns, Deliver, Move, PagesInv, PageTypes
  <2> QED BY <2>1, <2>2, ReportsKept
<1>3. ASSUME NEW r \in Requests, FeedbackReturns(r) PROVE ReportsInv'
  <2>1. CASE Move(r, "refused") /\ UNCHANGED reporting
    <3>1. \A o \in Requests : stage[o] = "refused" => stage'[o] = "refused"
      BY <2>1 DEF Move, PagesInv, PageTypes
    <3> QED BY <2>1, <3>1, ReportsKept
  <2> QED BY <1>3, <2>1, ReportsEnd DEF FeedbackReturns
<1>4. CASE PageChanges \/ UNCHANGED vars
  BY <1>4, ReportsKept DEF PageChanges, vars, reporting
<1> QED
  BY <1>1, <1>2, <1>3, <1>4, ReportsEnd, ReportsTick DEF Next, Handler, VerifyThrows,
     Spoofed, ProxyToOrigin, Send402Challenge

\* The step that reports an agent finds Threshold refusals behind it.
LEMMA ReportStep ==
  ASSUME PagesInv, ReportsInv, [Next]_vars, NEW a \in Agents, reports'[a] # reports[a]
  PROVE  \E r \in Of(a) : /\ stage[r] # "reporting" /\ stage'[r] = "reporting"
                          /\ Cardinality(Behind(r)) >= Threshold
<1>1. PICK r \in Requests : RecordFailure(r) /\ stage[r] \in {"classifying", "verifying"}
  <2>1. ASSUME \A r \in Requests : ~(Verify(r) \/ Malformed(r)) PROVE reports' = reports
    BY <2>1 DEF Next, Handler, Receive, Classify, Spoofed, ProxyToOrigin, Send402Challenge,
       TurnedAway, VerifyThrows, ProcessEnds, FeedbackReturns, OriginReads, FetchReturns,
       Charge, SettleReturns, PageChanges, Tick, reporting, vars
  <2>2. PICK r \in Requests : Verify(r) \/ Malformed(r)
    BY <2>1
  <2>3. RecordFailure(r) \/ UNCHANGED reporting
    BY <2>2 DEF Verify, Malformed
  <2>4. RecordFailure(r)
    BY <2>3 DEF reporting
  <2> QED BY <2>2, <2>4 DEF Verify, Malformed
<1> DEFINE c == Counted(failures[AgentOf[r]])
<1>2. /\ ReportTypes /\ RefusedOnce /\ CountsRefusals /\ Threshold \in Nat
  BY TollboothAssumption DEF ReportsInv
<1>3. AgentOf[r] # Unnamed /\ c.report /\ Move(r, "reporting")
      /\ reports' = [reports EXCEPT ![AgentOf[r]] = @ + 1]
  BY <1>1 DEF RecordFailure, reporting
<1>4. AgentOf[r] = a /\ r \in Of(a)
  BY <1>2, <1>3 DEF ReportTypes, Of
<1>5. failures[a] \in Entries \cup {Empty}
  BY <1>2 DEF ReportTypes
<1>6. /\ failures[a] # Empty /\ failures[a].age \in Recent
      /\ failures[a].count + 1 >= Threshold
  BY <1>3, <1>4, <1>5, CountedOnce
<1> DEFINE before == Refused(a, failures[a].age)
<1>7. IsFiniteSet(before) /\ Cardinality(before) \in Nat /\ before \subseteq Of(a)
  BY RefusedFinite
<1>8. failures[a].count <= Cardinality(before) /\ failures[a].count \in Nat
  BY <1>2, <1>5, <1>6, MaxOfTwo, TollboothAssumption DEF CountsRefusals, Entries
<1>9. failedAgo[r] = None
  BY <1>1, <1>2 DEF RefusedOnce
<1>10. r \notin before /\ before \cup {r} \subseteq Behind(r)
  BY <1>4, <1>6, <1>9, TollboothAssumption DEF Refused, Behind, None, Recent
<1>11. IsFiniteSet(Behind(r)) /\ Cardinality(Behind(r)) \in Nat
  <2>1. Behind(r) \subseteq Requests
    BY DEF Behind, Of
  <2> QED BY <2>1, TollboothAssumption, FS_Subset, FS_CardinalityType
<1>12. Cardinality(before \cup {r}) = Cardinality(before) + 1
  BY <1>7, <1>10, FS_AddElement
<1>13. Cardinality(before \cup {r}) <= Cardinality(Behind(r))
  BY <1>10, <1>11, FS_Subset
<1> HIDE DEF before, c
<1>14. Cardinality(Behind(r)) >= Threshold
  BY <1>2, <1>6, <1>7, <1>8, <1>11, <1>12, <1>13
<1>15. stage'[r] = "reporting"
  BY <1>3 DEF Move, PagesInv, PageTypes
<1> QED BY <1>1, <1>4, <1>14, <1>15

-----------------------------------------------------------------------------
\* The server.

ServerInv == PagesInv /\ ReportsInv /\ IdInv /\ PubInv

LEMMA PubNextInv == ASSUME PubInv, [PubNext]_pvars PROVE PubInv'
  BY CreateChallengeInv, ShowInv, VerifyDomainInv, ReadsInv, SearchedInv, PubStutterInv
     DEF PubNext

LEMMA IdNextInv == ASSUME IdInv, [INext]_ivars PROVE IdInv'
  BY VerifyBotInv, LookupInv, FeedOrMoveInv, IdentityTickInv, IdStutterInv DEF INext

\* A step of the server is a step or a stutter of each part.
LEMMA PartSteps ==
  ASSUME [ServerNext]_allVars PROVE [Next]_vars /\ [INext]_ivars /\ [PubNext]_pvars
  BY DEF ServerNext, ServePages, ClassifyBots, VerifyPublishers, allVars

LEMMA ServerInductive ==
  /\ ServerInit => ServerInv
  /\ ServerInv /\ [ServerNext]_allVars => ServerInv'
<1>1. ServerInit => ServerInv
  BY PagesInit, ReportsInit, IdInitInv, PubInitInv DEF ServerInit, ServerInv
<1>2. ServerInv /\ [ServerNext]_allVars => ServerInv'
  BY PartSteps, PagesNext, ReportsNext, IdNextInv, PubNextInv DEF ServerInv
<1> QED BY <1>1, <1>2

\* tollbooth_server.ts:389-455: nobody is charged before the origin's answer is at
\* hand or for an answer it has already, and who is charged is served that answer
\* unless the process ends meanwhile; no entry of the cache is younger than the
\* news that its page was replaced.
THEOREM ServerSafe == ServerSpec => []ServerSound
<1>1. ServerInv => ServerSound
  BY DEF ServerInv, ServerSound, PageSound, PagesInv, IdInv, PubInv, PageTypes, TypeOK,
         ReportsInv, ReportTypes
<1> QED BY <1>1, ServerInductive, PTL DEF ServerSpec

\* abuse_reporter.ts:21-63: a report takes Threshold refusals of requests in the
\* name of its agent, all within the window and none reported before.  The name
\* is what the requests say.
THEOREM ReportsSafe == ServerSpec => ReportsEarned
<1>1. ServerInv /\ [ServerNext]_allVars =>
        [\A a \in Agents :
           reports'[a] # reports[a] =>
             \E r \in Of(a) : /\ stage[r] # "reporting" /\ stage'[r] = "reporting"
                             /\ Cardinality(Behind(r)) >= Threshold]_vars
  BY PartSteps, ReportStep DEF ServerInv
<1> QED BY <1>1, ServerInductive, PTL DEF ServerSpec, ReportsEarned

\* publisher_verifier.ts:59-161: nobody becomes the publisher of a domain that has
\* shown neither a token given to it for this domain nor an address that begins
\* with its own.
THEOREM PublishersSafe == ServerSpec => []PublishersProved
<1>1. ServerInv => PublishersProved
  BY DEF ServerInv, PubInv
<1> QED BY <1>1, ServerInductive, PTL DEF ServerSpec

\* Neither a page nor a crawler's name outlives its time to live, whatever
\* overlaps: bot_classifier.ts:268-298 and tollbooth_server.ts:389-412.  A
\* classifier that keeps nothing (DnsTtl = 0) may be told "confirmed" as late as
\* its lookup ends, which is the bound itself.
THEOREM FreshSafe == ASSUME DnsTtl # 0 PROVE ServerSpec => NothingStale
<1>1. ServerInv /\ [ServerNext]_allVars =>
        [\A r \in Requests :
           stage[r] = "verifying" /\ stage'[r] \in {"settling", "unmodified"}
             => gone[got'[r]] < Ttl]_vars
  BY PartSteps, ServedStep DEF ServerInv
<1>2. ServerInv /\ [ServerNext]_allVars =>
        [\A q \in Queries :
           query[q] # "verified" /\ query'[q] = "verified" /\ ~ranges
             => lapsed < LongAgo]_ivars
  BY PartSteps, AdmittedStep DEF ServerInv
<1> QED
  BY <1>1, <1>2, ServerInductive, PTL DEF ServerSpec, NothingStale, ServedFresh,
     AdmittedFresh
=============================================================================
