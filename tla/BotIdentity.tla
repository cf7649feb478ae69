------------------------------ MODULE BotIdentity ------------------------------
(***************************************************************************)
(* How the tollbooth tells a crawler from an impostor: verifyBot of        *)
(* BotClassifier (src/tollbooth/bot_classifier.ts), with its cache of DNS  *)
(* answers, and the daemon that merges the crawlers' address ranges        *)
(* (src/tollbooth/anti_spoofing.ts).                                       *)
(*                                                                         *)
(* The requests come from one address and claim to be of one family.  The  *)
(* family may take the address into use and give it up; time is kept as    *)
(* ages, as in Tollbooth.                                                  *)
(***************************************************************************)
EXTENDS Naturals

CONSTANTS
  Queries,     \* requests to be classified
  DnsTtl,      \* cacheTtlMs of the classifier, in ticks
  LookupTime   \* ticks after which a lookup has failed

ASSUME IdentityAssumption == {DnsTtl, LookupTime} \subseteq Nat

VARIABLES
  genuine,   \* the family's DNS confirms the address
  lapsed,    \* how long ago it last did
  ranges,    \* activeCidrs covers the address
  dnsCache,  \* the entry of dnsCache, or Unknown
  query,     \* query[q]: what verifyBot waits for, or its verdict
  took       \* took[q]: how long its lookup has taken

ivars == <<genuine, lapsed, ranges, dnsCache, query, took>>

Unknown == [stamp |-> "unknown"]
LongAgo == DnsTtl + LookupTime
Classified == {"verified", "spoofed"}
Looking == {"reverse", "forward", "confirmed", "denied"}

ITypeOK ==
  /\ genuine \in BOOLEAN /\ ranges \in BOOLEAN
  /\ lapsed \in 0 .. LongAgo
  /\ dnsCache \in [age : 0 .. DnsTtl, verified : BOOLEAN] \cup {Unknown}
  /\ query \in [Queries -> {"new"} \cup Looking \cup Classified]
  /\ took \in [Queries -> 0 .. LookupTime]

IInit ==
  /\ genuine \in BOOLEAN
  /\ lapsed = IF genuine THEN 0 ELSE LongAgo
  /\ ranges \in BOOLEAN
  /\ dnsCache = Unknown
  /\ query = [q \in Queries |-> "new"]
  /\ took = [q \in Queries |-> 0]

To(q, s) == query' = [query EXCEPT ![q] = s]

-----------------------------------------------------------------------------

\* mutant: an answer is kept for good.
StillKnownForever == dnsCache # Unknown

StillKnown == dnsCache # Unknown /\ dnsCache.age < DnsTtl

\* verifyBot up to its await: the ranges, then the cache, then DNS.
VerifyBot(q) ==
  /\ query[q] = "new"
  /\ To(q, IF ranges THEN "verified"
           ELSE IF ~StillKnown THEN "reverse"
           ELSE IF dnsCache.verified THEN "verified" ELSE "spoofed")
  /\ UNCHANGED <<genuine, lapsed, ranges, dnsCache, took>>

\* The reverse lookup: a name of the family, whoever has claimed it, or another
\* one, none, or no answer in time.
ReverseReturns(q) ==
  /\ query[q] = "reverse"
  /\ To(q, "forward") \/ To(q, "denied")
  /\ UNCHANGED <<genuine, lapsed, ranges, dnsCache, took>>

\* The forward lookup of that name, as the family's DNS answers it, or no answer.
ForwardReads(q) ==
  /\ query[q] = "forward"
  /\ (genuine /\ To(q, "confirmed")) \/ To(q, "denied")
  /\ UNCHANGED <<genuine, lapsed, ranges, dnsCache, took>>

\* The answer has come: it is kept from now on, a failure like a denial.
LookupReturns(q) ==
  /\ query[q] \in {"confirmed", "denied"}
  /\ dnsCache' = [age |-> 0, verified |-> query[q] = "confirmed"]
  /\ To(q, IF query[q] = "confirmed" THEN "verified" ELSE "spoofed")
  /\ took' = [took EXCEPT ![q] = 0]
  /\ UNCHANGED <<genuine, lapsed, ranges>>

\* verifyBotDns
Lookup(q) == ReverseReturns(q) \/ ForwardReads(q) \/ LookupReturns(q)

\* refreshAll: what a feed lists is merged, and what it no longer lists stays.
RefreshFeed ==
  /\ ~ranges /\ genuine
  /\ ranges' = TRUE
  /\ UNCHANGED <<genuine, lapsed, dnsCache, query, took>>

\* The family takes the address into use, or gives it up.
AddressMoves ==
  /\ genuine' = ~genuine
  /\ lapsed' = 0
  /\ UNCHANGED <<ranges, dnsCache, query, took>>

\* A tick, unless a lookup has come to its time.
IdentityTick ==
  /\ \A q \in Queries : took[q] < LookupTime
  /\ lapsed' = IF genuine \/ lapsed = LongAgo THEN lapsed ELSE lapsed + 1
  /\ dnsCache' = IF dnsCache # Unknown /\ dnsCache.age < DnsTtl
                 THEN [dnsCache EXCEPT !.age = @ + 1] ELSE dnsCache
  /\ took' = [q \in Queries |-> IF query[q] \in Looking THEN took[q] + 1 ELSE took[q]]
  /\ UNCHANGED <<genuine, ranges, query>>

INext ==
  \/ \E q \in Queries : VerifyBot(q) \/ Lookup(q)
  \/ RefreshFeed \/ AddressMoves \/ IdentityTick

-----------------------------------------------------------------------------

\* A crawler that is not in the ranges is let through only if its family has
\* confirmed the address within the cache's time and a lookup's, also when
\* lookups overlap, fail and end out of order (bot_classifier.ts:268-298: an
\* entry is stamped when its answer has come).
AdmittedFresh ==
  [][\A q \in Queries :
       query[q] # "verified" /\ query'[q] = "verified" /\ ~ranges
         => lapsed < LongAgo]_ivars
=============================================================================
