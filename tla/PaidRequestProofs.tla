--------------------------- MODULE PaidRequestProofs ---------------------------
(***************************************************************************)
(* The nonces of overlapping calls fit the account, what is served was     *)
(* verified, and a session's spending stays within its limit and what      *)
(* overlapping calls could not see, for every number of calls, prices and  *)
(* limits, every library and every deployment of the gateway.              *)
(***************************************************************************)
EXTENDS PaidRequest, SumProofs

-----------------------------------------------------------------------------
(* The verdict of VerifierService.verify, with a relayer pool and without, *)
(* whatever the simulation answers.                                        *)

\* The transfers that ask for a verdict at all: one of the token asked for.
LEMMA MatchingTransfer ==
  ASSUME NEW p \in Payment, TransferVerdict(p) = Valid
  PROVE  /\ ~p.value /\ p.data \in {"transfer", "encoded"}
         /\ p.asset /\ p.receiver /\ p.funded
<1>1. \E t \in Transfers(p) : t.asset /\ t.receiver
  BY DEF TransferVerdict, Valid, Invalid
<1>2. p.funded
  BY DEF TransferVerdict, Valid, Invalid, Unfunded
<1>3. ~p.value
  BY <1>1 DEF Transfers
<1>4. p.data \in {"transfer", "encoded"}
  BY <1>1, <1>3 DEF Transfers
<1>5. p.asset /\ p.receiver
  BY <1>1, <1>3, <1>4 DEF Transfers, Parsed
<1>q. QED
  BY <1>2, <1>3, <1>4, <1>5

\* A valid payment passed every check, in whatever order they are made.
LEMMA ValidPassesAll ==
  ASSUME NEW p, NEW hasPool, NEW sim, Verdict(p, hasPool, sim) = Valid
  PROVE  /\ p.accepted \notin {"absent", "other"} /\ p.chain /\ GasWithinBounds(p)
         /\ p.window \notin {"expired", "early"}
         /\ TransferVerdict(p) = Valid
         /\ WellSigned(p) /\ RelayerAccepted(p, hasPool)
         /\ SimulationVerdict(sim) = Valid
<1>1. Valid \notin {Thrown, Invalid, Expired}
  BY DEF Valid, Thrown, Invalid, Expired
<1>q. QED
  BY <1>1 DEF Verdict

\* A payment called valid is worth what was asked for once its data is decoded.
LEMMA ValidDecodes ==
  ASSUME NEW p \in Payment, NEW hasPool \in BOOLEAN, NEW sim \in Simulations,
         Verdict(p, hasPool, sim) = Valid
  PROVE  Pays(Decoded(p))
<1>1. p.accepted = "match" /\ p.window = "open" /\ p.chain
  BY ValidPassesAll DEF Payment
<1>2. ~p.value /\ p.data \in {"transfer", "encoded"} /\ p.asset /\ p.receiver /\ p.funded
  BY ValidPassesAll, MatchingTransfer
<1>3. p.signed
  BY ValidPassesAll DEF WellSigned
<1>4. /\ Decoded(p).accepted = p.accepted /\ Decoded(p).window = p.window
      /\ Decoded(p).data = "transfer"
  BY <1>2 DEF Decoded, Payment
<1>5. /\ Decoded(p).chain <=> p.chain
      /\ Decoded(p).value <=> p.value
      /\ Decoded(p).asset <=> p.asset
      /\ Decoded(p).receiver <=> p.receiver
      /\ Decoded(p).funded <=> p.funded
      /\ Decoded(p).signed <=> p.signed
  BY DEF Decoded, Payment
<1> HIDE DEF Decoded
<1>q. QED
  BY <1>1, <1>2, <1>3, <1>4, <1>5 DEF Pays

\* verifier.ts:61 "Verifies an x402 v2 payment payload against requested payment
\* requirements": a payment called valid moves what was asked for to the
\* merchant, and its payer signed it, unless its data is base64 text.
THEOREM ValidPays ==
  ASSUME NEW p \in Payment, NEW hasPool \in BOOLEAN, NEW sim \in Simulations,
         Verdict(p, hasPool, sim) = Valid, p.data # "encoded"
  PROVE  Pays(p)
<1>1. Decoded(p) = p
  BY DEF Decoded, Payment
<1>q. QED
  BY <1>1, ValidDecodes

\* What a pool adds: a valid payment that names a relayer names one of the payer's
\* shard, so the settler finds the key to sign for it.
THEOREM ValidIsRelayable ==
  ASSUME NEW p \in Payment, NEW sim \in Simulations,
         Verdict(p, TRUE, sim) = Valid, p.relayer # "none"
  PROVE  p.relayer = "shard" /\ p.cosigned # "bad" /\ p.gas = "bounded"
<1>1. RelayerAccepted(p, TRUE) /\ GasWithinBounds(p)
  BY ValidPassesAll
<1>q. QED
  BY <1>1 DEF RelayerAccepted, GasWithinBounds

-----------------------------------------------------------------------------
(* A paid call from end to end.                                            *)

\* A call that has not come to its nonce.
Before == {"new", "asking", "resolving", "numbering", "told"}

-----------------------------------------------------------------------------
\* The invariant.

\* The count is ahead of every nonce in use, and no two calls use the same one.
Counting ==
  lib # Sdk =>
    /\ nextNonce # None
    /\ \A c \in Calls : /\ phase[c] \in Before => nonce[c] = None
                        /\ Numbered(c) => nonce[c] < nextNonce
    /\ NoncesDistinct

\* What a call was told is, or was, the account's nonce; and the account only
\* moves on by payments that were counted.
Told ==
  /\ acct >= StartNonce
  /\ \A c \in Calls : seen[c] # None => seen[c] \in StartNonce .. acct
Caused == lib = Agent => acct = StartNonce \/ acct <= nextNonce

\* Every nonce from the account's up to the count is some call's.
Gapless == lib = Agent => \A n \in acct .. nextNonce - 1 : \E d \in Calls : nonce[d] = n

NonceInv == Counting /\ Told /\ Caused /\ Gapless /\ NonceUsable

\* Where the server is with a payment, its call has made it and will not make
\* another; what is settled, or answered as served, verify() took a payment for.
Paying ==
  \A c \in Calls :
    /\ wire[c] = "paid" \/ at[c] # "idle" => phase[c] \notin Before
    /\ phase[c] \notin {"asking", "paying"} => reply[c] = Unanswered
    /\ lib # Sdk =>
         /\ at[c] # "forwarded"
         /\ at[c] \in {"settling", "inferring"} => PaidFor(c)
         /\ phase[c] = "paying" /\ reply[c] = "ok" => PaidFor(c)

CallInv == PTypeOK /\ NonceInv /\ Paying

-----------------------------------------------------------------------------

LEMMA LargerOf ==
  ASSUME NEW a \in Int, NEW b \in Int
  PROVE  Max({a, b}) \in {a, b} /\ Max({a, b}) >= a /\ Max({a, b}) >= b
<1> DEFINE IsMax(m) == m \in {a, b} /\ \A o \in {a, b} : m >= o
<1>1. \E m : IsMax(m)
  <2>1. CASE a <= b
    BY <2>1
  <2>2. CASE b <= a
    BY <2>2
  <2> QED BY <2>1, <2>2
<1>2. IsMax(Max({a, b}))
  BY <1>1 DEF Max
<1> QED BY <1>2

LEMMA SmallerOf ==
  ASSUME NEW a \in Int, NEW b \in Int
  PROVE  Min({a, b}) \in {a, b} /\ Min({a, b}) <= a /\ Min({a, b}) <= b
<1> DEFINE IsMin(m) == m \in {a, b} /\ \A o \in {a, b} : m <= o
<1>1. \E m : IsMin(m)
  <2>1. CASE a <= b
    BY <2>1
  <2>2. CASE b <= a
    BY <2>2
  <2> QED BY <2>1, <2>2
<1>2. IsMin(Min({a, b}))
  BY <1>1 DEF Min
<1> QED BY <1>2

\* The sets of calls are finite, and so the sums of their prices are naturals.
LEMMA PricesAdd ==
  /\ \A S \in SUBSET Calls : IsFiniteSet(S) /\ Sum(PriceOf, S) \in Nat
  /\ \A S \in SUBSET Calls : CostOf(S) = Sum(PriceOf, S)
  /\ \A c \in Calls : PriceOf[c] \in Nat
  /\ Passed \in SUBSET Calls
<1>1. \A c \in Calls : PriceOf[c] \in Nat
  BY ClientAssumption
<1>2. ASSUME NEW S \in SUBSET Calls
      PROVE  IsFiniteSet(S) /\ Sum(PriceOf, S) \in Nat
  <2>1. IsFiniteSet(S)
    BY FS_Subset, ClientAssumption
  <2> QED BY <1>1, <2>1, SumType
<1>3. ASSUME NEW S \in SUBSET Calls PROVE CostOf(S) = Sum(PriceOf, S)
  BY DEF CostOf, MapThenSumSet, MapThenFoldSet, Sum, SumFunctionOnSet, FoldFunctionOnSet
<1>4. Passed \in SUBSET Calls
  BY DEF Passed
<1> QED BY <1>1, <1>2, <1>3, <1>4

LEMMA VerifiedPays ==
  ASSUME PTypeOK, NEW c \in Calls, NEW p \in Accepted(c)
  PROVE  p \in Payment /\ Pays(Decoded(p))
<1>1. PICK sim \in SimulationsOf(c) : Verdict(p, gw.pool, sim) = Valid
  BY DEF Accepted
<1>2. sim \in Simulations
  BY DEF SimulationsOf, Simulations
<1>3. gw.pool \in BOOLEAN
  BY GatewayAssumption DEF PTypeOK
<1>4. p \in Payment
  <2>1. PICK q \in Presented :
          p = [q EXCEPT !.signed = @ /\ consent[c], !.relayer = relayer[c]]
    BY DEF Accepted, PaymentsOf
  <2>2. q \in Payment /\ relayer[c] \in {"shard", "other"}
    BY GatewayAssumption DEF PTypeOK
  <2>3. (q.signed /\ consent[c]) \in BOOLEAN
    OBVIOUS
  <2>4. PICK flag \in BOOLEAN : flag = (q.signed /\ consent[c])
    BY <2>3
  <2>5. PICK r \in {"none", "shard", "other"} : r = relayer[c]
    BY <2>2
  <2>6. p = [q EXCEPT !.signed = flag, !.relayer = r]
    BY <2>1, <2>4, <2>5
  <2> QED BY <2>2, <2>6 DEF Payment
<1> QED BY <1>1, <1>2, <1>3, <1>4, ValidDecodes

LEMMA CountedType ==
  ASSUME PTypeOK, Counted PROVE count' \in 0 .. RateMax
<1>1. count \in Nat /\ RateMax \in Nat
  BY GatewayAssumption DEF PTypeOK
<1>2. /\ Min({count + 1, RateMax}) \in {count + 1, RateMax}
      /\ Min({count + 1, RateMax}) <= RateMax
  BY <1>1, SmallerOf
<1> HIDE DEF Min
<1>3. Min({count + 1, RateMax}) \in 0 .. RateMax
  BY <1>1, <1>2
<1> QED BY <1>3 DEF Counted, PTypeOK

LEMMA PaidInit == ASSUME PInit PROVE CallInv
<1> USE ClientAssumption, GatewayAssumption
<1>1. PTypeOK
  <2>1. /\ lib \in Libraries /\ known \in BOOLEAN /\ spend \in Nat
        /\ method \in [Calls -> Methods] /\ phase \in [Calls -> Phases]
        /\ relayer \in [Calls -> {"shard", "other"}] /\ consent \in [Calls -> BOOLEAN]
        /\ wire \in [Calls -> {"none", "plain", "paid"}] /\ reply \in [Calls -> Replies]
    BY DEF PInit, Init, Methods, Phases, Replies
  <2>2. {nonce, seen} \subseteq [Calls -> Nat \cup {None}] /\ nextNonce \in Nat \cup {None}
    BY DEF PInit, Init
  <2>3. /\ gw \in Gateways /\ count \in 0 .. RateMax /\ at \in [Calls -> Stages] /\ acct \in Nat
        /\ executed \subseteq sent /\ sent \subseteq Calls
        /\ verified \in [Calls -> SUBSET Payment] /\ unseen \in Nat
    BY DEF PInit, Stages
  <2> QED BY <2>1, <2>2, <2>3 DEF PTypeOK
<1>2. NonceInv
  <2>1. Counting /\ Told /\ Caused /\ NonceUsable
    BY DEF PInit, Init, Counting, NoncesDistinct, Told, Caused, NonceUsable, Numbered, None
  <2>2. Gapless
    BY DEF PInit, Init, Gapless, Agent, Sdk
  <2> QED BY <2>1, <2>2 DEF NonceInv
<1>3. Paying
  BY DEF PInit, Init, Paying
<1> QED BY <1>1, <1>2, <1>3 DEF CallInv

-----------------------------------------------------------------------------
\* Calls that take no nonce.

\* A step that touches no nonce keeps them, if no call goes back.
LEMMA NoncesKept ==
  ASSUME NonceInv, UNCHANGED <<lib, nonce, seen, nextNonce, acct, executed>>,
         \A c \in Calls : phase'[c] \in Before => phase[c] \in Before
  PROVE  NonceInv'
<1>1. Counting'
  BY DEF NonceInv, Counting, NoncesDistinct, Numbered
<1>2. Told' /\ Caused' /\ Gapless' /\ NonceUsable'
  BY DEF NonceInv, Told, Caused, Gapless, NonceUsable, Numbered
<1> QED BY <1>1, <1>2 DEF NonceInv

LEMMA AskInv ==
  ASSUME CallInv, unseen' \in Nat, NEW c \in Calls, NEW m \in Methods, Ask(c, m), UNCHANGED svars
  PROVE  CallInv'
<1>1. PTypeOK'
  BY DEF CallInv, PTypeOK, Ask, Move, Post, Phases, svars
<1>2. NonceInv'
  BY NoncesKept DEF CallInv, PTypeOK, Ask, Move, Before, svars
<1>3. Paying'
  BY DEF CallInv, PTypeOK, Paying, PaidFor, Ask, Move, Post, Before, svars
<1> QED BY <1>1, <1>2, <1>3 DEF CallInv

LEMMA AnsweredFreeInv ==
  ASSUME CallInv, unseen' \in Nat, NEW c \in Calls, AnsweredFree(c), UNCHANGED svars PROVE CallInv'
<1>1. PTypeOK'
  BY DEF CallInv, PTypeOK, AnsweredFree, Move, Consume, Phases, Replies, svars
<1>2. NonceInv'
  BY NoncesKept DEF CallInv, PTypeOK, AnsweredFree, Move, Before, svars
<1>3. Paying'
  BY DEF CallInv, PTypeOK, Paying, PaidFor, AnsweredFree, Move, Consume, Before, svars
<1> QED BY <1>1, <1>2, <1>3 DEF CallInv

LEMMA ChallengedInv ==
  ASSUME CallInv, unseen' \in Nat, NEW c \in Calls, Challenged(c), UNCHANGED svars PROVE CallInv'
<1>1. PICK p \in {"failed", "numbering", "resolving"} : Move(c, p)
  BY DEF Challenged
<1>2. relayer' \in [Calls -> {"shard", "other"}]
  BY DEF CallInv, PTypeOK, Challenged
<1>3. PTypeOK'
  BY <1>1, <1>2 DEF CallInv, PTypeOK, Challenged, Move, Consume, Phases, Replies, svars
<1>4. NonceInv'
  BY <1>1, NoncesKept DEF CallInv, PTypeOK, Challenged, Move, Before, svars
<1>5. Paying'
  BY <1>1 DEF CallInv, PTypeOK, Paying, PaidFor, Challenged, Move, Consume, Before, svars
<1> QED BY <1>3, <1>4, <1>5 DEF CallInv

LEMMA GiveUpInv ==
  ASSUME CallInv, unseen' \in Nat, NEW c \in Calls, GiveUp(c), UNCHANGED svars PROVE CallInv'
<1>1. PICK w \in {wire[c], "none"} : wire' = [wire EXCEPT ![c] = w]
  BY DEF GiveUp
<1>2. PTypeOK'
  BY <1>1 DEF CallInv, PTypeOK, GiveUp, Move, Phases, svars
<1>3. NonceInv'
  BY NoncesKept DEF CallInv, PTypeOK, GiveUp, Move, Before, svars
<1>4. Paying'
  BY <1>1 DEF CallInv, PTypeOK, Paying, PaidFor, GiveUp, Listening, Move, Before, svars
<1> QED BY <1>2, <1>3, <1>4 DEF CallInv

\* The response to a payment, and the body after it.
LEMMA PaidInv ==
  ASSUME CallInv, unseen' \in Nat, NEW c \in Calls,
         PaidChat(c) \/ PaidStream(c) \/ PaidFetch(c) \/ PaidSdk(c) \/ ReadBody(c),
         UNCHANGED svars
  PROVE  CallInv'
<1>1. /\ phase[c] \in {"paying", "reading"}
      /\ UNCHANGED <<lib, method, nonce, seen, relayer, consent, nextNonce, known, wire>>
      /\ Consume(c) \/ (phase[c] = "reading" /\ UNCHANGED reply)
  BY DEF PaidChat, PaidStream, PaidFetch, PaidSdk, ReadBody, AnsweredPaid
<1>2. PICK p \in {"reading", "done", "failed"} : Move(c, p)
  BY DEF PaidChat, PaidStream, PaidFetch, PaidSdk, ReadBody
<1>3. spend' \in Nat
  BY ClientAssumption DEF PaidChat, PaidStream, PaidFetch, PaidSdk, ReadBody, CallInv, PTypeOK
<1>4. PTypeOK'
  BY <1>1, <1>2, <1>3 DEF CallInv, PTypeOK, Move, Consume, Phases, Replies, svars
<1>5. NonceInv'
  BY <1>1, <1>2, NoncesKept DEF CallInv, PTypeOK, Move, Before, svars
<1>6. Paying'
  BY <1>1, <1>2 DEF CallInv, PTypeOK, Paying, PaidFor, Move, Consume, Before, svars
<1> QED BY <1>4, <1>5, <1>6 DEF CallInv

LEMMA ResolveInv ==
  ASSUME CallInv, unseen' \in Nat, NEW c \in Calls, ResolveRelayer(c) PROVE CallInv'
<1>1. PICK found \in {FALSE, Admitted /\ gw.pool} : Resolve(c, found)
  BY DEF ResolveRelayer
<1>2. /\ relayer' \in [Calls -> {"shard", "other"}] /\ phase[c] = "resolving"
      /\ UNCHANGED <<lib, method, nonce, seen, consent, nextNonce, reply>>
      /\ UNCHANGED <<gw, at, verified, acct, sent, executed>>
  BY <1>1 DEF CallInv, PTypeOK, Resolve, ResolveRelayer, SignWithSdk, Post
<1>3. count' \in 0 .. RateMax
  BY CountedType DEF ResolveRelayer, CallInv
<1>4. CASE lib = Sdk
  <2>1. SignWithSdk(c)
    BY <1>1, <1>4 DEF Resolve
  <2>2. spend' \in Nat
    BY <2>1, ClientAssumption DEF SignWithSdk, CallInv, PTypeOK
  <2>3. PTypeOK'
    BY <1>2, <1>3, <2>1, <2>2 DEF CallInv, PTypeOK, SignWithSdk, Move, Post, Phases
  <2>4. NonceInv'
    BY <1>2, <2>1, NoncesKept DEF CallInv, PTypeOK, SignWithSdk, Move, Before
  <2>5. Paying'
    BY <1>2, <1>4, <2>1 DEF CallInv, PTypeOK, Paying, PaidFor, SignWithSdk, Move, Post, Before
  <2> QED BY <2>3, <2>4, <2>5 DEF CallInv
<1>5. CASE lib # Sdk
  <2>1. /\ known' = (known \/ found) /\ Move(c, "numbering") /\ UNCHANGED <<spend, wire>>
    BY <1>1, <1>5 DEF Resolve
  <2>2. known' \in BOOLEAN
    BY <2>1
  <2>3. PTypeOK'
    BY <1>2, <1>3, <2>1, <2>2 DEF CallInv, PTypeOK, Move, Phases
  <2>4. NonceInv'
    BY <1>2, <2>1, NoncesKept DEF CallInv, PTypeOK, Move, Before
  <2>5. Paying'
    BY <1>2, <2>1 DEF CallInv, PTypeOK, Paying, PaidFor, Move, Before
  <2> QED BY <2>3, <2>4, <2>5 DEF CallInv
<1> QED BY <1>4, <1>5

-----------------------------------------------------------------------------
\* Calls that take their nonce.

LEMMA AskAccountInv ==
  ASSUME CallInv, unseen' \in Nat, NEW c \in Calls, AskAccount(c) PROVE CallInv'
<1>1. PICK n \in {None, acct} : ReadAccount(c, n)
  BY DEF AskAccount
<1>2. PTypeOK'
  <2>1. n \in Nat \cup {None}
    BY DEF CallInv, PTypeOK
  <2>2. /\ seen' \in [Calls -> Nat \cup {None}] /\ phase' \in [Calls -> Phases]
        /\ UNCHANGED <<lib, method, nonce, relayer, consent, nextNonce, known, spend, wire, reply>>
        /\ UNCHANGED svars
    BY <1>1, <2>1 DEF CallInv, PTypeOK, ReadAccount, Move, Phases, AskAccount
  <2> QED BY <2>2 DEF CallInv, PTypeOK, svars
<1>3. NonceInv'
  <2>1. /\ seen'[c] = n /\ \A d \in Calls \ {c} : seen'[d] = seen[d]
        /\ phase[c] \in Before /\ \A d \in Calls \ {c} : phase'[d] = phase[d]
        /\ UNCHANGED <<lib, nonce, nextNonce, acct, executed>>
    BY <1>1 DEF CallInv, PTypeOK, ReadAccount, Move, AskAccount, svars, Before
  <2>2. Counting'
    BY <2>1 DEF CallInv, NonceInv, Counting, NoncesDistinct, Numbered
  <2>3. Told'
    BY <2>1, ClientAssumption DEF CallInv, PTypeOK, NonceInv, Told
  <2>4. Caused' /\ Gapless'
    BY <2>1 DEF CallInv, NonceInv, Caused, Gapless
  <2>5. lib = Agent => nonce[c] = None
    BY <2>1 DEF CallInv, NonceInv, Counting, Agent, Sdk
  <2>6. NonceUsable'
    BY <2>1, <2>5 DEF CallInv, NonceInv, NonceUsable, Numbered
  <2> QED BY <2>2, <2>3, <2>4, <2>6 DEF NonceInv
<1>4. Paying'
  BY <1>1 DEF CallInv, PTypeOK, Paying, PaidFor, ReadAccount, Move, Before, AskAccount, svars
<1> QED BY <1>2, <1>3, <1>4 DEF CallInv

\* The count catches up with what the call was told, so it is not behind the
\* account; and where it jumps, nothing between the account and it is left out.
LEMMA TakeNonceInv ==
  ASSUME CallInv, unseen' \in Nat, NEW c \in Calls, TakeNonce(c), UNCHANGED svars PROVE CallInv'
<1> DEFINE n == Max({nextNonce, seen[c]})
<1>0. PTypeOK /\ NonceInv /\ lib = Agent /\ lib # Sdk /\ phase[c] = "told"
  BY DEF CallInv, TakeNonce, Agent, Sdk
<1>1. nextNonce \in Nat /\ seen[c] \in Nat \cup {None} /\ acct \in Nat /\ StartNonce \in Nat
  BY <1>0, ClientAssumption DEF PTypeOK, NonceInv, Counting
<1>2. n \in Nat /\ n \in {nextNonce, seen[c]} /\ n >= nextNonce /\ n >= seen[c]
  <2>1. nextNonce \in Int /\ seen[c] \in Int
    BY <1>1 DEF None
  <2>2. PICK s \in Int : s = seen[c]
    BY <2>1
  <2>3. /\ Max({nextNonce, s}) \in {nextNonce, s}
        /\ Max({nextNonce, s}) >= nextNonce /\ Max({nextNonce, s}) >= s
    BY <2>1, LargerOf
  <2>4. n \in {nextNonce, s} /\ n >= nextNonce /\ n >= s
    BY <2>2, <2>3
  <2> HIDE DEF n
  <2> QED BY <1>1, <2>2, <2>4 DEF None
<1>3. nonce' = [nonce EXCEPT ![c] = n] /\ nextNonce' = n + 1
  BY DEF TakeNonce
<1> HIDE DEF n
<1>4. /\ nonce' \in [Calls -> Nat \cup {None}] /\ nonce'[c] = n
      /\ \A d \in Calls \ {c} : nonce'[d] = nonce[d]
  BY <1>0, <1>2, <1>3 DEF PTypeOK
<1>5. /\ phase' \in [Calls -> Phases] /\ phase'[c] = "paying"
      /\ \A d \in Calls \ {c} : phase'[d] = phase[d]
  BY <1>0 DEF PTypeOK, TakeNonce, Move, Phases
<1>6. PTypeOK'
  BY <1>0, <1>2, <1>3, <1>4, <1>5 DEF PTypeOK, TakeNonce, Post, svars
<1>7. nonce[c] = None
  BY <1>0 DEF NonceInv, Counting, Before
<1>8. UNCHANGED <<lib, seen, acct, executed>>
  BY DEF TakeNonce, svars
<1>9. Counting'
  <2>1. \A d \in Calls \ {c} : Numbered(d)' => nonce'[d] < nextNonce /\ nonce'[d] \in Nat
    BY <1>0, <1>4 DEF PTypeOK, NonceInv, Counting, Numbered
  <2>2. nextNonce' # None /\ \A d \in Calls : Numbered(d)' => nonce'[d] < nextNonce'
    BY <1>1, <1>2, <1>3, <1>4, <2>1 DEF None
  <2>3. \A d \in Calls : phase'[d] \in Before => nonce'[d] = None
    BY <1>0, <1>4, <1>5, <1>8 DEF NonceInv, Counting, Before
  <2>4. \A d \in Calls \ {c} : Numbered(d)' => nonce'[d] # nonce'[c]
    BY <1>1, <1>2, <1>4, <2>1
  <2>5. NoncesDistinct'
    BY <1>0, <1>4, <2>4 DEF NonceInv, Counting, NoncesDistinct, Numbered
  <2> QED BY <2>2, <2>3, <2>5 DEF Counting
<1>10. Told'
  BY <1>0, <1>8 DEF NonceInv, Told
<1>11. Caused'
  BY <1>0, <1>1, <1>2, <1>3, <1>8 DEF NonceInv, Caused
<1>12. Gapless'
  <2> SUFFICES ASSUME NEW k \in acct .. nextNonce' - 1 PROVE \E d \in Calls : nonce'[d] = k
    BY <1>8 DEF Gapless
  <2>1. k \in Int /\ acct <= k /\ k <= n
    BY <1>1, <1>2, <1>3
  <2>2. CASE k = n
    BY <1>4, <2>2
  <2>3. CASE k # n /\ n = nextNonce
    <3>1. k \in acct .. nextNonce - 1
      BY <1>1, <1>2, <2>1, <2>3
    <3>2. PICK d \in Calls : nonce[d] = k
      BY <1>0, <3>1 DEF NonceInv, Gapless
    <3>3. d # c
      BY <1>1, <1>7, <2>1, <3>2 DEF None
    <3> QED BY <1>4, <3>2, <3>3
  <2>4. CASE k # n /\ n = seen[c]
    <3>1. seen[c] <= acct
      BY <1>0, <1>1, <1>2, <2>4 DEF NonceInv, Told, None
    <3> QED BY <1>1, <1>2, <2>1, <2>4, <3>1
  <2> QED BY <1>2, <2>2, <2>3, <2>4
<1>13. NonceUsable'
  <2>1. seen[c] # None => n >= acct
    <3> SUFFICES ASSUME seen[c] # None PROVE n >= acct
      OBVIOUS
    <3>1. seen[c] >= StartNonce
      BY <1>0, <1>1 DEF NonceInv, Told
    <3>2. acct = StartNonce \/ acct <= nextNonce
      BY <1>0 DEF NonceInv, Caused
    <3> QED BY <1>1, <1>2, <3>1, <3>2
  <2> QED BY <1>0, <1>4, <1>8, <2>1 DEF NonceInv, NonceUsable, Numbered
<1>14. NonceInv'
  BY <1>9, <1>10, <1>11, <1>12, <1>13 DEF NonceInv
<1>15. Paying'
  BY <1>0, <1>5 DEF CallInv, PTypeOK, Paying, PaidFor, TakeNonce, Post, Before, Unanswered, svars
<1> QED BY <1>6, <1>14, <1>15 DEF CallInv

LEMMA TakePythonNonceInv ==
  ASSUME CallInv, unseen' \in Nat, NEW c \in Calls, TakePythonNonce(c), UNCHANGED svars PROVE CallInv'
<1>0. PTypeOK /\ NonceInv /\ lib # Agent /\ lib # Sdk /\ phase[c] = "numbering"
  BY DEF CallInv, TakePythonNonce, Agent, Sdk, Python
<1>1. nextNonce \in Nat
  BY <1>0 DEF PTypeOK, NonceInv, Counting
<1>2. PICK same \in BOOLEAN : consent' = [consent EXCEPT ![c] = same]
  BY DEF TakePythonNonce
<1>3. /\ nonce' \in [Calls -> Nat \cup {None}] /\ nonce'[c] = nextNonce
      /\ \A d \in Calls \ {c} : nonce'[d] = nonce[d] /\ nextNonce' = nextNonce + 1
  BY <1>0, <1>1 DEF PTypeOK, TakePythonNonce
<1>4. nextNonce' = nextNonce + 1 /\ UNCHANGED <<lib, seen, acct, executed>>
  BY DEF TakePythonNonce, svars
<1>5. /\ phase' \in [Calls -> Phases] /\ phase'[c] = "paying"
      /\ \A d \in Calls \ {c} : phase'[d] = phase[d]
  BY <1>0 DEF PTypeOK, TakePythonNonce, Move, Phases
<1>6. PTypeOK'
  <2>1. consent' \in [Calls -> BOOLEAN] /\ wire' \in [Calls -> {"none", "plain", "paid"}]
    BY <1>0, <1>2 DEF PTypeOK, TakePythonNonce, Post
  <2>2. /\ nextNonce' \in Nat
        /\ UNCHANGED <<lib, method, seen, relayer, known, spend, reply>>
    BY <1>1, <1>4 DEF TakePythonNonce, Post
  <2> QED BY <1>0, <1>3, <1>5, <2>1, <2>2 DEF PTypeOK, svars
<1>7. Counting'
  <2>1. \A d \in Calls \ {c} : Numbered(d)' => nonce'[d] < nextNonce /\ nonce'[d] \in Nat
    BY <1>0, <1>3 DEF PTypeOK, NonceInv, Counting, Numbered
  <2>2. nextNonce' # None /\ \A d \in Calls : Numbered(d)' => nonce'[d] < nextNonce'
    BY <1>1, <1>3, <1>4, <2>1 DEF None
  <2>3. \A d \in Calls : phase'[d] \in Before => nonce'[d] = None
    BY <1>0, <1>3, <1>4, <1>5 DEF NonceInv, Counting, Before
  <2>4. \A d \in Calls \ {c} : Numbered(d)' => nonce'[d] # nonce'[c]
    BY <1>1, <1>3, <2>1
  <2>5. NoncesDistinct'
    BY <1>0, <1>3, <2>4 DEF NonceInv, Counting, NoncesDistinct, Numbered
  <2> QED BY <2>2, <2>3, <2>5 DEF Counting
<1>8. NonceInv'
  BY <1>0, <1>4, <1>7 DEF NonceInv, Told, Caused, Gapless, NonceUsable
<1>9. Paying'
  BY <1>0, <1>2, <1>5 DEF CallInv, PTypeOK, Paying, PaidFor, TakePythonNonce, Post, Before, Unanswered, svars
<1> QED BY <1>6, <1>8, <1>9 DEF CallInv

\* The SDK's nonces are only typed: they may collide.
LEMMA TakeSdkNonceInv ==
  ASSUME CallInv, unseen' \in Nat, NEW c \in Calls, TakeSdkNonce(c), UNCHANGED svars PROVE CallInv'
<1>0. PTypeOK /\ NonceInv /\ lib = Sdk /\ lib # Agent /\ phase[c] \in {"numbering", "told"}
  BY DEF CallInv, TakeSdkNonce, Agent, Sdk
<1>1. /\ UNCHANGED <<lib, seen, acct, executed>>
      /\ nonce' \in [Calls -> Nat \cup {None}] /\ nextNonce' \in Nat \cup {None}
  BY <1>0 DEF PTypeOK, TakeSdkNonce, svars
<1>2. PTypeOK'
  BY <1>0, <1>1 DEF PTypeOK, TakeSdkNonce, Move, Phases, svars
<1>3. NonceInv'
  BY <1>0, <1>1 DEF NonceInv, Counting, Told, Caused, Gapless, NonceUsable
<1>4. Paying'
  BY <1>0 DEF CallInv, PTypeOK, Paying, PaidFor, TakeSdkNonce, Move, Before, svars
<1> QED BY <1>2, <1>3, <1>4 DEF CallInv

-----------------------------------------------------------------------------
\* The server's steps.

LEMMA WindowEndsInv == ASSUME CallInv, unseen' \in Nat, WindowEnds PROVE CallInv'
<1>1. PTypeOK'
  BY GatewayAssumption DEF CallInv, PTypeOK, WindowEnds, cvars
<1>2. NonceInv'
  BY NoncesKept DEF CallInv, WindowEnds, cvars
<1>3. Paying'
  BY DEF CallInv, Paying, PaidFor, WindowEnds, cvars
<1> QED BY <1>1, <1>2, <1>3 DEF CallInv

\* An answer is heard only by a call that waits for it; if it says that the call
\* was served, verify() took a payment for it.
LEMMA AnswerKept ==
  ASSUME CallInv, NEW c \in Calls, NEW r \in Replies, Answer(c, r),
         UNCHANGED <<lib, phase>>, \A d \in Calls : PaidFor(d) => PaidFor(d)'
  PROVE  /\ reply' \in [Calls -> Replies]
         /\ \A d \in Calls : phase[d] \notin {"asking", "paying"} => reply'[d] = Unanswered
         /\ (r = "ok" => PaidFor(c)') =>
              \A d \in Calls :
                lib # Sdk /\ phase[d] = "paying" /\ reply'[d] = "ok" => PaidFor(d)'
<1>1. CASE Listening(c)
  BY <1>1 DEF CallInv, PTypeOK, Paying, Answer, Listening
<1>2. CASE ~Listening(c)
  BY <1>2 DEF CallInv, PTypeOK, Paying, Answer
<1> QED BY <1>1, <1>2

\* What the server's steps for a call have in common.
LEMMA ServerStep ==
  ASSUME CallInv, unseen' \in Nat, NEW c \in Calls, NEW s \in Stages, NEW r \in Replies,
         Stage(c, s) \/ UNCHANGED at,
         Answer(c, r) \/ UNCHANGED reply,
         wire' = [wire EXCEPT ![c] = "none"] \/ UNCHANGED wire,
         at'[c] = "idle" \/ phase[c] \notin Before,
         verified' \in [Calls -> SUBSET Payment],
         \A d \in Calls : PaidFor(d) => PaidFor(d)',
         lib # Sdk => /\ s # "forwarded"
                      /\ s \in {"settling", "inferring"} \/ r = "ok" => PaidFor(c)',
         count' \in 0 .. RateMax,
         sent' \in {sent, sent \cup {c}},
         UNCHANGED <<lib, method, phase, nonce, seen, relayer, consent, nextNonce,
                     known, spend, gw, acct, executed>>
  PROVE  CallInv'
<1>1. /\ reply' \in [Calls -> Replies]
      /\ \A d \in Calls : phase[d] \notin {"asking", "paying"} => reply'[d] = Unanswered
      /\ lib # Sdk => \A d \in Calls : phase[d] = "paying" /\ reply'[d] = "ok" => PaidFor(d)'
  <2>1. CASE Answer(c, r)
    BY <2>1, AnswerKept
  <2>2. CASE UNCHANGED reply
    BY <2>2 DEF CallInv, PTypeOK, Paying
  <2> QED BY <2>1, <2>2
<1>2. /\ at' \in [Calls -> Stages]
      /\ \A d \in Calls : at'[d] # "idle" => phase[d] \notin Before
      /\ lib # Sdk => \A d \in Calls : /\ at'[d] # "forwarded"
                                       /\ at'[d] \in {"settling", "inferring"} => PaidFor(d)'
  <2>1. CASE Stage(c, s)
    BY <2>1 DEF CallInv, PTypeOK, Paying, Stage
  <2>2. CASE UNCHANGED at
    BY <2>2 DEF CallInv, PTypeOK, Paying
  <2> QED BY <2>1, <2>2
<1>3. /\ wire' \in [Calls -> {"none", "plain", "paid"}]
      /\ \A d \in Calls : wire'[d] = "paid" => wire[d] = "paid"
  BY DEF CallInv, PTypeOK
<1>4. executed' \subseteq sent' /\ sent' \subseteq Calls
  BY DEF CallInv, PTypeOK
<1>5. PTypeOK'
  BY <1>1, <1>2, <1>3, <1>4 DEF CallInv, PTypeOK
<1>6. NonceInv'
  BY NoncesKept DEF CallInv
<1>7. Paying'
  BY <1>1, <1>2, <1>3 DEF CallInv, Paying
<1> QED BY <1>5, <1>6, <1>7 DEF CallInv

\* A step that verifies nothing keeps what was verified.
LEMMA VerifiedKept ==
  ASSUME CallInv, UNCHANGED verified
  PROVE  /\ verified' \in [Calls -> SUBSET Payment]
         /\ \A d \in Calls : PaidFor(d)' <=> PaidFor(d)
BY DEF CallInv, PTypeOK, PaidFor

LEMMA ReceiveInv ==
  ASSUME CallInv, unseen' \in Nat, NEW c \in Calls, Receive(c) PROVE CallInv'
<1>1. /\ lib # Sdk /\ wire' = [wire EXCEPT ![c] = "none"] /\ at[c] = "idle"
      /\ UNCHANGED <<lib, method, phase, nonce, seen, relayer, consent, nextNonce,
                     known, spend, gw, verified, acct, sent, executed>>
  BY DEF Receive
<1>2. count' \in 0 .. RateMax
  BY CountedType DEF Receive, CallInv
<1>3. CASE wire[c] = "paid" /\ Stage(c, "verifying") /\ UNCHANGED reply
  <2>1. phase[c] \notin Before
    BY <1>3 DEF CallInv, Paying
  <2> QED BY <1>1, <1>2, <1>3, <2>1, VerifiedKept, ServerStep DEF Stages, Replies
<1>4. CASE (Answer(c, "error") \/ Answer(c, "challenge")) /\ UNCHANGED at
  <2>1. PICK r \in {"error", "challenge"} : Answer(c, r)
    BY <1>4
  <2> QED BY <1>1, <1>2, <1>4, <2>1, VerifiedKept, ServerStep DEF Stages, Replies
<1> QED BY <1>3, <1>4 DEF Receive

\* What lets a call pass is a payment that verify() took.
LEMMA VerifyInv ==
  ASSUME CallInv, unseen' \in Nat, NEW c \in Calls, Verify(c) PROVE CallInv'
<1>1. /\ at[c] = "verifying"
      /\ UNCHANGED <<lib, method, phase, nonce, seen, relayer, consent, nextNonce,
                     known, spend, wire, gw, count, acct, sent, executed>>
  BY DEF Verify
<1>2. count' \in 0 .. RateMax /\ phase[c] \notin Before
  BY <1>1 DEF CallInv, PTypeOK, Paying
<1>3. CASE \E p \in Accepted(c) : /\ verified' = [verified EXCEPT ![c] = {p}]
                                 /\ Stage(c, "settling") /\ UNCHANGED reply
  <2>1. PICK p \in Accepted(c) : verified' = [verified EXCEPT ![c] = {p}]
    BY <1>3
  <2>2. p \in Payment /\ Pays(Decoded(p))
    BY VerifiedPays DEF CallInv
  <2>3. verified' \in [Calls -> SUBSET Payment] /\ verified'[c] = {p}
    BY <2>1, <2>2 DEF CallInv, PTypeOK
  <2>4. PaidFor(c)'
    BY <2>2, <2>3 DEF PaidFor
  <2>5. \A d \in Calls : PaidFor(d) => PaidFor(d)'
    <3> SUFFICES ASSUME NEW d \in Calls \ {c}, PaidFor(d) PROVE PaidFor(d)'
      BY <2>4
    <3>1. verified'[d] = verified[d]
      BY <2>1 DEF CallInv, PTypeOK
    <3> QED BY <3>1 DEF PaidFor
  <2> QED BY <1>1, <1>2, <1>3, <2>3, <2>4, <2>5, ServerStep DEF Stages, Replies
<1>4. CASE Stage(c, "idle") /\ Answer(c, "error") /\ UNCHANGED verified
  BY <1>1, <1>2, <1>4, VerifiedKept, ServerStep DEF Stages, Replies
<1> QED BY <1>3, <1>4 DEF Verify

LEMMA SettleInv ==
  ASSUME CallInv, unseen' \in Nat, NEW c \in Calls, Settle(c) PROVE CallInv'
<1>1. /\ at[c] = "settling" /\ Stage(c, "inferring") /\ sent' \in {sent, sent \cup {c}}
      /\ UNCHANGED <<lib, method, phase, nonce, seen, relayer, consent, nextNonce,
                     known, spend, wire, reply, gw, count, verified, acct, executed>>
  BY DEF Settle, Broadcast, cvars
<1>2. /\ count' \in 0 .. RateMax /\ phase[c] \notin Before
      /\ lib # Sdk => PaidFor(c)
  BY <1>1 DEF CallInv, PTypeOK, Paying
<1> QED BY <1>1, <1>2, VerifiedKept, ServerStep DEF Stages, Replies

LEMMA InferInv ==
  ASSUME CallInv, unseen' \in Nat, NEW c \in Calls, Infer(c) PROVE CallInv'
<1>1. /\ at[c] = "inferring" /\ Stage(c, "idle")
      /\ UNCHANGED <<lib, method, phase, nonce, seen, relayer, consent, nextNonce,
                     known, spend, wire, gw, count, verified, acct, sent, executed>>
  BY DEF Infer
<1>2. PICK r \in Replies : Answer(c, r)
  BY DEF Infer, Inferences, Replies
<1>3. /\ count' \in 0 .. RateMax /\ phase[c] \notin Before
      /\ lib # Sdk => PaidFor(c)
  BY <1>1 DEF CallInv, PTypeOK, Paying
<1> QED BY <1>1, <1>2, <1>3, VerifiedKept, ServerStep DEF Stages, Replies

LEMMA EdgeReceiveInv ==
  ASSUME CallInv, unseen' \in Nat, NEW c \in Calls, EdgeReceive(c) PROVE CallInv'
<1>1. /\ lib = Sdk /\ wire' = [wire EXCEPT ![c] = "none"] /\ at[c] = "idle"
      /\ UNCHANGED <<lib, method, phase, nonce, seen, relayer, consent, nextNonce,
                     known, spend, gw, count, verified, acct, sent, executed>>
  BY DEF EdgeReceive
<1>2. count' \in 0 .. RateMax
  BY <1>1 DEF CallInv, PTypeOK
<1>3. CASE wire[c] = "paid" /\ Stage(c, "forwarded") /\ UNCHANGED reply
  <2>1. phase[c] \notin Before
    BY <1>3 DEF CallInv, Paying
  <2> QED BY <1>1, <1>2, <1>3, <2>1, VerifiedKept, ServerStep DEF Stages, Replies
<1>4. CASE Answer(c, "challenge") /\ UNCHANGED at
  BY <1>1, <1>2, <1>4, VerifiedKept, ServerStep DEF Stages, Replies
<1> QED BY <1>3, <1>4 DEF EdgeReceive

LEMMA OriginAnswersInv ==
  ASSUME CallInv, unseen' \in Nat, NEW c \in Calls, OriginAnswers(c) PROVE CallInv'
<1>1. /\ at[c] = "forwarded" /\ Stage(c, "idle") /\ sent' \in {sent, sent \cup {c}}
      /\ UNCHANGED <<lib, method, phase, nonce, seen, relayer, consent, nextNonce,
                     known, spend, wire, gw, count, verified, acct, executed>>
  BY DEF OriginAnswers, Broadcast
<1>2. PICK r \in {"ok", "error"} : Answer(c, r)
  BY DEF OriginAnswers
<1>3. count' \in 0 .. RateMax /\ phase[c] \notin Before /\ lib = Sdk
  BY <1>1 DEF CallInv, PTypeOK, Paying
<1> QED BY <1>1, <1>2, <1>3, VerifiedKept, ServerStep DEF Stages, Replies

\* The account moves on by one counted payment, and no other call has its nonce.
LEMMA ExecuteInv ==
  ASSUME CallInv, unseen' \in Nat, NEW c \in Calls, Execute(c) PROVE CallInv'
<1>1. /\ PTypeOK /\ NonceInv /\ nonce[c] = acct /\ acct' = acct + 1
      /\ executed' = executed \cup {c} /\ c \in sent
      /\ UNCHANGED <<lib, method, phase, nonce, seen, relayer, consent, nextNonce,
                     known, spend, wire, reply, gw, count, at, verified, sent>>
  BY DEF Execute, CallInv, cvars
<1>2. acct \in Nat /\ Numbered(c) /\ StartNonce \in Nat
  BY <1>1, ClientAssumption DEF PTypeOK, Numbered, None
<1>3. PTypeOK'
  BY <1>1, <1>2 DEF PTypeOK
<1>4. Counting'
  BY <1>1 DEF NonceInv, Counting, NoncesDistinct, Numbered
<1>5. Told'
  <2> SUFFICES ASSUME NEW d \in Calls, seen[d] # None
               PROVE  seen[d] \in StartNonce .. acct + 1
    BY <1>1, <1>2 DEF NonceInv, Told
  <2> QED BY <1>1, <1>2 DEF NonceInv, Told
<1>6. Caused'
  <2> SUFFICES ASSUME lib = Agent PROVE acct + 1 <= nextNonce
    BY <1>1 DEF Caused
  <2>1. nextNonce \in Nat /\ acct < nextNonce
    BY <1>1, <1>2 DEF PTypeOK, NonceInv, Counting, Agent, Sdk
  <2> QED BY <1>2, <2>1
<1>7. Gapless'
  <2> SUFFICES ASSUME lib = Agent, NEW n \in acct + 1 .. nextNonce - 1
               PROVE  \E d \in Calls : nonce[d] = n
    BY <1>1 DEF Gapless
  <2>1. nextNonce \in Nat
    BY <1>1 DEF PTypeOK, NonceInv, Counting, Agent, Sdk
  <2>2. n \in acct .. nextNonce - 1
    BY <1>2, <2>1
  <2> QED BY <1>1, <2>2 DEF NonceInv, Gapless
<1>8. NonceUsable'
  <2> SUFFICES ASSUME lib = Agent, NEW d \in Calls \ (executed \cup {c}),
                      Numbered(d), seen[d] # None
               PROVE  nonce[d] >= acct + 1
    BY <1>1 DEF NonceUsable, Numbered
  <2>1. nonce[d] >= acct
    BY <1>1 DEF NonceInv, NonceUsable
  <2>2. nonce[d] # acct
    BY <1>1, <1>2 DEF NonceInv, Counting, NoncesDistinct, Agent, Sdk
  <2>3. nonce[d] \in Nat
    BY <1>1 DEF PTypeOK, Numbered
  <2> QED BY <1>2, <2>1, <2>2, <2>3
<1>9. Paying'
  BY <1>1 DEF CallInv, Paying, PaidFor
<1> QED BY <1>3, <1>4, <1>5, <1>6, <1>7, <1>8, <1>9 DEF CallInv, NonceInv

-----------------------------------------------------------------------------
\* The whole.

LEMMA ClientInv ==
  ASSUME CallInv, unseen' \in Nat, NEW c \in Calls, ClientStep(c) PROVE CallInv'
<1>1. Call(c) /\ UNCHANGED svars
  BY DEF ClientStep
<1>2. \/ \E m \in Methods : Ask(c, m)
      \/ AnsweredFree(c) \/ Challenged(c) \/ GiveUp(c)
      \/ TakeNonce(c) \/ TakePythonNonce(c) \/ TakeSdkNonce(c)
      \/ PaidChat(c) \/ PaidStream(c) \/ PaidFetch(c) \/ PaidSdk(c) \/ ReadBody(c)
  BY <1>1 DEF Call, ExecuteWith402Payment, ChatStream, FetchWithPayment,
     ClawChatCompletion, ExecuteWith402Loop, SdkChat, AskByName, Negotiate, PaidLoop,
     Methods
<1>3. CASE \E m \in Methods : Ask(c, m)
  BY <1>1, <1>3, AskInv
<1>4. CASE AnsweredFree(c) \/ Challenged(c) \/ GiveUp(c)
  BY <1>1, <1>4, AnsweredFreeInv, ChallengedInv, GiveUpInv
<1>5. CASE TakeNonce(c) \/ TakePythonNonce(c) \/ TakeSdkNonce(c)
  BY <1>1, <1>5, TakeNonceInv, TakePythonNonceInv, TakeSdkNonceInv
<1>6. CASE PaidChat(c) \/ PaidStream(c) \/ PaidFetch(c) \/ PaidSdk(c) \/ ReadBody(c)
  BY <1>1, <1>6, PaidInv
<1> QED BY <1>2, <1>3, <1>4, <1>5, <1>6

\* What the calls do not see only grows, and covers what was still to be booked
\* when a call passes its limits.
LEMMA UnseenGrows ==
  ASSUME CallInv, [Next]_vars
  PROVE  /\ unseen' \in Nat /\ unseen <= unseen'
         /\ \A c \in Calls :
              ClientStep(c) /\ phase[c] = "asking" /\ phase'[c] \in {"resolving", "numbering"}
                => Sum(PriceOf, Passed) <= unseen'
<1>1. unseen \in Nat
  BY DEF CallInv, PTypeOK
<1>2. CostOf(Passed) = Sum(PriceOf, Passed) /\ Sum(PriceOf, Passed) \in Nat
  BY PricesAdd
<1>3. PICK k \in Nat : k = Sum(PriceOf, Passed) /\ k = CostOf(Passed)
  BY <1>2
<1>4. /\ Max({unseen, k}) \in {unseen, k}
      /\ Max({unseen, k}) >= unseen /\ Max({unseen, k}) >= k
  BY <1>1, LargerOf
<1> HIDE DEF Max
<1>5. ASSUME NEW c \in Calls, ClientStep(c)
      PROVE  /\ unseen' \in Nat /\ unseen <= unseen'
             /\ phase[c] = "asking" /\ phase'[c] \in {"resolving", "numbering"} => k <= unseen'
  BY <1>1, <1>3, <1>4, <1>5 DEF ClientStep, Noted
<1>6. (\E c \in Calls : ClientStep(c)) \/ UNCHANGED unseen
  BY DEF Next, WindowEnds, ResolveRelayer, AskAccount, GatewayRoute, Receive, Verify,
     Settle, Infer, EdgeReceive, OriginAnswers, Execute, vars
<1> QED BY <1>1, <1>3, <1>5, <1>6

LEMMA CallInvNext == ASSUME CallInv, [Next]_vars PROVE CallInv'
<1>0. unseen' \in Nat
  BY UnseenGrows
<1>1. CASE WindowEnds
  BY <1>0, <1>1, WindowEndsInv
<1>2. ASSUME NEW c \in Calls,
             \/ ClientStep(c) \/ ResolveRelayer(c) \/ AskAccount(c)
             \/ GatewayRoute(c) \/ EdgeReceive(c) \/ OriginAnswers(c)
             \/ Execute(c)
      PROVE  CallInv'
  <2>1. CASE ClientStep(c) \/ ResolveRelayer(c) \/ AskAccount(c)
    BY <1>0, <2>1, ClientInv, ResolveInv, AskAccountInv
  <2>2. CASE GatewayRoute(c)
    BY <1>0, <2>2, ReceiveInv, VerifyInv, SettleInv, InferInv DEF GatewayRoute
  <2>3. CASE EdgeReceive(c) \/ OriginAnswers(c) \/ Execute(c)
    BY <1>0, <2>3, EdgeReceiveInv, OriginAnswersInv, ExecuteInv
  <2> QED BY <1>2, <2>1, <2>2, <2>3
<1>3. CASE UNCHANGED vars
  <2>1. /\ UNCHANGED <<lib, method, phase, nonce, seen, relayer, consent, nextNonce, known>>
        /\ UNCHANGED <<spend, wire, reply, gw, count, at, verified, acct, sent, executed, unseen>>
    BY <1>3 DEF vars, cvars, svars
  <2>2. PTypeOK'
    BY <2>1 DEF CallInv, PTypeOK
  <2>3. NonceInv'
    BY <2>1, NoncesKept DEF CallInv
  <2>4. Paying'
    BY <2>1 DEF CallInv, Paying, PaidFor
  <2> QED BY <2>2, <2>3, <2>4 DEF CallInv
<1> QED BY <1>1, <1>2, <1>3 DEF Next

LEMMA CallInvHolds == Spec => []CallInv
<1>1. PInit => CallInv
  BY PaidInit
<1>2. CallInv /\ [Next]_vars => CallInv'
  BY CallInvNext
<1> QED BY <1>1, <1>2, PTL DEF Spec

\* Nothing waits on the network for a number that no call of the agent holds.
LEMMA GapsAreCalls == ASSUME CallInv PROVE GapExplained
<1> SUFFICES ASSUME lib = Agent, NEW c \in sent \ executed, NEW n \in acct .. nonce[c] - 1
             PROVE  \E d \in Calls : nonce[d] = n
  BY DEF GapExplained
<1>1. c \in Calls /\ nextNonce \in Nat /\ acct \in Nat /\ nonce[c] \in Nat \cup {None}
  BY DEF CallInv, PTypeOK, NonceInv, Counting, Agent, Sdk
<1>2. nonce[c] \in Nat
  BY <1>1 DEF None
<1>3. nonce[c] < nextNonce
  BY <1>1, <1>2 DEF CallInv, NonceInv, Counting, Numbered, None, Agent, Sdk
<1>4. n \in acct .. nextNonce - 1
  BY <1>1, <1>2, <1>3
<1> QED BY <1>4 DEF CallInv, NonceInv, Gapless

\* However the calls of a client overlap around the await between reading the
\* account's nonce and counting it (getAccountNonce, blockrun_mvx_client.ts:280-296),
\* no two of its payments share a nonce, none of an agent's is overtaken by the
\* account, and none waits on the network for a number that no call holds.
THEOREM NoncesSafe == Spec => []NoncesFit
<1>1. CallInv => NoncesFit
  BY GapsAreCalls DEF CallInv, NonceInv, Counting, NoncesFit, NoncesDistinct
<1> QED BY <1>1, CallInvHolds, PTL

\* Whatever arrives as a payment, the chat and messages routes
\* (blockrun_gateway.ts:819-1035) settle and infer for a call only on one that
\* verify() took as it arrived and that, its data decoded, moves the money asked for
\* to the merchant with its payer's consent; however the client's timeouts fall, and
\* whatever the network says of it.
THEOREM ServedSafe == Spec => []ServedIsVerified
<1>1. CallInv => ServedIsVerified
  BY DEF CallInv, Paying, ServedIsVerified
<1> QED BY <1>1, CallInvHolds, PTL

-----------------------------------------------------------------------------
(* What a session spends.  spend is a sum over the calls that have booked,  *)
(* which no variable remembers, so it is held between two sums that the     *)
(* state does show: over the calls that passed the check and may still book *)
(* theirs, and over the calls that must have booked.  Booking moves a price *)
(* from the first sum to spend, so only a call that passes the check raises *)
(* the two together, to what it saw and what it could not see.              *)

\* Calls that have booked theirs and whose phase shows it.
Booked ==
  {c \in Calls : \/ phase[c] = "done" /\ Numbered(c)
                 \/ phase[c] = "reading" /\ method[c] # "chat"
                 \/ phase[c] = "paying" /\ lib = Sdk}

\* What tells a paid call from a free one, and a chat from the other loops.
Marked ==
  /\ \A c \in Calls : phase[c] \in {"new", "asking"} => ~Numbered(c)
  /\ \A c \in sent : Numbered(c)
  /\ lib # Agent => \A c \in Calls : method[c] = "chat"

Money ==
  /\ spend + Sum(PriceOf, Passed) <= MaxSession + unseen
  /\ Sum(PriceOf, Booked) <= spend

SpendInv == Marked /\ Money

LEMMA SpendTypes ==
  /\ \A S \in SUBSET Calls : IsFiniteSet(S) /\ Sum(PriceOf, S) \in Nat
  /\ \A c \in Calls : PriceOf[c] \in Nat
  /\ Passed \in SUBSET Calls /\ Booked \in SUBSET Calls
  /\ MaxSession \in Nat
BY PricesAdd, ClientAssumption DEF Booked

\* What the calls do not see is counted, and never forgotten.
Grows == unseen \in Nat /\ unseen' \in Nat /\ unseen <= unseen'

\* Fewer calls, no larger sum.
LEMMA SumOfFewer ==
  ASSUME NEW S \in SUBSET Calls, NEW T \in SUBSET S
  PROVE  Sum(PriceOf, T) <= Sum(PriceOf, S)
BY SpendTypes, SumSubset

\* The limits keep when nothing is booked and nobody passes.
LEMMA MoneyKept ==
  ASSUME Money, Grows, spend' = spend, spend \in Nat,
         Passed' \subseteq Passed, Booked' \subseteq Booked
  PROVE  Money'
<1> PICK P1 \in SUBSET Calls, B1 \in SUBSET Calls : P1 = Passed' /\ B1 = Booked'
  BY DEF Passed, Booked
<1> PICK P0 \in SUBSET Calls, B0 \in SUBSET Calls : P0 = Passed /\ B0 = Booked
  BY SpendTypes
<1>1. Sum(PriceOf, P1) <= Sum(PriceOf, P0) /\ Sum(PriceOf, B1) <= Sum(PriceOf, B0)
  BY SumOfFewer
<1>2. /\ Sum(PriceOf, P0) \in Nat /\ Sum(PriceOf, B0) \in Nat
      /\ Sum(PriceOf, P1) \in Nat /\ Sum(PriceOf, B1) \in Nat
      /\ MaxSession \in Nat
  BY SpendTypes
<1>3. spend + Sum(PriceOf, P0) <= MaxSession + unseen /\ Sum(PriceOf, B0) <= spend
  BY DEF Money
<1>4. spend' + Sum(PriceOf, P1) <= MaxSession + unseen' /\ Sum(PriceOf, B1) <= spend'
  BY <1>1, <1>2, <1>3 DEF Grows
<1> QED BY <1>4 DEF Money

\* A call that passed books its price: the sum of what is booked and what may
\* be is the same as before.
LEMMA MoneyBooked ==
  ASSUME Money, Grows, NEW c \in Passed, spend' = spend + PriceOf[c], spend \in Nat,
         Passed' \subseteq Passed \ {c}, Booked' \subseteq Booked \cup {c}, c \notin Booked
  PROVE  Money'
<1> PICK P1 \in SUBSET Calls, B1 \in SUBSET Calls : P1 = Passed' /\ B1 = Booked'
  BY DEF Passed, Booked
<1> PICK P0 \in SUBSET Calls, B0 \in SUBSET Calls : P0 = Passed /\ B0 = Booked
  BY SpendTypes
<1>1. c \in Calls /\ PriceOf[c] \in Nat
  BY SpendTypes
<1>2. Sum(PriceOf, P0) = PriceOf[c] + Sum(PriceOf, P0 \ {c})
  BY SumRemove, SpendTypes
<1>3. Sum(PriceOf, P1) <= Sum(PriceOf, P0 \ {c})
  BY SumOfFewer
<1>4. Sum(PriceOf, B0 \cup {c}) = PriceOf[c] + Sum(PriceOf, B0)
  BY <1>1, SumAdd, SpendTypes
<1>5. Sum(PriceOf, B1) <= Sum(PriceOf, B0 \cup {c})
  BY <1>1, SumOfFewer
<1>6. /\ Sum(PriceOf, P0) \in Nat /\ Sum(PriceOf, B0) \in Nat
      /\ Sum(PriceOf, P1) \in Nat /\ Sum(PriceOf, B1) \in Nat
      /\ Sum(PriceOf, P0 \ {c}) \in Nat /\ MaxSession \in Nat
  BY SpendTypes
<1>7. spend + Sum(PriceOf, P0) <= MaxSession + unseen /\ Sum(PriceOf, B0) <= spend
  BY DEF Money
<1>8. spend' + Sum(PriceOf, P1) <= MaxSession + unseen' /\ Sum(PriceOf, B1) <= spend'
  BY <1>1, <1>2, <1>3, <1>4, <1>5, <1>6, <1>7 DEF Grows
<1> QED BY <1>8 DEF Money

\* A call passes the limits: its price fits next to what is booked, and what it
\* does not see is counted.
LEMMA MoneyPasses ==
  ASSUME Money, Grows, NEW c \in Calls \ Passed, WithinLimits(c),
         Sum(PriceOf, Passed) <= unseen', spend' = spend, spend \in Nat,
         Passed' \subseteq Passed \cup {c}, Booked' \subseteq Booked
  PROVE  Money'
<1> PICK P1 \in SUBSET Calls, B1 \in SUBSET Calls : P1 = Passed' /\ B1 = Booked'
  BY DEF Passed, Booked
<1> PICK P0 \in SUBSET Calls, B0 \in SUBSET Calls : P0 = Passed /\ B0 = Booked
  BY SpendTypes
<1>1. c \notin P0 /\ PriceOf[c] \in Nat /\ spend + PriceOf[c] <= MaxSession
  BY SpendTypes DEF WithinLimits
<1>2. Sum(PriceOf, P0 \cup {c}) = PriceOf[c] + Sum(PriceOf, P0)
  BY <1>1, SumAdd, SpendTypes
<1>3. Sum(PriceOf, P1) <= Sum(PriceOf, P0 \cup {c}) /\ Sum(PriceOf, B1) <= Sum(PriceOf, B0)
  BY SumOfFewer
<1>4. /\ Sum(PriceOf, P0) \in Nat /\ Sum(PriceOf, B0) \in Nat
      /\ Sum(PriceOf, P1) \in Nat /\ Sum(PriceOf, B1) \in Nat
      /\ MaxSession \in Nat
  BY SpendTypes
<1>5. Sum(PriceOf, B0) <= spend /\ Sum(PriceOf, P0) <= unseen'
  BY DEF Money
<1>6. spend' + Sum(PriceOf, P1) <= MaxSession + unseen' /\ Sum(PriceOf, B1) <= spend'
  BY <1>1, <1>2, <1>3, <1>4, <1>5 DEF Grows
<1> QED BY <1>6 DEF Money

-----------------------------------------------------------------------------
\* Steps that leave the calls alone, but for what the network has.
LEMMA SpendFrame ==
  ASSUME SpendInv, CallInv, Grows, UNCHANGED <<lib, method, phase, nonce, spend>>,
         \A c \in sent' : c \in sent \/ Numbered(c)
  PROVE  SpendInv'
<1>1. /\ Passed' = Passed /\ Booked' = Booked
      /\ \A c \in Calls : Numbered(c)' = Numbered(c)
  BY DEF Passed, Booked, Numbered
<1>2. Marked'
  <2>1. \A c \in sent' : Numbered(c)
    BY DEF SpendInv, Marked
  <2> QED BY <2>1 DEF SpendInv, Marked, Numbered
<1>3. Money'
  BY <1>1, MoneyKept DEF SpendInv, CallInv, PTypeOK
<1> QED BY <1>2, <1>3 DEF SpendInv

\* One more call under way: none has passed or booked anything.
LEMMA AskSpend ==
  ASSUME SpendInv, CallInv, Grows, NEW c \in Calls, NEW m \in Methods, Ask(c, m),
         m = "chat" \/ lib = Agent, sent' = sent
  PROVE  SpendInv'
<1>1. /\ phase[c] = "new" /\ phase' = [phase EXCEPT ![c] = "asking"]
      /\ method' = [method EXCEPT ![c] = m]
      /\ UNCHANGED <<lib, nonce, spend>> /\ spend \in Nat
  BY DEF Ask, Move, CallInv, PTypeOK
<1>2. Marked'
  BY <1>1 DEF SpendInv, CallInv, PTypeOK, Marked, Numbered
<1>3. Passed' = Passed /\ Booked' = Booked
  BY <1>1 DEF CallInv, PTypeOK, Passed, Booked, Numbered
<1>4. Money'
  BY <1>1, <1>3, MoneyKept DEF SpendInv
<1> QED BY <1>2, <1>4 DEF SpendInv

\* The price is known and within the limits, or the call ends.
LEMMA ChallengedSpend ==
  ASSUME SpendInv, CallInv, Grows, NEW c \in Calls, Challenged(c), sent' = sent,
         phase'[c] \in {"resolving", "numbering"} => Sum(PriceOf, Passed) <= unseen'
  PROVE  SpendInv'
<1>1. /\ phase[c] = "asking" /\ UNCHANGED <<lib, method, nonce, spend>> /\ spend \in Nat
      /\ \/ ~WithinLimits(c) /\ phase' = [phase EXCEPT ![c] = "failed"]
         \/ WithinLimits(c) /\ \E q \in {"numbering", "resolving"} : phase' = [phase EXCEPT ![c] = q]
  BY DEF Challenged, Move, CallInv, PTypeOK
<1>2. Marked'
  BY <1>1 DEF SpendInv, CallInv, PTypeOK, Marked, Numbered
<1>3. c \in Calls \ Passed /\ Booked' \subseteq Booked
  BY <1>1 DEF CallInv, PTypeOK, Passed, Booked, Ended, Numbered
<1>4. CASE ~WithinLimits(c)
  <2>1. Passed' \subseteq Passed
    BY <1>1, <1>4 DEF CallInv, PTypeOK, Passed
  <2>2. Money'
    BY <1>1, <1>3, <2>1, MoneyKept DEF SpendInv
  <2> QED BY <1>2, <2>2 DEF SpendInv
<1>5. CASE WithinLimits(c)
  <2>1. Passed' \subseteq Passed \cup {c}
    BY <1>1, <1>5 DEF CallInv, PTypeOK, Passed
  <2>2. phase'[c] \in {"resolving", "numbering"}
    BY <1>1, <1>5 DEF CallInv, PTypeOK
  <2>3. Money'
    BY <1>1, <1>3, <1>5, <2>1, <2>2, MoneyPasses DEF SpendInv
  <2> QED BY <1>2, <2>3 DEF SpendInv
<1> QED BY <1>4, <1>5

\* A call takes one step on its way, or comes to its end, and nothing is booked.
LEMMA MoveSpend ==
  ASSUME SpendInv, CallInv, Grows, NEW c \in Calls, NEW q, Move(c, q),
         UNCHANGED <<lib, method, spend, sent>>,
         phase[c] \notin Ended \cup {"new"}, q \notin {"new", "asking"},
         \A d \in Calls : Numbered(d) => Numbered(d)',
         \A d \in Calls \ {c} : nonce'[d] = nonce[d],
         q \in {"resolving", "numbering", "told", "paying"} => c \in Passed,
         q = "reading" => IF method[c] = "chat" THEN c \in Passed ELSE c \in Booked,
         q = "paying" => lib # Sdk,
         q = "done" => c \in Booked \/ ~Numbered(c)'
  PROVE  SpendInv'
<1>1. phase' = [phase EXCEPT ![c] = q] /\ spend \in Nat
  BY DEF Move, CallInv, PTypeOK
<1>2. Marked'
  <2>1. \A d \in Calls : phase'[d] \in {"new", "asking"} => d # c /\ phase[d] \in {"new", "asking"}
    BY <1>1 DEF CallInv, PTypeOK
  <2>2. \A d \in Calls : phase'[d] \in {"new", "asking"} => ~Numbered(d)'
    BY <2>1 DEF SpendInv, Marked, Numbered
  <2>3. \A d \in sent' : Numbered(d)'
    BY DEF SpendInv, Marked, CallInv, PTypeOK
  <2> QED BY <2>2, <2>3 DEF SpendInv, Marked
<1>3. \A d \in Calls \ {c} : phase'[d] = phase[d] /\ (Numbered(d)' <=> Numbered(d))
  BY <1>1 DEF CallInv, PTypeOK, Numbered
<1>4. phase'[c] = q
  BY <1>1 DEF CallInv, PTypeOK
<1>5. Passed' \subseteq Passed
  <2> SUFFICES ASSUME NEW d \in Passed' PROVE d \in Passed
    OBVIOUS
  <2>1. CASE d # c
    BY <1>3, <2>1 DEF Passed
  <2>2. CASE d = c
    BY <1>4, <2>2 DEF Passed
  <2> QED BY <2>1, <2>2
<1>6. Booked' \subseteq Booked
  <2> SUFFICES ASSUME NEW d \in Booked' PROVE d \in Booked
    OBVIOUS
  <2>1. CASE d # c
    BY <1>3, <2>1 DEF Booked
  <2>2. CASE d = c
    BY <1>4, <2>2 DEF Booked
  <2> QED BY <2>1, <2>2
<1>7. Money'
  BY <1>1, <1>5, <1>6, MoneyKept DEF SpendInv
<1> QED BY <1>2, <1>7 DEF SpendInv

\* A call that passed books its price with the step it takes.
LEMMA BookSpend ==
  ASSUME SpendInv, CallInv, Grows, NEW c \in Passed, NEW q, Move(c, q),
         spend' = spend + PriceOf[c], UNCHANGED <<lib, method, nonce, sent>>,
         \/ q \in Ended
         \/ q = "reading" /\ method[c] # "chat"
         \/ q = "paying" /\ lib = Sdk
  PROVE  SpendInv'
<1>1. phase' = [phase EXCEPT ![c] = q] /\ spend \in Nat /\ c \in Calls
  BY DEF Move, CallInv, PTypeOK, Passed
<1>2. Marked'
  BY <1>1 DEF SpendInv, Marked, Numbered, CallInv, PTypeOK, Ended
<1>3. \A d \in Calls \ {c} : phase'[d] = phase[d] /\ (Numbered(d)' <=> Numbered(d))
  BY <1>1 DEF CallInv, PTypeOK, Numbered
<1>4. phase'[c] = q
  BY <1>1 DEF CallInv, PTypeOK
<1>5. Passed' \subseteq Passed \ {c}
  <2>1. c \notin Passed'
    BY <1>4 DEF Passed, Ended
  <2>2. \A d \in Passed' : d # c => d \in Passed
    BY <1>3 DEF Passed
  <2> QED BY <2>1, <2>2
<1>6. Booked' \subseteq Booked \cup {c} /\ c \notin Booked
  <2>1. \A d \in Booked' : d # c => d \in Booked
    BY <1>3 DEF Booked
  <2>2. c \notin Booked
    BY DEF Booked, Passed
  <2> QED BY <2>1, <2>2
<1>7. Money'
  BY <1>1, <1>5, <1>6, MoneyBooked DEF SpendInv
<1> QED BY <1>2, <1>7 DEF SpendInv

\* The ends and the pauses of a call in which nothing is booked.
LEMMA UnbookedSpend ==
  ASSUME SpendInv, CallInv, Grows, NEW c \in Calls, AnsweredFree(c) \/ GiveUp(c) \/ PaidSdk(c),
         PaidSdk(c) => lib = Sdk, UNCHANGED svars
  PROVE  SpendInv'
<1>1. UNCHANGED <<lib, method, nonce, spend, sent>>
  BY DEF AnsweredFree, GiveUp, PaidSdk, AnsweredPaid, svars
<1>2. \A d \in Calls : Numbered(d)' <=> Numbered(d)
  BY <1>1 DEF Numbered
<1>3. PICK q \in Ended : Move(c, q)
  BY DEF AnsweredFree, GiveUp, PaidSdk, Ended
<1>4. phase[c] \in {"asking", "paying"}
  BY DEF AnsweredFree, GiveUp, Listening, PaidSdk, AnsweredPaid
<1>5. q = "done" => c \in Booked \/ ~Numbered(c)
  <2> SUFFICES ASSUME q = "done" PROVE c \in Booked \/ ~Numbered(c)
    OBVIOUS
  <2>1. phase'[c] = "done"
    BY <1>3 DEF Move, CallInv, PTypeOK
  <2>2. CASE AnsweredFree(c)
    BY <2>2 DEF AnsweredFree, SpendInv, Marked
  <2>3. CASE GiveUp(c)
    BY <2>1, <2>3 DEF GiveUp, Move, CallInv, PTypeOK
  <2>4. CASE PaidSdk(c)
    BY <2>4 DEF PaidSdk, AnsweredPaid, Booked
  <2> QED BY <2>2, <2>3, <2>4
<1> QED BY <1>1, <1>2, <1>3, <1>4, <1>5, MoveSpend DEF Ended

\* The answer to the payment: each loop books where it does, or reads on.
LEMMA AnsweredSpend ==
  ASSUME SpendInv, CallInv, Grows, NEW c \in Calls, lib # Sdk, UNCHANGED svars,
         \/ method[c] = "chat" /\ PaidChat(c)
         \/ method[c] = "stream" /\ PaidStream(c)
         \/ method[c] = "fetch" /\ PaidFetch(c)
  PROVE  SpendInv'
<1>1. UNCHANGED <<lib, method, nonce, sent>> /\ phase[c] = "paying" /\ c \in Passed
  BY DEF PaidChat, PaidStream, PaidFetch, AnsweredPaid, svars, Passed
<1>2. \A d \in Calls : Numbered(d)' <=> Numbered(d)
  BY <1>1 DEF Numbered
<1>3. CASE method[c] = "chat" /\ PaidChat(c)
  <2>1. PICK q \in {"reading", "failed"} : Move(c, q)
    BY <1>3 DEF PaidChat
  <2> QED BY <1>1, <1>2, <1>3, <2>1, MoveSpend DEF PaidChat, Ended
<1>4. CASE method[c] = "stream" /\ PaidStream(c)
  <2>1. PICK q \in {"reading", "failed"} : Move(c, q)
    BY <1>4 DEF PaidStream
  <2> QED BY <1>1, <1>4, <2>1, BookSpend DEF PaidStream, Ended
<1>5. CASE method[c] = "fetch" /\ PaidFetch(c)
  <2>1. CASE reply[c] = "ok"
    <3>1. PICK q \in {"done", "reading"} : Move(c, q)
      BY <1>5, <2>1 DEF PaidFetch
    <3> QED BY <1>1, <1>5, <2>1, <3>1, BookSpend DEF PaidFetch, Ended
  <2>2. CASE reply[c] # "ok"
    BY <1>1, <1>2, <1>5, <2>2, MoveSpend DEF PaidFetch, Ended
  <2> QED BY <2>1, <2>2
<1> QED BY <1>3, <1>4, <1>5

\* A chat books when it has read the body; the others have booked before.
LEMMA ReadSpend ==
  ASSUME SpendInv, CallInv, Grows, NEW c \in Calls, ReadBody(c), UNCHANGED svars
  PROVE  SpendInv'
<1>1. UNCHANGED <<lib, method, nonce, sent>> /\ phase[c] = "reading"
  BY DEF ReadBody, svars
<1>2. \A d \in Calls : Numbered(d)' <=> Numbered(d)
  BY <1>1 DEF Numbered
<1>3. CASE method[c] = "chat" /\ spend' = spend + PriceOf[c] /\ Move(c, "done")
  <2>1. c \in Passed
    BY <1>1, <1>3 DEF Passed
  <2> QED BY <1>1, <1>3, <2>1, BookSpend DEF Ended
<1>4. CASE method[c] # "chat" /\ spend' = spend /\ Move(c, "done")
  <2>1. c \in Booked
    BY <1>1, <1>4 DEF Booked
  <2> QED BY <1>1, <1>2, <1>4, <2>1, MoveSpend DEF Ended
<1>5. CASE Move(c, "failed") /\ spend' = spend
  BY <1>1, <1>2, <1>5, MoveSpend DEF Ended
<1> QED BY <1>3, <1>4, <1>5 DEF ReadBody

\* A nonce is told or taken; the agent's and Python's calls had none before.
LEMMA NumberingSpend ==
  ASSUME SpendInv, CallInv, Grows, NEW c \in Calls,
         TakeNonce(c) \/ TakePythonNonce(c) \/ TakeSdkNonce(c) \/ AskAccount(c),
         UNCHANGED sent
  PROVE  SpendInv'
<1>1. UNCHANGED <<lib, method, spend>> /\ phase[c] \in {"numbering", "told"}
  BY DEF TakeNonce, TakePythonNonce, TakeSdkNonce, AskAccount, ReadAccount
<1>2. PICK q \in {"told", "paying", "resolving"} :
        Move(c, q) /\ (q = "paying" => lib # Sdk)
  BY DEF TakeNonce, TakePythonNonce, TakeSdkNonce, AskAccount, ReadAccount, Agent, Python, Sdk
<1>3. c \in Passed
  BY <1>1 DEF Passed
<1>4. \A d \in Calls \ {c} : nonce'[d] = nonce[d]
  BY DEF TakeNonce, TakePythonNonce, TakeSdkNonce, AskAccount, ReadAccount, CallInv, PTypeOK
<1>5. Numbered(c) => Numbered(c)'
  <2>1. CASE TakeNonce(c) \/ TakePythonNonce(c)
    <3>1. lib # Sdk /\ phase[c] \in Before
      BY <2>1 DEF TakeNonce, TakePythonNonce, Agent, Python, Sdk, Before
    <3> QED BY <3>1 DEF CallInv, NonceInv, Counting, Numbered
  <2>2. CASE TakeSdkNonce(c)
    BY <2>2 DEF TakeSdkNonce, Numbered, CallInv, PTypeOK, None
  <2>3. CASE AskAccount(c)
    BY <2>3 DEF AskAccount, ReadAccount, Numbered
  <2> QED BY <2>1, <2>2, <2>3
<1>6. \A d \in Calls : Numbered(d) => Numbered(d)'
  BY <1>4, <1>5 DEF Numbered
<1> QED BY <1>1, <1>2, <1>3, <1>4, <1>6, MoveSpend DEF Ended

\* The SDK books what it signs, when the relayer is resolved.
LEMMA ResolveSpend ==
  ASSUME SpendInv, CallInv, Grows, NEW c \in Calls, ResolveRelayer(c)
  PROVE  SpendInv'
<1>1. PICK found \in {FALSE, Admitted /\ gw.pool} : Resolve(c, found)
  BY DEF ResolveRelayer
<1>2. UNCHANGED <<lib, method, nonce, sent>> /\ phase[c] = "resolving" /\ c \in Passed
  BY <1>1 DEF ResolveRelayer, Resolve, Passed
<1>3. \A d \in Calls : Numbered(d)' <=> Numbered(d)
  BY <1>2 DEF Numbered
<1>4. CASE lib = Sdk
  BY <1>1, <1>2, <1>4, BookSpend DEF Resolve, SignWithSdk
<1>5. CASE lib # Sdk
  BY <1>1, <1>2, <1>3, <1>5, MoveSpend DEF Resolve, Ended
<1> QED BY <1>4, <1>5

LEMMA ClientSpend ==
  ASSUME SpendInv, CallInv, Grows, NEW c \in Calls, ClientStep(c),
         phase[c] = "asking" /\ phase'[c] \in {"resolving", "numbering"}
           => Sum(PriceOf, Passed) <= unseen'
  PROVE  SpendInv'
<1>1. Call(c) /\ UNCHANGED svars /\ sent' = sent
  BY DEF ClientStep, svars
<1>2. \/ \E m \in Methods : Ask(c, m) /\ (m = "chat" \/ lib = Agent)
      \/ Challenged(c)
      \/ AnsweredFree(c) \/ GiveUp(c) \/ (PaidSdk(c) /\ lib = Sdk)
      \/ TakeNonce(c) \/ TakePythonNonce(c) \/ TakeSdkNonce(c)
      \/ lib # Sdk /\ \/ method[c] = "chat" /\ PaidChat(c)
                      \/ method[c] = "stream" /\ PaidStream(c)
                      \/ method[c] = "fetch" /\ PaidFetch(c)
      \/ ReadBody(c)
  <2>1. CASE ExecuteWith402Payment(c) \/ ChatStream(c)
    BY <2>1 DEF ExecuteWith402Payment, ChatStream, AskByName, Negotiate, Methods, Agent, Sdk
  <2>2. CASE FetchWithPayment(c) \/ ClawChatCompletion(c)
    BY <2>2 DEF FetchWithPayment, ClawChatCompletion, Negotiate, Methods, Agent, Sdk
  <2>3. CASE ExecuteWith402Loop(c)
    <3>1. lib = Python /\ lib # Sdk /\ lib # Agent /\ method[c] = "chat"
      BY <2>3 DEF ExecuteWith402Loop, Python, Sdk, Agent, SpendInv, Marked
    <3> QED BY <2>3, <3>1 DEF ExecuteWith402Loop, Negotiate, Methods
  <2>4. CASE SdkChat(c)
    BY <2>4 DEF SdkChat, PaidLoop, Negotiate, Methods
  <2> QED BY <1>1, <2>1, <2>2, <2>3, <2>4 DEF Call
<1>3. CASE \E m \in Methods : Ask(c, m) /\ (m = "chat" \/ lib = Agent)
  BY <1>1, <1>3, AskSpend
<1>4. CASE Challenged(c)
  BY <1>1, <1>4, ChallengedSpend DEF Challenged
<1>5. CASE AnsweredFree(c) \/ GiveUp(c) \/ (PaidSdk(c) /\ lib = Sdk)
  <2>1. CASE PaidSdk(c) /\ lib = Sdk
    BY <1>1, <2>1, UnbookedSpend
  <2>2. CASE (AnsweredFree(c) \/ GiveUp(c)) /\ ~(PaidSdk(c) /\ lib # Sdk)
    BY <1>1, <2>2, UnbookedSpend
  <2>3. CASE (AnsweredFree(c) \/ GiveUp(c)) /\ PaidSdk(c)
    BY <2>3 DEF AnsweredFree, GiveUp, Listening, PaidSdk, AnsweredPaid
  <2> QED BY <1>5, <2>1, <2>2, <2>3
<1>6. CASE TakeNonce(c) \/ TakePythonNonce(c) \/ TakeSdkNonce(c)
  BY <1>1, <1>6, NumberingSpend
<1>7. CASE lib # Sdk /\ \/ method[c] = "chat" /\ PaidChat(c)
                        \/ method[c] = "stream" /\ PaidStream(c)
                        \/ method[c] = "fetch" /\ PaidFetch(c)
  BY <1>1, <1>7, AnsweredSpend
<1>8. CASE ReadBody(c)
  BY <1>1, <1>8, ReadSpend
<1> QED BY <1>2, <1>3, <1>4, <1>5, <1>6, <1>7, <1>8

\* A payment the network takes has a nonce: none of it is behind the account's.
LEMMA BroadcastNumbered ==
  ASSUME CallInv, NEW c \in Calls, Broadcast(c)
  PROVE  \A d \in sent' : d \in sent \/ Numbered(d)
BY DEF Broadcast, Numbered, None, CallInv, PTypeOK

LEMMA SpendNext == ASSUME SpendInv, CallInv, [Next]_vars PROVE SpendInv'
<1>0. Grows
  BY UnseenGrows DEF Grows, CallInv, PTypeOK
<1>1. CASE WindowEnds \/ UNCHANGED vars
  BY <1>0, <1>1, SpendFrame DEF WindowEnds, vars, cvars, svars
<1>2. ASSUME NEW c \in Calls,
             \/ ClientStep(c) \/ ResolveRelayer(c) \/ AskAccount(c)
             \/ GatewayRoute(c) \/ EdgeReceive(c) \/ OriginAnswers(c)
             \/ Execute(c)
      PROVE  SpendInv'
  <2>1. CASE ClientStep(c) \/ ResolveRelayer(c)
    BY <1>0, <2>1, UnseenGrows, ClientSpend, ResolveSpend
  <2>2. CASE AskAccount(c)
    BY <1>0, <2>2, NumberingSpend DEF AskAccount, svars
  <2>3. CASE Receive(c) \/ Verify(c) \/ Infer(c) \/ EdgeReceive(c)
    BY <1>0, <2>3, SpendFrame DEF Receive, Verify, Infer, EdgeReceive
  <2>4. CASE Settle(c) \/ OriginAnswers(c)
    BY <1>0, <2>4, BroadcastNumbered, SpendFrame DEF Settle, OriginAnswers, cvars
  <2>5. CASE Execute(c)
    BY <1>0, <2>5, SpendFrame DEF Execute, cvars
  <2> QED BY <1>2, <2>1, <2>2, <2>3, <2>4, <2>5 DEF GatewayRoute
<1> QED BY <1>1, <1>2 DEF Next

LEMMA SpendInit == ASSUME PInit PROVE SpendInv
<1>1. Marked
  BY DEF PInit, Init, Marked, Numbered
<1>2. Passed = {} /\ Booked = {} /\ spend = 0 /\ unseen = 0
  BY DEF PInit, Init, Passed, Booked
<1>3. Sum(PriceOf, {}) = 0
  BY SumEmpty
<1>4. MaxSession \in Nat
  BY SpendTypes
<1> QED BY <1>1, <1>2, <1>3, <1>4 DEF SpendInv, Money

LEMMA SpendInvHolds == Spec => []SpendInv
<1>1. PInit => SpendInv
  BY SpendInit
<1>2. CallInv /\ SpendInv /\ [Next]_vars => SpendInv'
  BY SpendNext
<1> QED BY <1>1, <1>2, CallInvHolds, PTL DEF Spec

\* However the calls of a client overlap between the check of its limits and the
\* booking of what they cost (blockrun_mvx_client.ts:338-364, 435, and what the
\* streams, the Python client and the SDK do instead), a session books no more
\* than its limit and what one of its calls could not see when it passed the check,
\* so no more than the limit where calls do not overlap; and no less than the
\* network executed for the calls that came back well.
THEOREM SpendSafe == Spec => []SpendKept
<1>1. CallInv /\ SpendInv => SpendKept
  <2> SUFFICES ASSUME CallInv, SpendInv PROVE SpendKept
    OBVIOUS
  <2> DEFINE Shown == {c \in executed : phase[c] = "done"}
  <2>1. Shown \subseteq Booked
    BY DEF CallInv, PTypeOK, SpendInv, Marked, Booked
  <2>2. CostOf(Shown) = Sum(PriceOf, Shown)
    BY <2>1, PricesAdd, SpendTypes
  <2>3. Sum(PriceOf, Shown) <= Sum(PriceOf, Booked)
    BY <2>1, SumOfFewer, SpendTypes
  <2>4. /\ Sum(PriceOf, Booked) <= spend
        /\ spend + Sum(PriceOf, Passed) <= MaxSession + unseen
        /\ spend \in Nat /\ unseen \in Nat
    BY DEF SpendInv, Money, CallInv, PTypeOK
  <2>5. /\ Sum(PriceOf, Shown) \in Nat /\ Sum(PriceOf, Booked) \in Nat
        /\ Sum(PriceOf, Passed) \in Nat /\ MaxSession \in Nat
    BY <2>1, SpendTypes
  <2>6. Sum(PriceOf, Shown) <= spend /\ spend <= MaxSession + unseen
    <3> HIDE DEF Shown
    <3> QED BY <2>3, <2>4, <2>5
  <2> QED BY <2>2, <2>6 DEF SpendKept, SpendBounded, PaidIsBooked
<1> QED BY <1>1, CallInvHolds, SpendInvHolds, PTL
=============================================================================
