------------------------------ MODULE FleetProofs ------------------------------
(***************************************************************************)
(* Theorems about the daemons that fund the relayers and the bots that use *)
(* them (Treasury, Fleet), for every number of relayers, every set of      *)
(* requests and every bound.                                               *)
(***************************************************************************)
EXTENDS Fleet, FiniteSetTheorems, TLAPS

-----------------------------------------------------------------------------
(* The inductive invariant of the daemons. *)

\* A refill signed by the service has taken its number already.
SignedNumbered == daemon = Service /\ phase = "sending" => localNonce > 0

\* The sentinel's nonce is past nothing that the network has not got.
CountedArrived ==
  daemon = Sentinel =>
    \A n \in acct .. localNonce - 1 : \E tx \in pool : tx.nonce = n

\* The service's refills were numbered before the one under way.
NumberedApart ==
  daemon = Service /\ bounds.restarts = MaxRestarts =>
    /\ \A a, b \in pool : a.nonce = b.nonce => a = b
    /\ \A tx \in pool : tx.nonce < IF phase = "sending" THEN localNonce - 1 ELSE localNonce

\* Refills with no gap before them: the network will execute one of that nonce.
Ready ==
  {tx \in pool : \A n \in acct .. tx.nonce : \E other \in pool : other.nonce = n}

\* As long as the daemon promises it, a refill that is ready goes to a relayer
\* that is low, no two go to the same one, and the check under way has passed
\* them all: it started when none was left.
ReadyNeeded ==
  daemon = Sentinel \/ bounds.restarts = MaxRestarts =>
    /\ \A tx \in Ready : tx.to \in low
    /\ \A a, b \in Ready : a.to = b.to => a = b
    /\ phase = "syncing" => Ready = {}
    /\ phase \in {"reading", "sending"} => \A tx \in Ready : tx.to < cursor
    /\ phase = "sending" => cursor \in low

TreasuryInv ==
  TTypeOK /\ SignedNumbered /\ NoGap /\ CountedArrived /\ NumberedApart /\ ReadyNeeded

-----------------------------------------------------------------------------
(* The inductive invariant of the bots. *)

BotTypeOK ==
  /\ step \in [Steps -> {"new", "reading", "sending", "completing"} \cup Ended]
  /\ nonce \in [Steps -> Nat]
  /\ account \in [Bots -> Nat]
  /\ held \subseteq Steps /\ executed \subseteq Steps
  /\ runs \in [Bots -> Nat]

\* A nonce that was read is not ahead of the account, now or later.
NeverAhead == \A s \in Steps : nonce[s] <= account[BotOf[s]]

\* What the network has got is from a step that is past sending it.
SentBefore == \A o \in held \cup executed : step[o] \in {"completing"} \cup Ended

\* A step whose payment was answered with a hash has it on the network, or
\* another of its bot in its place.
AnsweredPaid ==
  \A s \in Steps : step[s] \in {"completing", "done"} =>
    \E o \in held \cup executed : BotOf[o] = BotOf[s] /\ nonce[o] = nonce[s]

\* A run is counted once for a step.
RunsCounted ==
  \A b \in Bots : runs[b] <= Cardinality({s \in Steps : BotOf[s] = b /\ step[s] = "done"})

BotsInv ==
  BotTypeOK /\ NeverAhead /\ NothingAhead /\ SentBefore /\ AnsweredPaid /\ RunsCounted

IInv == TreasuryInv /\ BotsInv

-----------------------------------------------------------------------------
(* The daemons. *)

\* Max (FiniteSetsExt) of two numbers is one of them and not below either.
LEMMA MaxOfTwo ==
  ASSUME NEW m \in Nat, NEW n \in Nat
  PROVE  Max({m, n}) \in {m, n} /\ Max({m, n}) >= m /\ Max({m, n}) >= n
<1>1. \E x \in {m, n} : \A y \in {m, n} : x >= y
  <2>1. CASE m >= n BY <2>1
  <2>2. CASE ~(m >= n) BY <2>2
  <2> QED BY <2>1, <2>2
<1> QED BY <1>1 DEF Max

\* The daemons start with the invariant.
LEMMA TreasuryInit == TInit => TreasuryInv
<1> SUFFICES ASSUME TInit PROVE TreasuryInv
  OBVIOUS
<1>1. TTypeOK
  BY FS_EmptySet, TreasuryAssumption DEF TInit, TTypeOK, Relayers, Refill
<1>2. SignedNumbered /\ NoGap /\ CountedArrived /\ NumberedApart /\ ReadyNeeded
  BY DEF TInit, SignedNumbered, NoGap, CountedArrived, NumberedApart, ReadyNeeded, Ready
<1> QED BY <1>1, <1>2 DEF TreasuryInv

\* Gas spent, or a call of a bot that fails: neither moves the daemon or its refills.
LEMMA SpendingKeepsTreasury ==
  ASSUME TreasuryInv, UNCHANGED <<daemon, localNonce, phase, cursor, acct, pool>>,
         low \subseteq low', low' \subseteq Relayers,
         bounds' \in [faults : 0 .. MaxFaults, restarts : 0 .. MaxRestarts,
                      drains : 0 .. MaxDrains],
         bounds'.restarts = bounds.restarts
  PROVE  TreasuryInv'
<1> USE DEF TreasuryInv
<1>1. TTypeOK'
  BY DEF TTypeOK, Refill, Relayers
<1>2. (SignedNumbered /\ NoGap /\ CountedArrived /\ NumberedApart)'
  BY DEF SignedNumbered, NoGap, CountedArrived, NumberedApart
<1>3. Ready' = Ready
  BY DEF Ready
<1>4. ReadyNeeded'
  BY <1>3 DEF ReadyNeeded
<1> QED BY <1>1, <1>2, <1>4

\* A fault leaves the bounds in their type, and the restarts alone.
LEMMA FaultBounds ==
  ASSUME TTypeOK, Fault
  PROVE  /\ bounds' \in [faults : 0 .. MaxFaults, restarts : 0 .. MaxRestarts,
                         drains : 0 .. MaxDrains]
         /\ bounds'.restarts = bounds.restarts
BY TreasuryAssumption DEF TTypeOK, Fault

\* The bounds of a drain, too.
LEMMA DrainBounds ==
  ASSUME TTypeOK, bounds.drains > 0, bounds' = [bounds EXCEPT !.drains = @ - 1]
  PROVE  /\ bounds' \in [faults : 0 .. MaxFaults, restarts : 0 .. MaxRestarts,
                         drains : 0 .. MaxDrains]
         /\ bounds'.restarts = bounds.restarts
BY TreasuryAssumption DEF TTypeOK

\* The refill under way is one.
LEMMA SignedType ==
  ASSUME TreasuryInv, phase = "sending"
  PROVE  /\ Signed \in Refill
         /\ Signed.nonce = IF daemon = Service THEN localNonce - 1 ELSE localNonce
         /\ Signed.to = cursor
BY TreasuryAssumption DEF TreasuryInv, TTypeOK, SignedNumbered, Signed, Refill, Relayers

\* A check starts when nothing is ready.
LEMMA StartCheckInv == TreasuryInv /\ StartCheck => TreasuryInv'
<1> SUFFICES ASSUME TreasuryInv, StartCheck PROVE TreasuryInv'
  OBVIOUS
<1> USE DEF TreasuryInv
<1>1. TTypeOK'
  BY DEF TTypeOK, StartCheck
<1>2. (SignedNumbered /\ NoGap /\ CountedArrived /\ NumberedApart)'
  BY DEF StartCheck, SignedNumbered, NoGap, CountedArrived, NumberedApart
<1>3. Ready' = Ready
  BY DEF StartCheck, Ready
<1>4. Ready = {}
  <2> SUFFICES ASSUME NEW tx \in Ready PROVE FALSE
    OBVIOUS
  <2>1. acct \in acct .. tx.nonce
    BY DEF TTypeOK, Ready, Refill
  <2> QED BY <2>1 DEF Ready, StartCheck, Quiet
<1>5. ReadyNeeded'
  BY <1>3, <1>4 DEF ReadyNeeded, StartCheck
<1> QED BY <1>1, <1>2, <1>5

\* The local nonce catches up with the account and no further.
LEMMA SyncInv == TreasuryInv /\ Sync => TreasuryInv'
<1> SUFFICES ASSUME TreasuryInv, Sync PROVE TreasuryInv'
  OBVIOUS
<1> USE DEF TreasuryInv
<1>0. localNonce \in Nat /\ acct \in Nat /\ Ready' = Ready
  BY DEF TTypeOK, Sync, Ready
<1>1. /\ localNonce' \in {localNonce, acct} /\ localNonce' >= localNonce
      /\ bounds' \in [faults : 0 .. MaxFaults, restarts : 0 .. MaxRestarts,
                      drains : 0 .. MaxDrains]
      /\ bounds'.restarts = bounds.restarts
  BY <1>0, MaxOfTwo, FaultBounds DEF Sync, CaughtUp, TTypeOK
<1>2. TTypeOK'
  BY <1>0, <1>1, TreasuryAssumption DEF TTypeOK, Sync, Relayers
<1>3. (SignedNumbered /\ NoGap)'
  BY DEF Sync, SignedNumbered, NoGap
<1>4. CountedArrived'
  <2>1. UNCHANGED <<daemon, acct, pool>>
    BY DEF Sync
  <2>2. acct .. localNonce' - 1 \subseteq acct .. localNonce - 1
    <3>1. CASE localNonce' = localNonce BY <3>1
    <3>2. CASE localNonce' = acct
      <4>1. acct .. acct - 1 = {} BY <1>0
      <4> QED BY <3>2, <4>1
    <3> QED BY <3>1, <3>2, <1>1
  <2> QED BY <2>1, <2>2 DEF CountedArrived
<1>5. NumberedApart'
  BY <1>0, <1>1 DEF Sync, NumberedApart, TTypeOK, Refill
<1>6. ReadyNeeded'
  BY <1>0, <1>1 DEF Sync, ReadyNeeded
<1> QED BY <1>2, <1>3, <1>4, <1>5, <1>6

\* The walk moves on to a later relayer, or it ends.
LEMMA NextRelayerMoves ==
  ASSUME TTypeOK, NextRelayer
  PROVE  \/ phase' = "reading" /\ cursor' = cursor + 1 /\ cursor' \in Relayers
         \/ phase' = "idle" /\ cursor' = 1
BY TreasuryAssumption DEF TTypeOK, NextRelayer, Relayers

\* Reading a balance.
LEMMA ReadBalanceInv == TreasuryInv /\ ReadBalance => TreasuryInv'
<1> SUFFICES ASSUME TreasuryInv, ReadBalance PROVE TreasuryInv'
  OBVIOUS
<1> USE DEF TreasuryInv
<1>0. /\ localNonce \in Nat /\ acct \in Nat /\ Ready' = Ready
      /\ phase = "reading" /\ UNCHANGED <<daemon, acct, pool, low>>
      /\ \A tx \in pool : tx.nonce \in Nat /\ tx.to \in Nat
      /\ cursor \in Nat
  BY DEF TTypeOK, ReadBalance, Ready, Refill, Relayers
<1>1. CASE /\ NeedsRefill
           /\ phase' = "sending"
           /\ localNonce' = IF daemon = Service THEN localNonce + 1 ELSE localNonce
           /\ UNCHANGED <<cursor, bounds>>
  <2>1. TTypeOK'
    BY <1>0, <1>1 DEF TTypeOK, NeedsRefill
  <2>2. (SignedNumbered /\ NoGap /\ CountedArrived /\ NumberedApart)'
    BY <1>0, <1>1 DEF SignedNumbered, NoGap, CountedArrived, NumberedApart, Sentinel, Service
  <2>3. ReadyNeeded'
    BY <1>0, <1>1 DEF ReadyNeeded, NeedsRefill
  <2> QED BY <2>1, <2>2, <2>3
<1>2. CASE /\ NextRelayer /\ UNCHANGED localNonce
           /\ UNCHANGED bounds \/ Fault
  <2>1. /\ bounds' \in [faults : 0 .. MaxFaults, restarts : 0 .. MaxRestarts,
                        drains : 0 .. MaxDrains]
        /\ bounds'.restarts = bounds.restarts
    BY <1>2, FaultBounds DEF TTypeOK
  <2>2. \/ phase' = "reading" /\ cursor' = cursor + 1 /\ cursor' \in Relayers
        \/ phase' = "idle" /\ cursor' = 1
    BY <1>2, NextRelayerMoves
  <2>3. TTypeOK'
    BY <1>0, <1>2, <2>1, <2>2, TreasuryAssumption DEF TTypeOK, Relayers
  <2>4. (SignedNumbered /\ NoGap /\ CountedArrived /\ NumberedApart)'
    BY <1>0, <1>2, <2>1, <2>2
       DEF SignedNumbered, NoGap, CountedArrived, NumberedApart
  <2>5. ReadyNeeded'
    BY <1>0, <1>2, <2>1, <2>2 DEF ReadyNeeded, Ready
  <2> QED BY <2>3, <2>4, <2>5
<1> QED BY <1>1, <1>2 DEF ReadBalance

\* What the network takes while a refill is sent leaves the parts about the pool:
\* at most the refill under way becomes ready.
LEMMA TakenInv ==
  ASSUME TreasuryInv, phase = "sending", pool' \in {pool, Taken},
         UNCHANGED <<daemon, acct>>
  PROVE  /\ pool' \subseteq pool \cup {Signed} /\ pool \subseteq pool'
         /\ pool' \subseteq Refill /\ IsFiniteSet(pool')
         /\ \A tx \in pool' : tx.nonce >= acct'
         /\ NoGap'
         /\ daemon = Sentinel \/ bounds.restarts = MaxRestarts
              => /\ Ready' \subseteq Ready \cup {Signed}
                 /\ \A tx \in Ready : tx.to # Signed.to
<1> USE DEF TreasuryInv
<1>0. /\ Signed \in Refill
      /\ Signed.nonce = IF daemon = Service THEN localNonce - 1 ELSE localNonce
      /\ Signed.to = cursor
  BY SignedType
<1>1. /\ pool' \subseteq pool \cup {Signed} /\ pool \subseteq pool'
      /\ Signed \in pool' => Signed.nonce >= acct
  BY DEF Taken, TTypeOK
<1>2. /\ pool' \subseteq Refill
      /\ \A tx \in pool' : tx.nonce >= acct'
      /\ localNonce \in Nat /\ acct \in Nat /\ cursor \in Nat
  BY <1>0, <1>1 DEF TTypeOK
<1>3. IsFiniteSet(pool')
  BY <1>0, FS_AddElement DEF Taken, TTypeOK
<1>4. NoGap'
  <2> SUFFICES ASSUME daemon = Sentinel, NEW tx \in pool', NEW n \in acct .. tx.nonce
               PROVE  \E other \in pool' : other.nonce = n
    BY DEF NoGap
  <2>1. CASE tx \in pool
    BY <2>1, <1>1 DEF NoGap
  <2>2. CASE tx = Signed
    <3>1. CASE n = localNonce
      BY <2>2, <3>1, <1>0 DEF Sentinel, Service
    <3>2. CASE n # localNonce
      <4>1. n \in acct .. localNonce - 1
        BY <2>2, <3>2, <1>0, <1>2 DEF Sentinel, Service
      <4> QED BY <4>1, <1>1 DEF CountedArrived
    <3> QED BY <3>1, <3>2
  <2> QED BY <2>1, <2>2, <1>1
<1>5. ASSUME daemon = Sentinel \/ bounds.restarts = MaxRestarts
      PROVE  /\ Ready' \subseteq Ready \cup {Signed}
             /\ \A tx \in Ready : tx.to # Signed.to
  <2>1. \A tx \in Ready : tx.to < cursor
    BY <1>5 DEF ReadyNeeded
  <2>2. \A tx \in Ready : tx.to \in Nat
    BY DEF Ready, TTypeOK, Refill, Relayers
  <2>3. ASSUME NEW tx \in Ready', tx # Signed
        PROVE  tx \in Ready
    <3>1. tx \in pool /\ \A n \in acct .. tx.nonce : \E other \in pool' : other.nonce = n
      BY <2>3, <1>1 DEF Ready
    <3>2. CASE daemon = Sentinel
      BY <3>1, <3>2 DEF NoGap, Ready
    <3>3. CASE daemon = Service
      <4>1. tx.nonce < localNonce - 1 /\ tx.nonce \in Nat
        BY <3>1, <3>3, <1>5 DEF NumberedApart, TTypeOK, Refill, Sentinel, Service
      <4>2. ASSUME NEW n \in acct .. tx.nonce
            PROVE  \E other \in pool : other.nonce = n
        <5>1. PICK other \in pool' : other.nonce = n
          BY <3>1
        <5>2. other # Signed
          BY <4>1, <5>1, <3>3, <1>0, <1>2
        <5> QED BY <5>1, <5>2, <1>1
      <4> QED BY <3>1, <4>2 DEF Ready
    <3> QED BY <3>2, <3>3, TreasuryAssumption DEF TTypeOK
  <2> QED BY <2>1, <2>2, <2>3, <1>0, <1>2
<1> QED BY <1>1, <1>2, <1>3, <1>4, <1>5

\* Sending a refill, whatever becomes of the call.
LEMMA SendReturnsInv == TreasuryInv /\ SendReturns => TreasuryInv'
<1> SUFFICES ASSUME TreasuryInv, SendReturns PROVE TreasuryInv'
  OBVIOUS
<1> USE DEF TreasuryInv
<1>0. /\ phase = "sending" /\ UNCHANGED <<daemon, acct, low>>
      /\ localNonce \in Nat /\ acct \in Nat /\ cursor \in Nat /\ cursor \in Relayers
      /\ daemon \in {Sentinel, Service}
  BY TreasuryAssumption DEF TTypeOK, SendReturns, Relayers
<1>1. /\ bounds' \in [faults : 0 .. MaxFaults, restarts : 0 .. MaxRestarts,
                      drains : 0 .. MaxDrains]
      /\ bounds'.restarts = bounds.restarts
  BY FaultBounds DEF TTypeOK, SendReturns
<1>2. \/ phase' = "reading" /\ cursor' = cursor + 1 /\ cursor' \in Relayers
      \/ phase' = "idle" /\ cursor' = 1
  BY NextRelayerMoves DEF SendReturns
<1>3. /\ pool' \in {pool, Taken}
      /\ localNonce' \in {localNonce, localNonce + 1}
      /\ daemon = Service => localNonce' = localNonce
      /\ daemon = Sentinel /\ localNonce' # localNonce => Signed \in pool'
  BY <1>0 DEF SendReturns, NonceAfter, Taken, Sentinel, Service
<1>4. /\ Signed \in Refill
      /\ Signed.nonce = IF daemon = Service THEN localNonce - 1 ELSE localNonce
      /\ Signed.to = cursor
  BY <1>0, SignedType
<1>5. /\ pool' \subseteq pool \cup {Signed} /\ pool \subseteq pool'
      /\ pool' \subseteq Refill /\ IsFiniteSet(pool')
      /\ \A tx \in pool' : tx.nonce >= acct'
      /\ NoGap'
      /\ daemon = Sentinel \/ bounds.restarts = MaxRestarts
           => /\ Ready' \subseteq Ready \cup {Signed}
              /\ \A tx \in Ready : tx.to # Signed.to
  BY <1>0, <1>3, TakenInv
<1>6. TTypeOK'
  BY <1>0, <1>1, <1>2, <1>3, <1>5, TreasuryAssumption DEF TTypeOK, Relayers
<1>7. SignedNumbered'
  BY <1>2 DEF SignedNumbered
<1>8. CountedArrived'
  <2> SUFFICES ASSUME daemon = Sentinel, NEW n \in acct .. localNonce' - 1
               PROVE  \E tx \in pool' : tx.nonce = n
    BY <1>0 DEF CountedArrived
  <2>1. CASE n \in acct .. localNonce - 1
    BY <2>1, <1>5 DEF CountedArrived
  <2>2. CASE n \notin acct .. localNonce - 1
    <3>0. localNonce' = localNonce + 1
      BY <2>2, <1>3
    <3>1. n = localNonce /\ localNonce' # localNonce
      BY <2>2, <1>0, <3>0
    <3>2. Signed \in pool' /\ Signed.nonce = localNonce
      BY <3>1, <1>3, <1>4 DEF Sentinel, Service
    <3> QED BY <3>1, <3>2
  <2> QED BY <2>1, <2>2
<1>9. NumberedApart'
  <2> SUFFICES ASSUME daemon = Service, bounds.restarts = MaxRestarts
               PROVE  /\ \A a, b \in pool' : a.nonce = b.nonce => a = b
                      /\ \A tx \in pool' : tx.nonce < localNonce'
    BY <1>0, <1>1, <1>2 DEF NumberedApart
  <2>1. /\ \A a, b \in pool : a.nonce = b.nonce => a = b
        /\ \A tx \in pool : tx.nonce < localNonce - 1 /\ tx.nonce \in Nat
    BY <1>0 DEF NumberedApart, TTypeOK, Refill
  <2> QED BY <2>1, <1>0, <1>3, <1>4, <1>5
<1>10. ReadyNeeded'
  <2> SUFFICES ASSUME daemon = Sentinel \/ bounds.restarts = MaxRestarts
               PROVE  /\ \A tx \in Ready' : tx.to \in low'
                      /\ \A a, b \in Ready' : a.to = b.to => a = b
                      /\ phase' = "reading" => \A tx \in Ready' : tx.to < cursor'
    BY <1>0, <1>1, <1>2 DEF ReadyNeeded
  <2>1. /\ \A tx \in Ready : tx.to \in low
        /\ \A a, b \in Ready : a.to = b.to => a = b
        /\ \A tx \in Ready : tx.to < cursor /\ tx.to \in Nat
        /\ cursor \in low
    BY <1>0 DEF ReadyNeeded, Ready, TTypeOK, Refill, Relayers
  <2> QED BY <2>1, <1>0, <1>2, <1>4, <1>5
<1> QED BY <1>5, <1>6, <1>7, <1>8, <1>9, <1>10

\* A restart, with the refill on its way or lost.
LEMMA RestartInv == TreasuryInv /\ Restart => TreasuryInv'
<1> SUFFICES ASSUME TreasuryInv, Restart PROVE TreasuryInv'
  OBVIOUS
<1> USE DEF TreasuryInv
<1>0. /\ UNCHANGED <<daemon, acct, low>>
      /\ localNonce' = 0 /\ phase' = "idle" /\ cursor' = 1
      /\ localNonce \in Nat /\ acct \in Nat
      /\ bounds' \in [faults : 0 .. MaxFaults, restarts : 0 .. MaxRestarts,
                      drains : 0 .. MaxDrains]
      /\ bounds'.restarts # MaxRestarts
  BY TreasuryAssumption DEF TTypeOK, Restart
<1>1. /\ pool' \subseteq Refill /\ IsFiniteSet(pool')
      /\ \A tx \in pool' : tx.nonce >= acct'
      /\ NoGap'
      /\ daemon = Sentinel =>
           /\ \A tx \in Ready' : tx.to \in low
           /\ \A a, b \in Ready' : a.to = b.to => a = b
  <2>1. CASE phase = "sending"
    <3>1. pool' \in {pool, Taken}
      BY <2>1 DEF Restart
    <3>2. /\ pool' \subseteq Refill /\ IsFiniteSet(pool')
          /\ \A tx \in pool' : tx.nonce >= acct'
          /\ NoGap'
          /\ daemon = Sentinel
               => /\ Ready' \subseteq Ready \cup {Signed}
                  /\ \A tx \in Ready : tx.to # Signed.to
      BY <1>0, <2>1, <3>1, TakenInv
    <3>3. daemon = Sentinel =>
            /\ \A tx \in Ready : tx.to \in low
            /\ \A a, b \in Ready : a.to = b.to => a = b
            /\ Signed.to \in low
      BY <2>1, SignedType DEF ReadyNeeded
    <3> QED BY <3>2, <3>3
  <2>2. CASE phase # "sending"
    <3>1. pool' = pool
      BY <2>2 DEF Restart
    <3>2. Ready' = Ready
      BY <3>1, <1>0 DEF Ready
    <3> QED BY <1>0, <3>1, <3>2 DEF TTypeOK, NoGap, ReadyNeeded
  <2> QED BY <2>1, <2>2
<1>2. TTypeOK'
  BY <1>0, <1>1, TreasuryAssumption DEF TTypeOK
<1>3. (SignedNumbered /\ CountedArrived /\ NumberedApart)'
  BY <1>0 DEF SignedNumbered, CountedArrived, NumberedApart
<1>4. ReadyNeeded'
  BY <1>0, <1>1 DEF ReadyNeeded
<1> QED BY <1>1, <1>2, <1>3, <1>4

\* The network executes a refill: what was ready behind it still is, and nothing
\* else becomes so.
LEMMA ExecuteInv == TreasuryInv /\ Execute => TreasuryInv'
<1> SUFFICES ASSUME TreasuryInv,
                    NEW tx \in pool,
                    tx.nonce = acct,
                    acct' = acct + 1,
                    pool' = {other \in pool : other.nonce > acct},
                    low' = low \ {tx.to},
                    UNCHANGED <<daemon, localNonce, phase, cursor, bounds>>
             PROVE  TreasuryInv'
  BY DEF Execute
<1> USE DEF TreasuryInv
<1>0. /\ localNonce \in Nat /\ acct \in Nat /\ cursor \in Nat
      /\ pool' \subseteq pool
      /\ \A other \in pool : other.nonce \in Nat /\ other.to \in Nat
      /\ \A other \in pool' : other.nonce >= acct + 1
  BY DEF TTypeOK, Refill, Relayers
<1>1. IsFiniteSet(pool')
  BY <1>0, FS_Subset DEF TTypeOK
<1>2. TTypeOK'
  BY <1>0, <1>1 DEF TTypeOK
<1>3. \A n \in Nat : n > acct /\ (\E other \in pool : other.nonce = n)
                       => \E other \in pool' : other.nonce = n
  OBVIOUS
<1>4. (SignedNumbered /\ NoGap /\ CountedArrived)'
  <2>1. SignedNumbered'
    BY DEF SignedNumbered
  <2>2. NoGap'
    <3> SUFFICES ASSUME daemon = Sentinel, NEW a \in pool', NEW n \in acct + 1 .. a.nonce
                 PROVE  \E other \in pool' : other.nonce = n
      BY DEF NoGap
    <3> QED BY <1>0, <1>3 DEF NoGap
  <2>3. CountedArrived'
    <3> SUFFICES ASSUME daemon = Sentinel, NEW n \in acct + 1 .. localNonce - 1
                 PROVE  \E other \in pool' : other.nonce = n
      BY DEF CountedArrived
    <3> QED BY <1>0, <1>3 DEF CountedArrived
  <2> QED BY <2>1, <2>2, <2>3
<1>5. NumberedApart'
  BY <1>0 DEF NumberedApart
<1>6. Ready' \subseteq Ready /\ tx \notin Ready' /\ tx \in Ready
  <2>1. tx \in Ready /\ tx \notin Ready'
    BY <1>0 DEF Ready
  <2>2. ASSUME NEW a \in Ready' PROVE a \in Ready
    <3>1. a \in pool /\ \A n \in acct + 1 .. a.nonce : \E other \in pool' : other.nonce = n
      BY <2>2 DEF Ready
    <3>2. ASSUME NEW n \in acct .. a.nonce PROVE \E other \in pool : other.nonce = n
      BY <1>0, <3>1
    <3> QED BY <3>1, <3>2 DEF Ready
  <2> QED BY <2>1, <2>2
<1>7. ReadyNeeded'
  BY <1>0, <1>6 DEF ReadyNeeded
<1> QED BY <1>2, <1>4, <1>5, <1>7

-----------------------------------------------------------------------------
(* The bots. *)

\* The bots start with the invariant.
LEMMA BotsInit == Init => BotsInv
<1> SUFFICES ASSUME Init PROVE BotsInv
  OBVIOUS
<1>1. BotTypeOK /\ NeverAhead /\ NothingAhead /\ SentBefore /\ AnsweredPaid
  BY DEF Init, BotTypeOK, NeverAhead, NothingAhead, SentBefore, AnsweredPaid, Bots, Ended
<1>2. RunsCounted
  <2> SUFFICES ASSUME NEW b \in Bots
               PROVE  0 <= Cardinality({s \in Steps : BotOf[s] = b /\ step[s] = "done"})
    BY DEF RunsCounted, Init
  <2>1. {s \in Steps : BotOf[s] = b /\ step[s] = "done"} = {}
    BY DEF Init
  <2> QED BY <2>1, FS_EmptySet
<1> QED BY <1>1, <1>2 DEF BotsInv

\* The steps counted for a bot are finitely many, and more steps are no fewer.
LEMMA DoneCount ==
  ASSUME NEW T \in SUBSET Steps, NEW U \in SUBSET T
  PROVE  Cardinality(U) \in Nat /\ Cardinality(T) \in Nat /\ Cardinality(U) <= Cardinality(T)
<1>1. IsFiniteSet(T)
  BY FleetAssumption, FS_Subset
<1> QED BY <1>1, FS_Subset, FS_CardinalityType

\* A step of a bot short of counting its run: it leaves the runs alone, and no
\* step is done or no longer done.
LEMMA SameRuns ==
  ASSUME RunsCounted, UNCHANGED runs,
         \A s \in Steps : step'[s] = "done" <=> step[s] = "done"
  PROVE  RunsCounted'
<1> SUFFICES ASSUME NEW b \in Bots
             PROVE  runs'[b] <= Cardinality({s \in Steps : BotOf[s] = b /\ step'[s] = "done"})
  BY DEF RunsCounted
<1>1. {s \in Steps : BotOf[s] = b /\ step'[s] = "done"}
        = {s \in Steps : BotOf[s] = b /\ step[s] = "done"}
  OBVIOUS
<1> QED BY <1>1 DEF RunsCounted

\* What the bots do not see of the daemons.
LEMMA BotsStutter == BotsInv /\ UNCHANGED fvars => BotsInv'
BY DEF BotsInv, fvars, BotTypeOK, NeverAhead, NothingAhead, SentBefore, AnsweredPaid,
       RunsCounted

LEMMA AskForStepInv == \A s \in Steps : BotsInv /\ AskForStep(s) => BotsInv'
<1> SUFFICES ASSUME NEW s \in Steps, BotsInv, AskForStep(s) PROVE BotsInv'
  OBVIOUS
<1> USE DEF BotsInv
<1>1. BotTypeOK'
  BY DEF AskForStep, Move, BotTypeOK
<1>2. (NeverAhead /\ NothingAhead /\ SentBefore /\ AnsweredPaid)'
  BY DEF AskForStep, Move, BotTypeOK, NeverAhead, NothingAhead, SentBefore, AnsweredPaid,
         Ended
<1>3. RunsCounted'
  BY SameRuns DEF AskForStep, Move, BotTypeOK
<1> QED BY <1>1, <1>2, <1>3

\* The nonce that a step reads is the account's: neither is anything with the
\* network, of that step.
LEMMA BotReadsInv == \A s \in Steps : BotsInv /\ BotReads(s) => BotsInv'
<1> SUFFICES ASSUME NEW s \in Steps, BotsInv, BotReads(s) PROVE BotsInv'
  OBVIOUS
<1> USE DEF BotsInv
<1>0. /\ step[s] = "reading" /\ UNCHANGED <<account, held, executed, runs>>
      /\ step' \in {[step EXCEPT ![s] = "sending"], [step EXCEPT ![s] = "failed"]}
      /\ nonce' \in {nonce, [nonce EXCEPT ![s] = account[BotOf[s]]]}
      /\ BotOf[s] \in Bots
      /\ s \notin held \cup executed
  BY DEF BotReads, Move, NonceRead, Bots, SentBefore, Ended
<1>1. BotTypeOK'
  BY <1>0 DEF BotTypeOK, Ended
<1>2. (NeverAhead /\ NothingAhead /\ SentBefore)'
  BY <1>0 DEF BotTypeOK, NeverAhead, NothingAhead, SentBefore, Ended
<1>3. AnsweredPaid'
  <2> SUFFICES ASSUME NEW t \in Steps, step'[t] \in {"completing", "done"}
               PROVE  \E o \in held \cup executed :
                        BotOf[o] = BotOf[t] /\ nonce'[o] = nonce'[t]
    BY <1>0 DEF AnsweredPaid
  <2>1. t # s /\ step'[t] = step[t] /\ nonce'[t] = nonce[t]
    BY <1>0 DEF BotTypeOK
  <2>2. PICK o \in held \cup executed : BotOf[o] = BotOf[t] /\ nonce[o] = nonce[t]
    BY <2>1 DEF AnsweredPaid
  <2>3. nonce'[o] = nonce[o]
    BY <1>0 DEF BotTypeOK
  <2> QED BY <2>1, <2>2, <2>3
<1>4. RunsCounted'
  BY <1>0, SameRuns DEF BotTypeOK
<1> QED BY <1>1, <1>2, <1>3, <1>4

\* A payment that is kept has the account's nonce: it was not ahead when it was
\* read, and it is refused when it is behind.
LEMMA BotSendsInv == \A s \in Steps : BotsInv /\ BotSends(s) => BotsInv'
<1> SUFFICES ASSUME NEW s \in Steps, BotsInv, BotSends(s) PROVE BotsInv'
  OBVIOUS
<1> USE DEF BotsInv
<1>0. /\ step[s] = "sending" /\ UNCHANGED <<nonce, account, executed, runs>>
      /\ held' \in {held, held \cup {s}}
      /\ s \in held' => nonce[s] = account[BotOf[s]]
      /\ \/ step' = [step EXCEPT ![s] = "completing"] /\ s \in held'
         \/ step' = [step EXCEPT ![s] = "failed"]
      /\ BotOf[s] \in Bots
  BY DEF BotSends, Kept, Move, Bots, BotTypeOK, NeverAhead, NothingAhead, SentBefore, Ended
<1>1. BotTypeOK'
  BY <1>0 DEF BotTypeOK, Ended
<1>2. (NeverAhead /\ NothingAhead /\ SentBefore)'
  BY <1>0 DEF BotTypeOK, NeverAhead, NothingAhead, SentBefore, Ended
<1>3. AnsweredPaid'
  BY <1>0 DEF BotTypeOK, AnsweredPaid
<1>4. RunsCounted'
  BY <1>0, SameRuns DEF BotTypeOK
<1> QED BY <1>1, <1>2, <1>3, <1>4

\* The run of a step is counted as the step is done.
LEMMA CompletesInv == \A s \in Steps : BotsInv /\ Completes(s) => BotsInv'
<1> SUFFICES ASSUME NEW s \in Steps, BotsInv, Completes(s) PROVE BotsInv'
  OBVIOUS
<1> USE DEF BotsInv
<1>0. BotOf[s] \in Bots
  BY DEF Bots
<1>1. BotTypeOK'
  BY <1>0 DEF Completes, Move, BotTypeOK, Ended
<1>2. (NeverAhead /\ NothingAhead /\ SentBefore /\ AnsweredPaid)'
  BY DEF Completes, Move, BotTypeOK, NeverAhead, NothingAhead, SentBefore, AnsweredPaid,
         Ended
<1>3. RunsCounted'
  <2> SUFFICES ASSUME NEW b \in Bots
               PROVE  runs'[b] <= Cardinality({t \in Steps : BotOf[t] = b /\ step'[t] = "done"})
    BY DEF RunsCounted
  <2> DEFINE D == {t \in Steps : BotOf[t] = b /\ step[t] = "done"}
  <2>1. IsFiniteSet(D) /\ Cardinality(D) \in Nat /\ runs[b] <= Cardinality(D)
    <3>1. IsFiniteSet(D)
      BY FleetAssumption, FS_Subset
    <3> QED BY <3>1, FS_CardinalityType DEF RunsCounted
  <2>2. CASE b = BotOf[s]
    <3>1. {t \in Steps : BotOf[t] = b /\ step'[t] = "done"} = D \cup {s} /\ s \notin D
      BY <2>2 DEF Completes, Move, BotTypeOK
    <3>2. Cardinality(D \cup {s}) = Cardinality(D) + 1
      BY <2>1, <3>1, FS_AddElement
    <3>3. runs'[b] = runs[b] + 1 /\ runs[b] \in Nat
      BY <2>2 DEF Completes, BotTypeOK
    <3> HIDE DEF D
    <3> QED BY <2>1, <3>1, <3>2, <3>3
  <2>3. CASE b # BotOf[s]
    <3>1. {t \in Steps : BotOf[t] = b /\ step'[t] = "done"} = D
      BY <2>3 DEF Completes, Move, BotTypeOK
    <3> QED BY <2>1, <2>3, <3>1, <1>0 DEF Completes, BotTypeOK
  <2> QED BY <2>2, <2>3
<1> QED BY <1>1, <1>2, <1>3

\* What executes is not with the network any more, and whatever shared its nonce
\* goes with it.
LEMMA ExecutePaymentInv == \A s \in Steps : BotsInv /\ ExecutePayment(s) => BotsInv'
<1> SUFFICES ASSUME NEW s \in Steps, BotsInv, ExecutePayment(s) PROVE BotsInv'
  OBVIOUS
<1> USE DEF BotsInv
<1>0. /\ s \in held /\ nonce[s] = account[BotOf[s]]
      /\ account' = [account EXCEPT ![BotOf[s]] = @ + 1]
      /\ held' = {o \in held : BotOf[o] = BotOf[s] => nonce[o] > nonce[s]}
      /\ executed' = executed \cup {s}
      /\ UNCHANGED <<step, nonce, runs>>
      /\ BotOf[s] \in Bots /\ \A t \in Steps : BotOf[t] \in Bots
  BY DEF ExecutePayment, Bots
<1>1. BotTypeOK'
  BY <1>0 DEF BotTypeOK
<1>2. (NeverAhead /\ NothingAhead /\ SentBefore)'
  BY <1>0 DEF BotTypeOK, NeverAhead, NothingAhead, SentBefore
<1>3. AnsweredPaid'
  <2> SUFFICES ASSUME NEW t \in Steps, step[t] \in {"completing", "done"}
               PROVE  \E o \in held' \cup executed' :
                        BotOf[o] = BotOf[t] /\ nonce[o] = nonce[t]
    BY <1>0 DEF AnsweredPaid
  <2>1. PICK o \in held \cup executed : BotOf[o] = BotOf[t] /\ nonce[o] = nonce[t]
    BY DEF AnsweredPaid
  <2>2. CASE o \in held' \cup executed'
    BY <2>1, <2>2
  <2>3. CASE o \notin held' \cup executed'
    <3>1. o \in held /\ BotOf[o] = BotOf[s] /\ ~(nonce[o] > nonce[s])
      BY <2>1, <2>3, <1>0
    <3>2. nonce[o] = nonce[s]
      BY <3>1, <1>0 DEF NothingAhead
    <3> QED BY <2>1, <3>1, <3>2, <1>0
  <2> QED BY <2>2, <2>3
<1>4. RunsCounted'
  BY <1>0, SameRuns
<1> QED BY <1>1, <1>2, <1>3, <1>4

\* A restart fails the steps under way, and forgets the runs.
LEMMA RestartAllInv == BotsInv /\ RestartAll => BotsInv'
<1> SUFFICES ASSUME BotsInv, RestartAll PROVE BotsInv'
  OBVIOUS
<1> USE DEF BotsInv
<1>1. BotTypeOK'
  BY DEF RestartAll, BotTypeOK, Ended
<1>2. (NeverAhead /\ NothingAhead /\ SentBefore /\ AnsweredPaid)'
  BY DEF RestartAll, BotTypeOK, NeverAhead, NothingAhead, SentBefore, AnsweredPaid, Ended
<1>3. RunsCounted'
  <2> SUFFICES ASSUME NEW b \in Bots
               PROVE  0 <= Cardinality({s \in Steps : BotOf[s] = b /\ step'[s] = "done"})
    BY DEF RunsCounted, RestartAll
  <2>1. {s \in Steps : BotOf[s] = b /\ step'[s] = "done"} \in SUBSET Steps
    OBVIOUS
  <2> QED BY <2>1, DoneCount
<1> QED BY <1>1, <1>2, <1>3

-----------------------------------------------------------------------------
(* The whole. *)

LEMMA FleetInit == Init => IInv
BY TreasuryInit, BotsInit DEF Init, IInv

LEMMA FleetNext == IInv /\ [Next]_vars => IInv'
<1> SUFFICES ASSUME IInv, [Next]_vars PROVE IInv'
  OBVIOUS
<1>1. TTypeOK
  BY DEF IInv, TreasuryInv
<1>2. CASE Check /\ UNCHANGED fvars
  BY <1>2, StartCheckInv, SyncInv, ReadBalanceInv, SendReturnsInv, BotsStutter
     DEF Check, IInv
<1>3. CASE Execute /\ UNCHANGED fvars
  BY <1>3, ExecuteInv, BotsStutter DEF IInv
<1>4. CASE (\E r \in Relayers : Drain(r)) /\ UNCHANGED fvars
  <2>1. TreasuryInv'
    BY <1>1, <1>4, DrainBounds, SpendingKeepsTreasury DEF Drain, IInv, TTypeOK
  <2> QED BY <1>4, <2>1, BotsStutter DEF IInv
<1>5. ASSUME NEW s \in Steps, ExecuteBotStep(s) PROVE IInv'
  <2>1. BotsInv'
    BY <1>5, AskForStepInv, BotReadsInv, BotSendsInv, CompletesInv DEF ExecuteBotStep, IInv
  <2>2. /\ UNCHANGED <<daemon, localNonce, phase, cursor, acct, pool, low>>
        /\ UNCHANGED bounds \/ Fault
    BY <1>5 DEF ExecuteBotStep, AskForStep, BotReads, BotSends, Completes, tvars
  <2>3. TreasuryInv'
    BY <1>1, <2>2, FaultBounds, SpendingKeepsTreasury DEF IInv, TTypeOK
  <2> QED BY <2>1, <2>3 DEF IInv
<1>6. ASSUME NEW s \in Steps, ExecutePayment(s) PROVE IInv'
  <2>1. BotsInv'
    BY <1>6, ExecutePaymentInv DEF IInv
  <2>2. RelayerOf[BotOf[s]] \in Relayers
    BY FleetAssumption DEF Bots
  <2>3. /\ UNCHANGED <<daemon, localNonce, phase, cursor, acct, pool>>
        /\ \/ UNCHANGED <<low, bounds>>
           \/ /\ bounds.drains > 0
              /\ low' = low \cup {RelayerOf[BotOf[s]]}
              /\ bounds' = [bounds EXCEPT !.drains = @ - 1]
    BY <1>6 DEF ExecutePayment
  <2>4. TreasuryInv'
    BY <1>1, <2>2, <2>3, DrainBounds, SpendingKeepsTreasury DEF IInv, TTypeOK
  <2> QED BY <2>1, <2>4 DEF IInv
<1>7. CASE RestartAll
  BY <1>7, RestartAllInv, RestartInv DEF RestartAll, IInv
<1>8. CASE UNCHANGED vars
  <2>1. TreasuryInv'
    BY <1>1, <1>8, SpendingKeepsTreasury DEF vars, tvars, IInv, TTypeOK
  <2> QED BY <1>8, <2>1, BotsStutter DEF vars, IInv
<1> QED BY <1>2, <1>3, <1>4, <1>5, <1>6, <1>7, <1>8 DEF Next

LEMMA FleetInv == Spec => []IInv
BY FleetInit, FleetNext, PTL DEF Spec

\* Whoever numbers its transactions itself, the treasury's daemons
\* (relayer_gas_sentinel.ts:137-285, treasury_service.ts:87-185) or a bot
\* (fleet_service.ts:216-252), leaves no gap before one and runs into none of its
\* own, as far as it promises that.
THEOREM NumberingIsSound == Spec => []NoncesSound
<1>1. IInv => TypeOK
  <2> SUFFICES ASSUME IInv PROVE TypeOK
    OBVIOUS
  <2>1. runs \in [Bots -> 0 .. Cardinality(Steps)]
    <3>1. ASSUME NEW b \in Bots PROVE runs[b] <= Cardinality(Steps) /\ Cardinality(Steps) \in Nat
      <4> DEFINE D == {s \in Steps : BotOf[s] = b /\ step[s] = "done"}
      <4>1. D \in SUBSET Steps
        OBVIOUS
      <4>2. runs[b] <= Cardinality(D) /\ runs[b] \in Nat
        BY DEF IInv, BotsInv, RunsCounted, BotTypeOK
      <4> HIDE DEF D
      <4> QED BY <4>1, <4>2, DoneCount
    <3> QED BY <3>1 DEF IInv, BotsInv, BotTypeOK
  <2> QED BY <2>1 DEF IInv, TreasuryInv, BotsInv, BotTypeOK, TypeOK, FTypeOK
<1>2. IInv => NoncesApart
  BY DEF IInv, TreasuryInv, NumberedApart, NoncesApart, TTypeOK, Refill
<1>3. IInv => NoncesSound
  BY <1>1, <1>2 DEF IInv, TreasuryInv, BotsInv, NoncesSound
<1> QED BY <1>3, FleetInv, PTL

\* What a bot reports as a run (fleet_service.ts:216-252) left a payment on the
\* network, or another step of that bot took its place there.
THEOREM RunsPaid == Spec => []RunsArePaid
<1>1. IInv => RunsArePaid
  BY DEF IInv, BotsInv, AnsweredPaid, RunsArePaid
<1> QED BY <1>1, FleetInv, PTL

\* Every nonce the treasury spends lifts a relayer that is low, whatever was lost
\* on the way (relayer_gas_sentinel.ts:137-285; treasury_service.ts:87-185 until
\* it is restarted).
THEOREM NothingOverfunded == Spec => NoOverfunding
<1>1. ASSUME IInv, [Next]_vars
      PROVE  [(daemon = Sentinel \/ bounds.restarts = MaxRestarts) /\ acct' # acct
                => low' # low]_tvars
  <2> SUFFICES ASSUME daemon = Sentinel \/ bounds.restarts = MaxRestarts, acct' # acct
               PROVE  low' # low
    OBVIOUS
  <2>1. Execute
    BY <1>1 DEF Next, Check, StartCheck, Sync, ReadBalance, SendReturns, Drain,
                ExecuteBotStep, AskForStep, BotReads, BotSends, Completes, ExecutePayment,
                RestartAll, Restart, vars, tvars
  <2>2. PICK tx \in pool : tx.nonce = acct /\ low' = low \ {tx.to}
    BY <2>1 DEF Execute
  <2>3. tx \in Ready
    BY <2>2, <1>1 DEF Ready, IInv, TreasuryInv, TTypeOK, Refill
  <2>4. tx.to \in low
    BY <2>3, <1>1 DEF IInv, TreasuryInv, ReadyNeeded
  <2> QED BY <2>2, <2>4
<1> QED BY <1>1, FleetInv, PTL DEF Spec, NoOverfunding
=============================================================================
