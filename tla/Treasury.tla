------------------------------- MODULE Treasury -------------------------------
(***************************************************************************)
(* The daemons that keep the relayers' wallets funded: RelayerGasSentinel  *)
(* (src/services/relayer_gas_sentinel.ts), which bin/server.ts starts, and *)
(* RelayerTreasuryService (src/services/treasury_service.ts), one of them  *)
(* in a behaviour.  Both walk over the relayers on a timer, read each      *)
(* balance and send a refill to those below the threshold, numbering the   *)
(* refills themselves; they differ in when the number moves on.            *)
(*                                                                         *)
(* The network keeps what it is sent and executes it in the order of the   *)
(* nonces.  A balance is abstracted to whether it is below the threshold:  *)
(* one refill lifts it above.                                              *)
(***************************************************************************)
EXTENDS Naturals, FiniteSets, FiniteSetsExt

CONSTANTS
  N,            \* relayers, walked over in the order 1 .. N
  Daemons,      \* the daemons the server may run
  MaxFaults,    \* bound: calls to the network that fail
  MaxRestarts,  \* bound
  MaxDrains,    \* bound: relayers that settlements drain below the threshold
  MaxNonce      \* bound on the service's nonces, which may grow for ever

Sentinel == "sentinel"
Service == "service"

ASSUME TreasuryAssumption ==
  /\ {N, MaxFaults, MaxRestarts, MaxDrains, MaxNonce} \subseteq Nat
  /\ Daemons \subseteq {Sentinel, Service}

VARIABLES
  daemon,     \* which of the two runs
  localNonce,
  phase,      \* isChecking: what the check under way waits for, or "idle"
  cursor,     \* the relayer it has come to
  acct,       \* the treasury's nonce on the network
  pool,       \* refills the network holds
  low,        \* relayers below the threshold
  bounds      \* what is left of the bounds

tvars == <<daemon, localNonce, phase, cursor, acct, pool, low, bounds>>

Relayers == 1 .. N
Refill == [nonce : Nat, to : Relayers]

TTypeOK ==
  /\ daemon \in Daemons
  /\ localNonce \in Nat /\ acct \in Nat
  /\ phase \in {"idle", "syncing", "reading", "sending"}
  /\ cursor \in 1 .. N + 1
  /\ phase = "sending" => cursor \in Relayers
  /\ pool \subseteq Refill /\ IsFiniteSet(pool)
  /\ \A tx \in pool : tx.nonce >= acct
  /\ low \subseteq Relayers
  /\ bounds \in [faults : 0 .. MaxFaults, restarts : 0 .. MaxRestarts,
                 drains : 0 .. MaxDrains]

TInit ==
  /\ daemon \in Daemons
  /\ localNonce = 0
  /\ phase = "idle" /\ cursor = 1
  /\ acct = 0 /\ pool = {}
  /\ low = {}
  /\ bounds = [faults |-> MaxFaults, restarts |-> MaxRestarts, drains |-> MaxDrains]

Fault == bounds.faults > 0 /\ bounds' = [bounds EXCEPT !.faults = @ - 1]

-----------------------------------------------------------------------------

\* The network executes a refill when the timer leaves it the time to.
Quiet == ~\E tx \in pool : tx.nonce = acct

\* The timer: a check is started unless one is under way.  An interval (60 s)
\* is longer than the network takes to execute what it can (see Quiet).
StartCheck ==
  /\ phase = "idle" /\ Quiet
  /\ daemon = Service => localNonce < MaxNonce
  /\ phase' = "syncing"
  /\ UNCHANGED <<daemon, localNonce, cursor, acct, pool, low, bounds>>

\* The local nonce catches up with the account.
CaughtUp == Max({localNonce, acct})

\* getAccount(treasury): a failure ends the check.
Sync ==
  /\ phase = "syncing"
  /\ \/ /\ localNonce' = CaughtUp
        /\ phase' = "reading" /\ cursor' = 1
        /\ UNCHANGED bounds
     \/ /\ Fault
        /\ phase' = "idle"
        /\ UNCHANGED <<localNonce, cursor>>
  /\ UNCHANGED <<daemon, acct, pool, low>>

\* mutant: the walk stops before the last relayer.
NextRelayerShort ==
  IF cursor < N - 1 THEN phase' = "reading" /\ cursor' = cursor + 1
  ELSE phase' = "idle" /\ cursor' = 1

\* On to the next relayer, or the end of the check.
NextRelayer ==
  IF cursor < N THEN phase' = "reading" /\ cursor' = cursor + 1
  ELSE phase' = "idle" /\ cursor' = 1

\* mutant: every relayer is refilled in every check.
NeedsRefillAlways == TRUE

NeedsRefill == cursor \in low

\* getAccount(relayer): the refill is signed with the local nonce, and the
\* service counts it before it is sent.
ReadBalance ==
  /\ phase = "reading"
  /\ \/ /\ NeedsRefill
        /\ phase' = "sending"
        /\ localNonce' = IF daemon = Service THEN localNonce + 1 ELSE localNonce
        /\ UNCHANGED <<cursor, bounds>>
     \/ ~NeedsRefill /\ NextRelayer /\ UNCHANGED <<localNonce, bounds>>
     \/ Fault /\ NextRelayer /\ UNCHANGED localNonce
  /\ UNCHANGED <<daemon, acct, pool, low>>

\* The refill under way, as it was signed.
Signed ==
  [nonce |-> IF daemon = Service THEN localNonce - 1 ELSE localNonce, to |-> cursor]

\* The network keeps a refill unless its nonce has passed.
Taken == IF Signed.nonce >= acct THEN pool \cup {Signed} ELSE pool

\* mutant: the sentinel counts a refill whose sending failed.
NonceAfterBlind(replied) == IF daemon = Service THEN localNonce ELSE localNonce + 1

\* The sentinel counts a refill when the network has replied.
NonceAfter(replied) ==
  IF daemon = Sentinel /\ replied THEN localNonce + 1 ELSE localNonce

\* sendTransaction: the network replies, or the call fails, with the refill
\* taken all the same or not.
SendReturns ==
  /\ phase = "sending"
  /\ \/ /\ Signed.nonce >= acct
        /\ pool' = Taken
        /\ localNonce' = NonceAfter(TRUE)
        /\ UNCHANGED bounds
     \/ /\ Signed.nonce < acct
        /\ localNonce' = NonceAfter(FALSE)
        /\ UNCHANGED <<pool, bounds>>
     \/ /\ Fault
        /\ pool' \in {pool, Taken}
        /\ localNonce' = NonceAfter(FALSE)
  /\ NextRelayer
  /\ UNCHANGED <<daemon, acct, low>>

-----------------------------------------------------------------------------

\* The network executes the refill that is next, whichever has that nonce.
Execute ==
  \E tx \in pool :
    /\ tx.nonce = acct
    /\ acct' = acct + 1
    /\ pool' = {other \in pool : other.nonce > acct}
    /\ low' = low \ {tx.to}
    /\ UNCHANGED <<daemon, localNonce, phase, cursor, bounds>>

\* Settlements use up a relayer's gas.
Drain(r) ==
  /\ bounds.drains > 0 /\ r \notin low
  /\ low' = low \cup {r}
  /\ bounds' = [bounds EXCEPT !.drains = @ - 1]
  /\ UNCHANGED <<daemon, localNonce, phase, cursor, acct, pool>>

\* The process stops, with a refill on its way perhaps, and starts again.
Restart ==
  /\ bounds.restarts > 0
  /\ bounds' = [bounds EXCEPT !.restarts = @ - 1]
  /\ localNonce' = 0 /\ phase' = "idle" /\ cursor' = 1
  /\ pool' \in IF phase = "sending" THEN {pool, Taken} ELSE {pool}
  /\ UNCHANGED <<daemon, acct, low>>

\* checkAndTopUp, checkAndReplenishOnce
Check == StartCheck \/ Sync \/ ReadBalance \/ SendReturns

TNext == Check \/ Execute \/ Restart \/ \E r \in Relayers : Drain(r)

TSpec == TInit /\ [][TNext]_tvars

\* The timer fires, calls to the network come back, and it executes what it can.
TFairness == WF_tvars(Check) /\ WF_tvars(Execute)

-----------------------------------------------------------------------------

\* The sentinel leaves no gap: what precedes a refill on the network is there.
\* (The test "should NOT increment localNonce when sendTransaction fails",
\* relayer_gas_sentinel.test.ts:216.)
NoGap ==
  daemon = Sentinel =>
    \A tx \in pool : \A n \in acct .. tx.nonce : \E other \in pool : other.nonce = n

\* The service numbers its refills apart, at the price of gaps: until it is
\* restarted, no two of them have the same nonce, and it is past all of them.
NoncesApart ==
  daemon = Service /\ bounds.restarts = MaxRestarts =>
    /\ \A a, b \in pool : a.nonce = b.nonce => a = b
    /\ \A tx \in pool : tx.nonce < localNonce

\* Every nonce the treasury spends lifts a relayer that is low: nothing is sent
\* twice for one shortage, whatever was lost.  The service keeps to that until
\* it is restarted: what piled up behind a gap is then all executed.
NoOverfunding ==
  [][(daemon = Sentinel \/ bounds.restarts = MaxRestarts) /\ acct' # acct
       => low' # low]_tvars

\* Under the sentinel a relayer that is low is refilled in the end.
Refilled ==
  \A r \in Relayers : (daemon = Sentinel /\ r \in low) ~> r \notin low
=============================================================================
