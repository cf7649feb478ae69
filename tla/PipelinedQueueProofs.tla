------------------------ MODULE PipelinedQueueProofs ------------------------
(***************************************************************************)
(* The pipelined queue, for every number of calls, payments and relayers   *)
(* and every batch size: whatever signers, broadcasts and saves do and     *)
(* whenever the process restarts, no request is stranded or broadcast in   *)
(* two batches, no nonce collides with another of the same run, what the   *)
(* callers are told agrees with the records, the pending count is exact    *)
(* and the nonce trackers count no request too few.                        *)
(***************************************************************************)
EXTENDS PipelinedQueue, FiniteSetTheorems, TLAPS

-----------------------------------------------------------------------------
(* The invariant, in parts.                                                *)

Distinct(s) == \A i, j \in 1 .. Len(s) : s[i] = s[j] => i = j

\* A batch holds batched requests of its own relayer, is not full, and its
\* timer runs when it is not empty; a batched request is in its batch.
BatchInv ==
  /\ \A a \in Relayer :
       /\ \A r \in Items(batch[a]) : call[r] = "batched" /\ via[r] = a
       /\ Distinct(batch[a])
       /\ Len(batch[a]) < BatchSize
       /\ batch[a] # <<>> => timer[a]
  /\ \A r \in Requests : call[r] = "batched" => r \in Items(batch[via[r]])

\* The requests of a flushed batch are answered up to the item being saved and
\* wait from there on.  A request that waits is in a flushed batch.
FlightInv ==
  /\ \A f \in flights :
       /\ Len(f.items) > 0 /\ f.saved <= Len(f.items)
       /\ \A r \in Items(f.items) : call[r] \in {"flushed", "ok"}
       /\ \A j \in 1 .. f.saved - 1 : call[f.items[j]] = "ok"
       /\ \A j \in 1 .. Len(f.items) : j >= f.saved => call[f.items[j]] = "flushed"
       /\ Distinct(f.items)
  /\ \A r \in Requests :
       call[r] = "flushed" => \E f \in flights : r \in Items(f.items)

\* No request is in two flushed batches.
Apart == \A f, g \in flights : f # g => Items(f.items) \cap Items(g.items) = {}

\* Saving starts when the network has the whole batch, and an item whose save
\* was made is recorded.
SavedInv ==
  /\ \A f \in flights : f.saved > 0 =>
       /\ \A r \in Items(f.items) : Pay[r] \in chain
       /\ \A j \in 1 .. f.saved : records[Pay[f.items[j]]] > 0
  /\ \A p \in Payments : records[p] > 0 => p \in chain

\* The records survive a restart, or there is none.
Durable == Backend = "sqlite" \/ MaxCrashes = 0

AnswerInv ==
  Durable => \A r \in Requests :
    call[r] = "ok" \/ (call[r] = "lookup" /\ found[r]) => records[Pay[r]] > 0

\* Every record was made by a call that was told so, is about to be, or was
\* cut off by a restart.
Accountable(s) ==
  \/ call[s] \in {"ok", "lost"}
  \/ \E f \in flights : \E j \in 1 .. f.saved : f.items[j] = s

MakerInv ==
  \A p \in Payments : records[p] > 0 =>
    \E s \in Requests : Pay[s] = p /\ Accountable(s)

PlaceInv == BatchInv /\ FlightInv /\ Apart
RecordInv == SavedInv /\ AnswerInv /\ MakerInv

PipeInv == PTypeOK /\ PlaceInv /\ NoCollisions /\ RecordInv

-----------------------------------------------------------------------------
(* The requests of a sequence.                                             *)

LEMMA ItemsType ==
  ASSUME NEW s \in Seq(Requests)
  PROVE  Items(s) \subseteq Requests
  BY DEF Items

LEMMA ItemsEmpty == Items(<<>>) = {}
  BY DEF Items

LEMMA ItemsAppend ==
  ASSUME NEW s \in Seq(Requests), NEW r \in Requests
  PROVE  Items(Append(s, r)) = Items(s) \cup {r}
  <1> DEFINE t == Append(s, r)
  <1>1. /\ Len(t) = Len(s) + 1 /\ Len(s) \in Nat
        /\ t[Len(s) + 1] = r
        /\ \A i \in 1 .. Len(s) : t[i] = s[i]
    OBVIOUS
  <1> HIDE DEF t
  <1>2. Items(t) \subseteq Items(s) \cup {r}
    <2> SUFFICES ASSUME NEW i \in 1 .. Len(t)
                 PROVE  t[i] \in Items(s) \cup {r}
      BY DEF Items
    <2>1. CASE i = Len(s) + 1
      BY <2>1, <1>1
    <2>2. CASE i # Len(s) + 1
      <3>1. i \in 1 .. Len(s)
        BY <2>2, <1>1
      <3>2. QED BY <3>1, <1>1 DEF Items
    <2>3. QED BY <2>1, <2>2
  <1>3. Items(s) \subseteq Items(t)
    BY <1>1 DEF Items
  <1>4. r \in Items(t)
    <2>1. Len(s) + 1 \in 1 .. Len(t)
      BY <1>1
    <2>2. QED BY <2>1, <1>1 DEF Items
  <1>5. QED BY <1>2, <1>3, <1>4 DEF t

LEMMA DistinctAppend ==
  ASSUME NEW s \in Seq(Requests), NEW r \in Requests, Distinct(s), r \notin Items(s)
  PROVE  Distinct(Append(s, r))
  <1> DEFINE t == Append(s, r)
  <1>1. /\ Len(t) = Len(s) + 1 /\ Len(s) \in Nat
        /\ t[Len(s) + 1] = r
        /\ \A i \in 1 .. Len(s) : t[i] = s[i]
    OBVIOUS
  <1> HIDE DEF t
  <1>2. \A i \in 1 .. Len(s) : t[i] # r
    BY <1>1 DEF Items
  <1>3. ASSUME NEW i \in 1 .. Len(t), NEW j \in 1 .. Len(t), t[i] = t[j]
        PROVE  i = j
    <2>1. CASE i \in 1 .. Len(s) /\ j \in 1 .. Len(s)
      BY <2>1, <1>1, <1>3 DEF Distinct
    <2>2. CASE i = Len(s) + 1 /\ j = Len(s) + 1
      BY <2>2
    <2>3. CASE i = Len(s) + 1 /\ j \in 1 .. Len(s)
      BY <2>3, <1>1, <1>2, <1>3
    <2>4. CASE i \in 1 .. Len(s) /\ j = Len(s) + 1
      BY <2>4, <1>1, <1>2, <1>3
    <2>5. QED BY <2>1, <2>2, <2>3, <2>4, <1>1
  <1>4. QED BY <1>3 DEF Distinct, t

LEMMA ItemsTail ==
  ASSUME NEW s \in Seq(Requests), NEW i \in 1 .. Len(s)
  PROVE  Items(SubSeq(s, i, Len(s))) = {s[k] : k \in i .. Len(s)}
  <1> DEFINE t == SubSeq(s, i, Len(s))
  <1>1. /\ Len(t) = Len(s) - i + 1 /\ Len(s) \in Nat
        /\ \A k \in 1 .. Len(t) : t[k] = s[k + i - 1]
    OBVIOUS
  <1> HIDE DEF t
  <1>2. Items(t) \subseteq {s[k] : k \in i .. Len(s)}
    <2> SUFFICES ASSUME NEW k \in 1 .. Len(t)
                 PROVE  \E m \in i .. Len(s) : t[k] = s[m]
      BY DEF Items
    <2>1. k + i - 1 \in i .. Len(s)
      BY <1>1
    <2>2. QED BY <2>1, <1>1
  <1>3. {s[k] : k \in i .. Len(s)} \subseteq Items(t)
    <2> SUFFICES ASSUME NEW k \in i .. Len(s)
                 PROVE  s[k] \in Items(t)
      OBVIOUS
    <2>1. k - i + 1 \in 1 .. Len(t) /\ (k - i + 1) + i - 1 = k
      BY <1>1
    <2>2. t[k - i + 1] = s[k]
      BY <2>1, <1>1
    <2>3. QED BY <2>1, <2>2 DEF Items
  <1>4. QED BY <1>2, <1>3 DEF t

\* The flight that has gone on to save item i.
LEMMA MovedFlight ==
  ASSUME PTypeOK, NEW f \in flights, NEW i \in Nat
  PROVE  /\ [f EXCEPT !.saved = i] = [via |-> f.via, items |-> f.items, saved |-> i]
         /\ [f EXCEPT !.saved = i] \in Flights
  <1>1. f \in Flights
    BY DEF PTypeOK
  <1>2. QED BY <1>1 DEF Flights

-----------------------------------------------------------------------------
(* Types.                                                                  *)

LEMMA FlightTypes ==
  ASSUME PTypeOK, NEW f \in flights
  PROVE  /\ f = [via |-> f.via, items |-> f.items, saved |-> f.saved]
         /\ f.via \in Relayer /\ f.items \in Seq(Requests) /\ f.saved \in Nat
         /\ Len(f.items) \in Nat /\ Items(f.items) \subseteq Requests
  <1>1. f \in Flights
    BY DEF PTypeOK
  <1>2. /\ f = [via |-> f.via, items |-> f.items, saved |-> f.saved]
        /\ f.via \in Relayer /\ f.items \in Seq(Requests) /\ f.saved \in Nat
    BY <1>1 DEF Flights
  <1>3. QED BY <1>2, ItemsType

LEMMA RelayerType ==
  /\ 0 \in Relayer
  /\ \A t \in Relayer : (t + 1) % Relayers \in Relayer
  BY PipelineAssumption DEF Relayer

LEMMA PayType == \A r \in Requests : Pay[r] \in Payments
  BY PipelineAssumption

LEMMA TypeInit == Init => PTypeOK
  <1> SUFFICES ASSUME Init PROVE PTypeOK
    OBVIOUS
  <1>1. crashes \in 0 .. MaxCrashes
    BY PipelineAssumption DEF Init
  <1>2. <<>> \in Seq(Requests)
    OBVIOUS
  <1>3. QED BY <1>1, <1>2, RelayerType DEF Init, PTypeOK, Stages

LEMMA TypeFlush ==
  ASSUME PTypeOK, NEW a \in Relayer, NEW s \in Seq(Requests), Flush(a, s)
  PROVE  /\ batch' \in [Relayer -> Seq(Requests)] /\ timer' \in [Relayer -> BOOLEAN]
         /\ call' \in [Requests -> Stages] /\ flights' \in SUBSET Flights
         /\ wire' \in SUBSET Payments
  <1>1. Items(s) \subseteq Requests /\ <<>> \in Seq(Requests)
    BY ItemsType
  <1>2. batch' \in [Relayer -> Seq(Requests)] /\ timer' \in [Relayer -> BOOLEAN]
    BY <1>1 DEF Flush, PTypeOK
  <1>3. call' \in [Requests -> Stages]
    BY DEF Flush, PTypeOK, Stages
  <1>4. flights' \in SUBSET Flights
    BY DEF Flush, PTypeOK, Flights
  <1>5. wire' \in SUBSET Payments
    BY <1>1, PayType DEF Flush, PTypeOK
  <1>6. QED BY <1>2, <1>3, <1>4, <1>5

LEMMA TypeSettle ==
  ASSUME PTypeOK, NEW r \in Requests, Settle(r)
  PROVE  PTypeOK'
  <1>1. CASE Arrive(r)
    <2>1. call' \in [Requests -> Stages] /\ found' \in [Requests -> BOOLEAN]
      BY <1>1 DEF Arrive, Tell, PTypeOK, Stages
    <2>2. UNCHANGED <<via, nonce, batch, timer, flights, pending, next, confirmed, inFlight, turn,
                      wire, chain, records, crashes>>
      BY <1>1 DEF Arrive, qvars, nvars, evars
    <2>3. QED BY <2>1, <2>2 DEF PTypeOK
  <1>2. CASE Known(r) \/ Saturated(r) \/ SignFails(r)
    BY <1>2 DEF Known, Saturated, SignFails, Tell, PTypeOK, Stages, Decided, qvars, nvars, evars
  <1>3. CASE Reserve(r)
    <2>1. /\ call' \in [Requests -> Stages]
          /\ via' \in [Requests -> Relayer]
          /\ nonce' \in [Requests -> Nat]
      BY <1>3 DEF Reserve, Tell, PTypeOK, Stages
    <2>2. turn' \in Relayer
      BY <1>3, RelayerType DEF Reserve, PTypeOK
    <2>3. next' \in [Relayer -> Nat] /\ inFlight' \in [Relayer -> Nat]
      <3>1. /\ turn \in Relayer /\ next \in [Relayer -> Nat] /\ inFlight \in [Relayer -> Nat]
            /\ next' = [next EXCEPT ![turn] = @ + 1]
            /\ inFlight' = [inFlight EXCEPT ![turn] = @ + 1]
        BY <1>3 DEF Reserve, PTypeOK
      <3>2. QED BY <3>1
    <2>4. UNCHANGED <<found, batch, timer, flights, pending, confirmed, wire, chain, records, crashes>>
      BY <1>3 DEF Reserve, qvars, evars
    <2>5. QED BY <2>1, <2>2, <2>3, <2>4 DEF PTypeOK
  <1>4. CASE SignReturns(r)
    <2>1. /\ via[r] \in Relayer /\ batch[via[r]] \in Seq(Requests)
      BY DEF PTypeOK
    <2>a. Append(batch[via[r]], r) \in Seq(Requests)
      BY <2>1
    <2>2. UNCHANGED <<found, via, nonce, nvars, chain, records, crashes>> /\ pending' \in Nat
      BY <1>4 DEF SignReturns, PTypeOK
    <2>3. CASE Len(Append(batch[via[r]], r)) >= BatchSize
      <3>1. Flush(via[r], Append(batch[via[r]], r))
        BY <1>4, <2>3 DEF SignReturns
      <3>2. /\ batch' \in [Relayer -> Seq(Requests)] /\ timer' \in [Relayer -> BOOLEAN]
            /\ call' \in [Requests -> Stages] /\ flights' \in SUBSET Flights
            /\ wire' \in SUBSET Payments
        BY <3>1, <2>1, <2>a, TypeFlush
      <3>3. QED BY <3>2, <2>2 DEF PTypeOK, nvars
    <2>4. CASE ~(Len(Append(batch[via[r]], r)) >= BatchSize)
      <3>1. /\ batch' = [batch EXCEPT ![via[r]] = Append(batch[via[r]], r)]
            /\ timer' = [timer EXCEPT ![via[r]] = TRUE]
            /\ Tell(r, "batched")
            /\ UNCHANGED <<flights, wire>>
        BY <1>4, <2>4 DEF SignReturns
      <3>2. /\ batch' \in [Relayer -> Seq(Requests)] /\ timer' \in [Relayer -> BOOLEAN]
            /\ call' \in [Requests -> Stages]
        BY <3>1, <2>1, <2>a DEF Tell, PTypeOK, Stages
      <3>3. QED BY <3>1, <3>2, <2>2 DEF PTypeOK, nvars
    <2>5. QED BY <2>3, <2>4
  <1>5. QED BY <1>1, <1>2, <1>3, <1>4 DEF Settle

LEMMA TypeTimer ==
  ASSUME PTypeOK, NEW a \in Relayer, TimerFires(a)
  PROVE  PTypeOK'
  <1>1. UNCHANGED <<found, via, nonce, pending, nvars, chain, records, crashes>>
    BY DEF TimerFires
  <1>2. CASE batch[a] = <<>>
    <2>1. timer' = [timer EXCEPT ![a] = FALSE] /\ UNCHANGED <<call, batch, flights, wire>>
      BY <1>2 DEF TimerFires
    <2>2. QED BY <2>1, <1>1 DEF PTypeOK, nvars
  <1>3. CASE batch[a] # <<>>
    <2>1. batch[a] \in Seq(Requests) /\ Items(batch[a]) \subseteq Requests
      BY ItemsType DEF PTypeOK
    <2>2. Flush(a, batch[a])
      BY <1>3 DEF TimerFires
    <2>3. /\ batch' \in [Relayer -> Seq(Requests)] /\ timer' \in [Relayer -> BOOLEAN]
          /\ call' \in [Requests -> Stages] /\ flights' \in SUBSET Flights
          /\ wire' \in SUBSET Payments
      BY <2>1, <2>2, TypeFlush
    <2>4. QED BY <2>3, <1>1 DEF PTypeOK, nvars
  <1>4. QED BY <1>2, <1>3

LEMMA TypeConfirm ==
  ASSUME PTypeOK, NEW a \in Relayer, NEW n \in Nat, Confirm(a, n)
  PROVE  confirmed' \in [Relayer -> Nat] /\ inFlight' \in [Relayer -> Nat]
  BY DEF Confirm, PTypeOK

LEMMA TypeSaveItem ==
  ASSUME PTypeOK, NEW f \in flights, NEW i \in 1 .. Len(f.items), SaveItem(f, i)
  PROVE  /\ confirmed' \in [Relayer -> Nat] /\ inFlight' \in [Relayer -> Nat]
         /\ records' \in [Payments -> Nat]
         /\ flights' \in SUBSET Flights
  <1>a. f.via \in Relayer /\ f.items \in Seq(Requests)
    BY FlightTypes
  <1>b. f.items[i] \in Requests
    BY <1>a
  <1>1. /\ f.items[i] \in Requests /\ f.via \in Relayer
        /\ nonce[f.items[i]] \in Nat /\ Pay[f.items[i]] \in Payments
    BY <1>a, <1>b, PayType DEF PTypeOK
  <1>2. confirmed' \in [Relayer -> Nat] /\ inFlight' \in [Relayer -> Nat]
    BY <1>1, TypeConfirm DEF SaveItem
  <1>3. records' \in [Payments -> Nat]
    <2> DEFINE p == Pay[f.items[i]]
    <2>1. /\ p \in Payments /\ records[p] \in Nat
          /\ records' = [records EXCEPT ![p] = IF Backend = "sqlite" THEN 1 ELSE records[p] + 1]
      BY <1>1 DEF SaveItem, Save, PTypeOK
    <2> HIDE DEF p
    <2>2. QED BY <2>1 DEF PTypeOK
  <1>4. [f EXCEPT !.saved = i] \in Flights
    BY <1>1, <1>a, FlightTypes DEF Flights
  <1>5. flights' \in SUBSET Flights
    BY <1>4 DEF SaveItem, PTypeOK
  <1>6. QED BY <1>2, <1>3, <1>5

LEMMA TypeLand ==
  ASSUME PTypeOK, NEW f \in flights, Land(f)
  PROVE  flights' \in SUBSET Flights /\ pending' \in Nat
  <1>1. Len(f.items) \in Nat /\ pending \in Nat
    BY FlightTypes DEF PTypeOK
  <1>2. pending' \in Nat
    BY <1>1 DEF Land
  <1>3. flights' \in SUBSET Flights
    BY DEF Land, PTypeOK
  <1>4. QED BY <1>2, <1>3

LEMMA TypeFlight ==
  ASSUME PTypeOK, FlightInv, NEW f \in flights, FlightEnds(f)
  PROVE  PTypeOK'
  <1>a. /\ Len(f.items) \in Nat /\ f.saved \in Nat
        /\ Len(f.items) > 0 /\ f.saved <= Len(f.items)
    BY FlightTypes DEF FlightInv
  <1>1. CASE SendReturns(f)
    <2>1. SaveItem(f, 1) /\ 1 \in 1 .. Len(f.items)
      BY <1>1, <1>a DEF SendReturns
    <2>2. UNCHANGED <<call, found, via, nonce, batch, timer, pending, next, turn, wire, chain, crashes>>
      BY <1>1 DEF SendReturns, cvars
    <2>3. QED BY <2>1, <2>2, TypeSaveItem DEF PTypeOK
  <1>2. CASE SendFails(f)
    <2>1. call' \in [Requests -> Stages]
      BY <1>2 DEF SendFails, Fail, PTypeOK, Stages, Decided
    <2>2. Land(f) /\ UNCHANGED <<found, via, nonce, batch, timer, nvars, evars>>
      BY <1>2 DEF SendFails
    <2>3. QED BY <2>1, <2>2, TypeLand DEF PTypeOK, nvars, evars
  <1>3. CASE SaveReturns(f)
    <2>1. call' \in [Requests -> Stages]
      BY <1>3 DEF SaveReturns, Tell, PTypeOK, Stages, Decided
    <2>2. UNCHANGED <<found, via, nonce, batch, timer, next, turn, wire, chain, crashes>>
      BY <1>3 DEF SaveReturns
    <2>3. CASE f.saved < Len(f.items)
      <3>1. SaveItem(f, f.saved + 1) /\ f.saved + 1 \in 1 .. Len(f.items) /\ UNCHANGED pending
        BY <1>3, <1>a, <2>3 DEF SaveReturns
      <3>2. QED BY <3>1, <2>1, <2>2, TypeSaveItem DEF PTypeOK
    <2>4. CASE ~(f.saved < Len(f.items))
      <3>1. Land(f) /\ UNCHANGED <<confirmed, inFlight, records>>
        BY <1>3, <2>4 DEF SaveReturns
      <3>2. QED BY <3>1, <2>1, <2>2, TypeLand DEF PTypeOK
    <2>5. QED BY <2>3, <2>4
  <1>4. CASE SaveThrows(f)
    <2>1. call' \in [Requests -> Stages]
      BY <1>4 DEF SaveThrows, PTypeOK, Stages, Decided
    <2>2. Land(f) /\ UNCHANGED <<found, via, nonce, batch, timer, next, turn, evars>>
      BY <1>4 DEF SaveThrows
    <2>3. f.saved + 1 \in 1 .. Len(f.items) /\ Confirm(f.via, nonce[f.items[f.saved + 1]])
      BY <1>4, <1>a DEF SaveThrows
    <2>4. f.items[f.saved + 1] \in Requests /\ f.via \in Relayer
      BY <2>3, FlightTypes
    <2>5. nonce[f.items[f.saved + 1]] \in Nat
      BY <2>4 DEF PTypeOK
    <2>6. confirmed' \in [Relayer -> Nat] /\ inFlight' \in [Relayer -> Nat]
      BY <2>3, <2>4, <2>5, TypeConfirm
    <2>7. QED BY <2>1, <2>2, <2>6, TypeLand DEF PTypeOK, evars
  <1>5. QED BY <1>1, <1>2, <1>3, <1>4 DEF FlightEnds

LEMMA TypeCrash ==
  ASSUME PTypeOK, Crash
  PROVE  PTypeOK'
  <1>1. <<>> \in Seq(Requests)
    OBVIOUS
  <1>2. crashes' \in 0 .. MaxCrashes
    BY PipelineAssumption DEF Crash, PTypeOK
  <1>3. call' \in [Requests -> Stages]
    BY DEF Crash, PTypeOK, Stages, Decided
  <1>4. records' \in [Payments -> Nat]
    BY DEF Crash, PTypeOK
  <1>5. QED BY <1>1, <1>2, <1>3, <1>4, RelayerType DEF Crash, PTypeOK

-----------------------------------------------------------------------------
(* Where the requests are.                                                 *)

\* A call that is not in a batch changes its state outside the batches.
LEMMA OutsidePlace ==
  ASSUME PTypeOK, PlaceInv, NEW r \in Requests,
         NEW v \in {"lookup", "ok", "saturated", "rejected", "signing"},
         call[r] \in {"none", "lookup", "signing"},
         call' = [call EXCEPT ![r] = v],
         \A s \in Requests : s # r => via'[s] = via[s],
         UNCHANGED <<batch, timer, flights>>
  PROVE  PlaceInv'
  <1>1. /\ call'[r] = v
        /\ \A s \in Requests : s # r => call'[s] = call[s]
    BY DEF PTypeOK
  <1>2. \A a \in Relayer : Items(batch[a]) \subseteq Requests
    BY ItemsType DEF PTypeOK
  <1>3. \A f \in flights : Items(f.items) \subseteq Requests
    BY FlightTypes
  <1>4. BatchInv'
    <2>1. ASSUME NEW a \in Relayer, NEW s \in Items(batch[a])
          PROVE  call'[s] = "batched" /\ via'[s] = a
      <3>1. s \in Requests /\ call[s] = "batched" /\ via[s] = a
        BY <2>1, <1>2 DEF PlaceInv, BatchInv
      <3>2. s # r
        BY <3>1
      <3>3. QED BY <3>1, <3>2, <1>1
    <2>2. ASSUME NEW s \in Requests, call'[s] = "batched"
          PROVE  s \in Items(batch[via'[s]])
      <3>1. s # r
        BY <2>2, <1>1
      <3>2. QED BY <3>1, <2>2, <1>1 DEF PlaceInv, BatchInv
    <2>3. QED BY <2>1, <2>2 DEF PlaceInv, BatchInv
  <1>5. FlightInv'
    <2>1. ASSUME NEW f \in flights, NEW s \in Items(f.items)
          PROVE  s # r /\ call'[s] = call[s]
      <3>1. s \in Requests /\ call[s] \in {"flushed", "ok"}
        BY <2>1, <1>3 DEF PlaceInv, FlightInv
      <3>2. QED BY <3>1, <1>1
    <2>2. ASSUME NEW f \in flights, NEW j \in 1 .. f.saved - 1
          PROVE  f.items[j] \in Items(f.items)
      <3>1. f.saved \in Nat /\ Len(f.items) \in Nat /\ f.saved <= Len(f.items)
        BY FlightTypes DEF PlaceInv, FlightInv
      <3>2. j \in 1 .. Len(f.items)
        BY <3>1
      <3>3. QED BY <3>2 DEF Items
    <2>3. ASSUME NEW s \in Requests, call'[s] = "flushed"
          PROVE  \E f \in flights : s \in Items(f.items)
      <3>1. s # r
        BY <2>3, <1>1
      <3>2. QED BY <3>1, <2>3, <1>1 DEF PlaceInv, FlightInv
    <2>4. \A f \in flights : \A j \in 1 .. Len(f.items) : f.items[j] \in Items(f.items)
      BY DEF Items
    <2>5. QED BY <2>1, <2>2, <2>3, <2>4 DEF PlaceInv, FlightInv
  <1>6. QED BY <1>4, <1>5 DEF PlaceInv, Apart

\* A signed request waits in its relayer's batch.
LEMMA BatchedPlace ==
  ASSUME PTypeOK, PlaceInv, NEW r \in Requests, NEW a \in Relayer,
         call[r] = "signing", via[r] = a,
         Len(Append(batch[a], r)) < BatchSize,
         batch' = [batch EXCEPT ![a] = Append(batch[a], r)],
         timer' = [timer EXCEPT ![a] = TRUE],
         Tell(r, "batched"),
         UNCHANGED <<via, flights>>
  PROVE  PlaceInv'
  <1>1. /\ call'[r] = "batched"
        /\ \A s \in Requests : s # r => call'[s] = call[s]
    BY DEF PTypeOK, Tell
  <1>2. \A b \in Relayer : Items(batch[b]) \subseteq Requests
    BY ItemsType DEF PTypeOK
  <1>3. \A f \in flights : Items(f.items) \subseteq Requests
    BY FlightTypes
  <1>4. /\ batch'[a] = Append(batch[a], r) /\ timer'[a] = TRUE
        /\ \A b \in Relayer : b # a => batch'[b] = batch[b] /\ timer'[b] = timer[b]
    BY DEF PTypeOK
  <1>5. Items(batch'[a]) = Items(batch[a]) \cup {r}
    BY <1>4, ItemsAppend DEF PTypeOK
  <1>6. BatchInv'
    <2>1. ASSUME NEW b \in Relayer, NEW s \in Items(batch'[b])
          PROVE  call'[s] = "batched" /\ via'[s] = b
      <3>1. CASE s = r /\ b = a
        BY <3>1, <1>1
      <3>2. CASE ~(s = r /\ b = a)
        <4>1. s \in Items(batch[b])
          <5>1. CASE b = a
            BY <5>1, <3>2, <2>1, <1>5
          <5>2. CASE b # a
            BY <5>2, <2>1, <1>4
          <5>3. QED BY <5>1, <5>2
        <4>2. s \in Requests /\ call[s] = "batched" /\ via[s] = b
          BY <4>1, <1>2 DEF PlaceInv, BatchInv
        <4>3. QED BY <4>2, <1>1
      <3>3. QED BY <3>1, <3>2
    <2>2. ASSUME NEW b \in Relayer
          PROVE  /\ Distinct(batch'[b])
                 /\ Len(batch'[b]) < BatchSize /\ (batch'[b] # <<>> => timer'[b])
      <3>1. CASE b = a
        <4>1. r \notin Items(batch[a]) /\ batch[a] \in Seq(Requests) /\ Distinct(batch[a])
          BY DEF PlaceInv, BatchInv, PTypeOK
        <4>2. Distinct(batch'[a])
          BY <4>1, <1>4, DistinctAppend
        <4>3. QED BY <3>1, <4>2, <1>4
      <3>2. CASE b # a
        BY <3>2, <1>4 DEF PlaceInv, BatchInv
      <3>3. QED BY <3>1, <3>2
    <2>3. ASSUME NEW s \in Requests, call'[s] = "batched"
          PROVE  s \in Items(batch'[via'[s]])
      <3>1. CASE s = r
        BY <3>1, <1>5
      <3>2. CASE s # r
        <4>1. s \in Items(batch[via[s]]) /\ via[s] \in Relayer
          BY <3>2, <2>3, <1>1 DEF PlaceInv, BatchInv, PTypeOK
        <4>2. CASE via[s] = a
          BY <4>1, <4>2, <1>5
        <4>3. CASE via[s] # a
          BY <4>1, <4>3, <1>4
        <4>4. QED BY <4>2, <4>3
      <3>3. QED BY <3>1, <3>2
    <2>4. QED BY <2>1, <2>2, <2>3 DEF BatchInv
  <1>7. FlightInv'
    <2>1. ASSUME NEW f \in flights, NEW s \in Items(f.items)
          PROVE  call'[s] = call[s]
      <3>1. s \in Requests /\ call[s] \in {"flushed", "ok"}
        BY <2>1, <1>3 DEF PlaceInv, FlightInv
      <3>2. QED BY <3>1, <1>1
    <2>2. ASSUME NEW f \in flights, NEW j \in 1 .. f.saved - 1
          PROVE  f.items[j] \in Items(f.items)
      <3>1. f.saved \in Nat /\ Len(f.items) \in Nat /\ f.saved <= Len(f.items)
        BY FlightTypes DEF PlaceInv, FlightInv
      <3>2. j \in 1 .. Len(f.items)
        BY <3>1
      <3>3. QED BY <3>2 DEF Items
    <2>3. ASSUME NEW s \in Requests, call'[s] = "flushed"
          PROVE  \E f \in flights : s \in Items(f.items)
      <3>1. s # r
        BY <2>3, <1>1
      <3>2. QED BY <3>1, <2>3, <1>1 DEF PlaceInv, FlightInv
    <2>4. \A f \in flights : \A j \in 1 .. Len(f.items) : f.items[j] \in Items(f.items)
      BY DEF Items
    <2>5. QED BY <2>1, <2>2, <2>3, <2>4 DEF PlaceInv, FlightInv
  <1>8. QED BY <1>6, <1>7 DEF PlaceInv, Apart

\* A batch, with the request that filled it, leaves as one flight.
LEMMA FlushPlace ==
  ASSUME PTypeOK, PlaceInv, NEW a \in Relayer, NEW s \in Seq(Requests),
         Len(s) > 0, Distinct(s),
         \A r \in Items(s) : call[r] \in {"signing", "batched"} /\ via[r] = a,
         Items(batch[a]) \subseteq Items(s),
         Flush(a, s), UNCHANGED via
  PROVE  PlaceInv'
  <1> DEFINE g == [via |-> a, items |-> s, saved |-> 0]
  <1>0. /\ g.items = s /\ g.saved = 0
        /\ flights' = flights \cup {g}
    BY DEF Flush
  <1> HIDE DEF g
  <1>1. /\ \A r \in Requests : r \in Items(s) => call'[r] = "flushed"
        /\ \A r \in Requests : r \notin Items(s) => call'[r] = call[r]
        /\ Items(s) \subseteq Requests
    BY ItemsType DEF Flush
  <1>2. \A b \in Relayer : Items(batch[b]) \subseteq Requests
    BY ItemsType DEF PTypeOK
  <1>3. \A f \in flights : Items(f.items) \subseteq Requests
    BY FlightTypes
  <1>4. /\ batch'[a] = <<>>
        /\ \A b \in Relayer : b # a => batch'[b] = batch[b] /\ timer'[b] = timer[b]
    BY DEF PTypeOK, Flush
  <1>5. \A f \in flights : Items(f.items) \cap Items(s) = {}
    BY <1>3 DEF PlaceInv, FlightInv
  <1>6. BatchInv'
    <2>1. ASSUME NEW b \in Relayer, NEW r \in Items(batch'[b])
          PROVE  call'[r] = "batched" /\ via'[r] = b
      <3>1. b # a
        BY <2>1, <1>4, ItemsEmpty
      <3>2. r \in Items(batch[b]) /\ r \in Requests
        BY <2>1, <3>1, <1>4, <1>2
      <3>3. call[r] = "batched" /\ via[r] = b
        BY <3>2 DEF PlaceInv, BatchInv
      <3>4. r \notin Items(s)
        BY <3>1, <3>3
      <3>5. QED BY <3>2, <3>3, <3>4, <1>1
    <2>2. ASSUME NEW b \in Relayer
          PROVE  /\ Distinct(batch'[b])
                 /\ Len(batch'[b]) < BatchSize /\ (batch'[b] # <<>> => timer'[b])
      <3>1. CASE b = a
        <4>1. Len(<<>>) = 0 /\ Distinct(<<>>)
          BY DEF Distinct
        <4>2. QED BY <3>1, <4>1, <1>4, PipelineAssumption
      <3>2. CASE b # a
        BY <3>2, <1>4 DEF PlaceInv, BatchInv
      <3>3. QED BY <3>1, <3>2
    <2>3. ASSUME NEW r \in Requests, call'[r] = "batched"
          PROVE  r \in Items(batch'[via'[r]])
      <3>1. r \notin Items(s) /\ call[r] = "batched"
        BY <2>3, <1>1
      <3>2. r \in Items(batch[via[r]]) /\ via[r] \in Relayer
        BY <3>1 DEF PlaceInv, BatchInv, PTypeOK
      <3>3. via[r] # a
        BY <3>1, <3>2
      <3>4. QED BY <3>2, <3>3, <1>4
    <2>4. QED BY <2>1, <2>2, <2>3 DEF BatchInv
  <1>7. FlightInv'
    <2>1. ASSUME NEW f \in flights
          PROVE  /\ Len(f.items) > 0 /\ f.saved <= Len(f.items)
                 /\ \A r \in Items(f.items) : call'[r] \in {"flushed", "ok"}
                 /\ \A j \in 1 .. f.saved - 1 : call'[f.items[j]] = "ok"
                 /\ \A j \in 1 .. Len(f.items) : j >= f.saved => call'[f.items[j]] = "flushed"
                 /\ Distinct(f.items)
      <3>1. ASSUME NEW r \in Items(f.items)
            PROVE  call'[r] = call[r]
        BY <3>1, <1>1, <1>3, <1>5
      <3>2. ASSUME NEW j \in 1 .. f.saved - 1
            PROVE  f.items[j] \in Items(f.items)
        <4>1. f.saved \in Nat /\ Len(f.items) \in Nat /\ f.saved <= Len(f.items)
          BY FlightTypes DEF PlaceInv, FlightInv
        <4>2. j \in 1 .. Len(f.items)
          BY <4>1
        <4>3. QED BY <4>2 DEF Items
      <3>3. \A j \in 1 .. Len(f.items) : f.items[j] \in Items(f.items)
        BY DEF Items
      <3>4. QED BY <3>1, <3>2, <3>3 DEF PlaceInv, FlightInv
    <2>2. /\ Len(g.items) > 0 /\ g.saved <= Len(g.items)
          /\ \A r \in Items(g.items) : call'[r] \in {"flushed", "ok"}
          /\ \A j \in 1 .. g.saved - 1 : call'[g.items[j]] = "ok"
          /\ \A j \in 1 .. Len(g.items) : j >= g.saved => call'[g.items[j]] = "flushed"
          /\ Distinct(g.items)
      <3>1. \A j \in 1 .. Len(s) : s[j] \in Items(s)
        BY DEF Items
      <3>2. QED BY <3>1, <1>0, <1>1
    <2>3. ASSUME NEW r \in Requests, call'[r] = "flushed"
          PROVE  \E f \in flights' : r \in Items(f.items)
      <3>1. CASE r \in Items(s)
        BY <3>1, <1>0
      <3>2. CASE r \notin Items(s)
        BY <3>2, <2>3, <1>0, <1>1 DEF PlaceInv, FlightInv
      <3>3. QED BY <3>1, <3>2
    <2>4. QED BY <2>1, <2>2, <2>3, <1>0 DEF FlightInv
  <1>8. Apart'
    BY <1>0, <1>5 DEF Apart, PlaceInv
  <1>9. QED BY <1>6, <1>7, <1>8 DEF PlaceInv

\* A flight ends: each of its requests has an answer.
LEMMA LandPlace ==
  ASSUME PTypeOK, PlaceInv, NEW f \in flights,
         flights' = flights \ {f},
         \A r \in Requests : r \notin Items(f.items) => call'[r] = call[r],
         \A r \in Items(f.items) : call'[r] \in {"ok", "failed"},
         UNCHANGED <<batch, timer, via>>
  PROVE  PlaceInv'
  <1>1. \A b \in Relayer : Items(batch[b]) \subseteq Requests
    BY ItemsType DEF PTypeOK
  <1>2. \A g \in flights : Items(g.items) \subseteq Requests
    BY FlightTypes
  <1>3. \A g \in flights' : \A r \in Items(g.items) : call'[r] = call[r]
    BY <1>2 DEF PlaceInv, Apart
  <1>4. BatchInv'
    <2>1. ASSUME NEW b \in Relayer, NEW r \in Items(batch[b])
          PROVE  call'[r] = "batched" /\ via[r] = b
      <3>1. r \in Requests /\ call[r] = "batched" /\ via[r] = b
        BY <2>1, <1>1 DEF PlaceInv, BatchInv
      <3>2. r \notin Items(f.items)
        BY <3>1 DEF PlaceInv, FlightInv
      <3>3. QED BY <3>1, <3>2
    <2>2. ASSUME NEW r \in Requests, call'[r] = "batched"
          PROVE  r \in Items(batch[via[r]])
      <3>1. r \notin Items(f.items)
        BY <2>2
      <3>2. QED BY <3>1, <2>2 DEF PlaceInv, BatchInv
    <2>3. QED BY <2>1, <2>2 DEF PlaceInv, BatchInv
  <1>5. FlightInv'
    <2>1. ASSUME NEW g \in flights', NEW j \in 1 .. g.saved - 1
          PROVE  g.items[j] \in Items(g.items)
      <3>1. g.saved \in Nat /\ Len(g.items) \in Nat /\ g.saved <= Len(g.items)
        BY FlightTypes DEF PlaceInv, FlightInv
      <3>2. j \in 1 .. Len(g.items)
        BY <3>1
      <3>3. QED BY <3>2 DEF Items
    <2>2. ASSUME NEW r \in Requests, call'[r] = "flushed"
          PROVE  \E g \in flights' : r \in Items(g.items)
      <3>1. r \notin Items(f.items)
        BY <2>2
      <3>2. QED BY <3>1, <2>2 DEF PlaceInv, FlightInv
    <2>3. \A g \in flights' : \A j \in 1 .. Len(g.items) : g.items[j] \in Items(g.items)
      BY DEF Items
    <2>4. QED BY <2>1, <2>2, <2>3, <1>3 DEF PlaceInv, FlightInv
  <1>6. QED BY <1>4, <1>5 DEF PlaceInv, Apart

\* A flight goes on to save item i: the one before it has its answer.
LEMMA SavePlace ==
  ASSUME PTypeOK, PlaceInv, NEW f \in flights, NEW i \in 1 .. Len(f.items),
         i = f.saved + 1,
         flights' = (flights \ {f}) \cup {[f EXCEPT !.saved = i]},
         \A r \in Requests : call'[r] = call[r] \/ (i > 1 /\ r = f.items[i - 1]),
         i > 1 => call'[f.items[i - 1]] = "ok",
         UNCHANGED <<batch, timer, via>>
  PROVE  PlaceInv'
  <1> DEFINE h == [f EXCEPT !.saved = i]
  <1>0. h.items = f.items /\ h.saved = i /\ flights' = (flights \ {f}) \cup {h}
    <2>1. h = [via |-> f.via, items |-> f.items, saved |-> i]
      BY MovedFlight
    <2>2. QED BY <2>1
  <1> HIDE DEF h
  <1>1. \A b \in Relayer : Items(batch[b]) \subseteq Requests
    BY ItemsType DEF PTypeOK
  <1>2. \A g \in flights : Items(g.items) \subseteq Requests
    BY FlightTypes
  <1>a. /\ Len(f.items) \in Nat /\ f.saved \in Nat
        /\ \A j \in 1 .. Len(f.items) : f.items[j] \in Requests /\ f.items[j] \in Items(f.items)
    BY FlightTypes DEF Items
  <1>b. /\ \A r \in Requests : r \notin Items(f.items) => call'[r] = call[r]
        /\ \A r \in Requests : call'[r] = call[r] \/ call'[r] = "ok"
    <2>1. i > 1 => i - 1 \in 1 .. Len(f.items)
      BY <1>a
    <2>2. QED BY <2>1, <1>a
  <1>3. \A g \in flights : g # f => \A r \in Items(g.items) : call'[r] = call[r]
    BY <1>2, <1>b DEF PlaceInv, Apart
  <1>4. \A r \in Items(f.items) : call'[r] \in {"flushed", "ok"}
    BY <1>2, <1>b DEF PlaceInv, FlightInv
  <1>5. BatchInv'
    <2>1. ASSUME NEW b \in Relayer, NEW r \in Items(batch[b])
          PROVE  call'[r] = "batched" /\ via[r] = b
      <3>1. r \in Requests /\ call[r] = "batched" /\ via[r] = b
        BY <2>1, <1>1 DEF PlaceInv, BatchInv
      <3>2. r \notin Items(f.items)
        BY <3>1 DEF PlaceInv, FlightInv
      <3>3. QED BY <3>1, <3>2, <1>b
    <2>2. ASSUME NEW r \in Requests, call'[r] = "batched"
          PROVE  r \in Items(batch[via[r]])
      BY <2>2, <1>b DEF PlaceInv, BatchInv
    <2>3. QED BY <2>1, <2>2 DEF PlaceInv, BatchInv
  <1>6. FlightInv'
    <2>1. ASSUME NEW g \in flights, g # f
          PROVE  /\ Len(g.items) > 0 /\ g.saved <= Len(g.items)
                 /\ \A r \in Items(g.items) : call'[r] \in {"flushed", "ok"}
                 /\ \A j \in 1 .. g.saved - 1 : call'[g.items[j]] = "ok"
                 /\ \A j \in 1 .. Len(g.items) : j >= g.saved => call'[g.items[j]] = "flushed"
                 /\ Distinct(g.items)
      <3>1. ASSUME NEW j \in 1 .. g.saved - 1
            PROVE  g.items[j] \in Items(g.items)
        <4>1. g.saved \in Nat /\ Len(g.items) \in Nat /\ g.saved <= Len(g.items)
          BY FlightTypes DEF PlaceInv, FlightInv
        <4>2. j \in 1 .. Len(g.items)
          BY <4>1
        <4>3. QED BY <4>2 DEF Items
      <3>2. \A r \in Items(g.items) : call'[r] = call[r]
        BY <1>3, <2>1
      <3>3. \A j \in 1 .. Len(g.items) : g.items[j] \in Items(g.items)
        BY DEF Items
      <3>4. QED BY <3>1, <3>2, <3>3 DEF PlaceInv, FlightInv
    <2>2. /\ Len(h.items) > 0 /\ h.saved <= Len(h.items)
          /\ \A r \in Items(h.items) : call'[r] \in {"flushed", "ok"}
          /\ \A j \in 1 .. h.saved - 1 : call'[h.items[j]] = "ok"
          /\ \A j \in 1 .. Len(h.items) : j >= h.saved => call'[h.items[j]] = "flushed"
          /\ Distinct(h.items)
      <3>1. ASSUME NEW j \in 1 .. i - 1
            PROVE  call'[f.items[j]] = "ok"
        <4>1. CASE j = i - 1
          BY <4>1
        <4>2. CASE j # i - 1
          <5>1. j \in 1 .. f.saved - 1 /\ j \in 1 .. Len(f.items)
            BY <4>2, <1>a
          <5>2. call[f.items[j]] = "ok"
            BY <5>1 DEF PlaceInv, FlightInv
          <5>3. QED BY <5>1, <5>2, <1>a
        <4>3. QED BY <4>1, <4>2
      <3>2. ASSUME NEW j \in 1 .. Len(f.items), j >= i
            PROVE  call'[f.items[j]] = "flushed"
        <4>1. call[f.items[j]] = "flushed"
          BY <3>2, <1>a DEF PlaceInv, FlightInv
        <4>2. CASE i > 1
          <5>1. i - 1 \in 1 .. Len(f.items) /\ j # i - 1
            BY <3>2, <4>2, <1>a
          <5>2. f.items[j] # f.items[i - 1]
            BY <5>1 DEF PlaceInv, FlightInv, Distinct
          <5>3. QED BY <5>2, <4>1, <1>a
        <4>3. CASE ~(i > 1)
          BY <4>1, <4>3, <1>a
        <4>4. QED BY <4>2, <4>3
      <3>3. Distinct(f.items) /\ Len(f.items) > 0
        BY DEF PlaceInv, FlightInv
      <3>4. QED BY <3>1, <3>2, <3>3, <1>0, <1>4, <1>a
    <2>3. ASSUME NEW r \in Requests, call'[r] = "flushed"
          PROVE  \E g \in flights' : r \in Items(g.items)
      <3>1. call[r] = "flushed"
        BY <2>3, <1>b
      <3>2. PICK g \in flights : r \in Items(g.items)
        BY <3>1 DEF PlaceInv, FlightInv
      <3>3. CASE g = f
        BY <3>3, <3>2, <1>0
      <3>4. CASE g # f
        BY <3>4, <3>2, <1>0
      <3>5. QED BY <3>3, <3>4
    <2>4. QED BY <2>1, <2>2, <2>3, <1>0 DEF FlightInv
  <1>7. Apart'
    BY <1>0 DEF PlaceInv, Apart
  <1>8. QED BY <1>5, <1>6, <1>7 DEF PlaceInv

-----------------------------------------------------------------------------
(* Nonces.                                                                 *)

\* A step in which every call that changes was on its way.
LEMMA CollisionsKept ==
  ASSUME NoCollisions,
         \A r \in Requests : call'[r] = call[r] \/ call[r] \in OnTheWay,
         UNCHANGED <<via, nonce, next, found, crashes>>
  PROVE  NoCollisions'
  <1>1. \A r \in Requests : Reserved(r)' => Reserved(r)
    BY DEF Reserved, OnTheWay
  <1>2. QED BY <1>1 DEF NoCollisions

LEMMA CollisionsReserve ==
  ASSUME PTypeOK, NoCollisions, NEW r \in Requests, Reserve(r)
  PROVE  NoCollisions'
  <1>1. /\ turn \in Relayer /\ next[turn] \in Nat
        /\ via'[r] = turn /\ nonce'[r] = next[turn] /\ next'[turn] = next[turn] + 1
        /\ \A a \in Relayer : a # turn => next'[a] = next[a]
        /\ \A s \in Requests : s # r =>
             via'[s] = via[s] /\ nonce'[s] = nonce[s] /\ call'[s] = call[s]
        /\ UNCHANGED <<found, crashes>>
    BY DEF Reserve, Tell, PTypeOK, evars
  <1>2. \A s \in Requests : via[s] \in Relayer /\ nonce[s] \in Nat /\ next[via[s]] \in Nat
    BY DEF PTypeOK
  <1>b. \A s \in Requests : s # r /\ Reserved(s)' => Reserved(s)
    BY <1>1 DEF Reserved
  <1>3. ASSUME NEW s \in Requests, s # r, Reserved(s)'
        PROVE  /\ nonce'[s] < next'[via'[s]]
               /\ via'[s] = turn => nonce'[s] < nonce'[r]
    <2>1. nonce[s] < next[via[s]]
      BY <1>3, <1>b DEF NoCollisions
    <2>2. CASE via[s] = turn
      BY <2>1, <2>2, <1>1, <1>2, <1>3
    <2>3. CASE via[s] # turn
      BY <2>1, <2>3, <1>1, <1>2, <1>3
    <2>4. QED BY <2>2, <2>3
  <1>4. nonce'[r] < next'[via'[r]]
    BY <1>1
  <1>5. ASSUME NEW s \in Requests, NEW q \in Requests, s # q,
               Reserved(s)', Reserved(q)', via'[s] = via'[q]
        PROVE  nonce'[s] # nonce'[q]
    <2>1. CASE s # r /\ q # r
      BY <2>1, <1>5, <1>1, <1>b DEF NoCollisions
    <2>2. CASE s = r
      <3>1. nonce'[q] < nonce'[r] /\ nonce'[q] \in Nat
        BY <2>2, <1>5, <1>3, <1>1, <1>2
      <3>2. QED BY <3>1, <2>2, <1>1
    <2>3. CASE q = r
      <3>1. nonce'[s] < nonce'[r] /\ nonce'[s] \in Nat
        BY <2>3, <1>5, <1>3, <1>1, <1>2
      <3>2. QED BY <3>1, <2>3, <1>1
    <2>4. QED BY <2>1, <2>2, <2>3
  <1>6. QED BY <1>3, <1>4, <1>5 DEF NoCollisions

-----------------------------------------------------------------------------
(* Records.                                                                *)

Informed(r) == call[r] = "ok" \/ (call[r] = "lookup" /\ found[r])

\* A step that writes no record and tells of success only what is recorded.
LEMMA RecordsKept ==
  ASSUME RecordInv,
         \A f \in flights' : f \in flights \/ f.saved = 0,
         records' = records, chain \subseteq chain',
         \A r \in Requests : Informed(r)' => Informed(r) \/ records[Pay[r]] > 0,
         \A s \in Requests : Accountable(s) => Accountable(s)'
  PROVE  RecordInv'
  <1>1. SavedInv'
    BY DEF RecordInv, SavedInv
  <1>2. AnswerInv'
    <2>1. \A r \in Requests : Durable => (Informed(r) => records[Pay[r]] > 0)
      BY DEF RecordInv, AnswerInv, Informed
    <2>2. \A r \in Requests : Durable => (Informed(r)' => records'[Pay[r]] > 0)
      BY <2>1
    <2>3. QED BY <2>2 DEF AnswerInv, Informed, Durable
  <1>3. MakerInv'
    BY DEF RecordInv, MakerInv
  <1>4. QED BY <1>1, <1>2, <1>3 DEF RecordInv

\* No call forgets that it made a record, when decided calls stay decided and
\* the flights go on.
LEMMA AccountsKept ==
  ASSUME \A s \in Requests : call[s] \in {"ok", "lost"} => call'[s] = call[s],
         flights \subseteq flights'
  PROVE  \A s \in Requests : Accountable(s) => Accountable(s)'
  BY DEF Accountable

\* The save of item i, which the network has taken, is made.
LEMMA RecordsSaved ==
  ASSUME PTypeOK, RecordInv, FlightInv, NEW f \in flights, NEW i \in 1 .. Len(f.items),
         i = f.saved + 1,
         SaveItem(f, i),
         \A r \in Items(f.items) : Pay[r] \in chain,
         \A r \in Requests : call'[r] = call[r] \/ (i > 1 /\ r = f.items[i - 1] /\ call'[r] = "ok"),
         UNCHANGED <<found, chain>>
  PROVE  RecordInv'
  <1> DEFINE h == [f EXCEPT !.saved = i]
  <1>0. h.items = f.items /\ h.saved = i /\ flights' = (flights \ {f}) \cup {h}
    <2>1. h = [via |-> f.via, items |-> f.items, saved |-> i]
      BY MovedFlight
    <2>2. QED BY <2>1 DEF SaveItem
  <1> HIDE DEF h
  <1>a. /\ Len(f.items) \in Nat /\ f.saved \in Nat
        /\ \A j \in 1 .. Len(f.items) : f.items[j] \in Requests /\ f.items[j] \in Items(f.items)
    BY FlightTypes DEF Items
  <1> DEFINE p == Pay[f.items[i]]
  <1>1. /\ p \in Payments /\ p \in chain /\ p = Pay[f.items[i]]
        /\ records' = [records EXCEPT ![p] = IF Backend = "sqlite" THEN 1 ELSE records[p] + 1]
    BY <1>a, PayType DEF SaveItem, Save
  <1> HIDE DEF p
  <1>2. /\ records'[p] > 0
        /\ \A q \in Payments : q # p => records'[q] = records[q]
    BY <1>1 DEF PTypeOK
  <1>3. \A q \in Payments : records[q] > 0 => records'[q] > 0
    BY <1>2
  <1>b. \A g \in flights : \A j \in 1 .. g.saved : Pay[g.items[j]] \in Payments
    <2> SUFFICES ASSUME NEW g \in flights, NEW j \in 1 .. g.saved
                 PROVE  Pay[g.items[j]] \in Payments
      OBVIOUS
    <2>1. g.saved \in Nat /\ g.items \in Seq(Requests) /\ g.saved <= Len(g.items)
      BY FlightTypes DEF FlightInv
    <2>2. g.items[j] \in Requests
      BY <2>1
    <2>3. QED BY <2>2, PayType
  <1>c. \A j \in 1 .. f.saved : records[Pay[f.items[j]]] > 0
    <2> SUFFICES ASSUME NEW j \in 1 .. f.saved
                 PROVE  records[Pay[f.items[j]]] > 0
      OBVIOUS
    <2>1. f.saved > 0
      BY <1>a
    <2>2. SavedInv
      BY DEF RecordInv
    <2>3. \A k \in 1 .. f.saved : records[Pay[f.items[k]]] > 0
      BY <2>1, <2>2 DEF SavedInv
    <2>4. QED BY <2>3
  <1>4. SavedInv'
    <2>1. ASSUME NEW g \in flights, g.saved > 0
          PROVE  /\ \A r \in Items(g.items) : Pay[r] \in chain
                 /\ \A j \in 1 .. g.saved : records'[Pay[g.items[j]]] > 0
      BY <2>1, <1>3, <1>b DEF RecordInv, SavedInv
    <2>2. /\ \A r \in Items(h.items) : Pay[r] \in chain
          /\ \A j \in 1 .. h.saved : records'[Pay[h.items[j]]] > 0
      <3>1. ASSUME NEW j \in 1 .. i
            PROVE  records'[Pay[f.items[j]]] > 0
        <4>1. CASE j = i
          BY <4>1, <1>1, <1>2
        <4>2. CASE j # i
          <5>1. j \in 1 .. f.saved
            BY <4>2, <1>a
          <5>2. records[Pay[f.items[j]]] > 0 /\ Pay[f.items[j]] \in Payments
            BY <5>1, <1>b, <1>c
          <5>3. QED BY <5>2, <1>3
        <4>3. QED BY <4>1, <4>2
      <3>2. QED BY <3>1, <1>0
    <2>3. ASSUME NEW q \in Payments, records'[q] > 0
          PROVE  q \in chain
      BY <2>3, <1>1, <1>2 DEF RecordInv, SavedInv
    <2>4. QED BY <2>1, <2>2, <2>3, <1>0 DEF SavedInv
  <1>5. AnswerInv'
    <2> SUFFICES ASSUME Durable, NEW r \in Requests,
                        call'[r] = "ok" \/ (call'[r] = "lookup" /\ found[r])
                 PROVE  records'[Pay[r]] > 0
      BY DEF AnswerInv, Durable
    <2>1. CASE call'[r] = call[r]
      <3>1. records[Pay[r]] > 0
        BY <2>1 DEF RecordInv, AnswerInv
      <3>2. QED BY <3>1, <1>3, PayType
    <2>2. CASE i > 1 /\ r = f.items[i - 1]
      <3>1. i - 1 \in 1 .. f.saved
        BY <2>2, <1>a
      <3>2. QED BY <3>1, <2>2, <1>c, <1>3, PayType
    <2>3. QED BY <2>1, <2>2
  <1>6. MakerInv'
    <2>1. ASSUME NEW s \in Requests, Accountable(s)
          PROVE  Accountable(s)'
      <3>1. CASE call[s] \in {"ok", "lost"}
        BY <3>1 DEF Accountable
      <3>2. CASE \E g \in flights : \E j \in 1 .. g.saved : g.items[j] = s
        <4>1. PICK g \in flights : \E j \in 1 .. g.saved : g.items[j] = s
          BY <3>2
        <4>2. PICK j \in 1 .. g.saved : g.items[j] = s
          BY <4>1
        <4>3. CASE g = f
          <5>1. j \in 1 .. h.saved /\ h.items[j] = s /\ h \in flights'
            BY <4>2, <4>3, <1>0, <1>a
          <5>2. QED BY <5>1 DEF Accountable
        <4>4. CASE g # f
          <5>1. g \in flights'
            BY <4>4, <1>0
          <5>2. QED BY <5>1, <4>2 DEF Accountable
        <4>5. QED BY <4>3, <4>4
      <3>3. QED BY <2>1, <3>1, <3>2 DEF Accountable
    <2>2. f.items[i] \in Requests /\ Accountable(f.items[i])'
      <3>1. i \in 1 .. h.saved /\ h.items[i] = f.items[i] /\ h \in flights'
        BY <1>0, <1>a
      <3>2. QED BY <3>1, <1>a DEF Accountable
    <2>3. ASSUME NEW q \in Payments, records'[q] > 0
          PROVE  \E s \in Requests : Pay[s] = q /\ Accountable(s)'
      <3>1. CASE q = p
        BY <3>1, <2>2, <1>1
      <3>2. CASE q # p
        <4>1. records[q] > 0
          BY <3>2, <2>3, <1>2
        <4>2. PICK s \in Requests : Pay[s] = q /\ Accountable(s)
          BY <4>1 DEF RecordInv, MakerInv
        <4>3. QED BY <4>2, <2>1
      <3>3. QED BY <3>1, <3>2
    <2>4. QED BY <2>3 DEF MakerInv
  <1>7. QED BY <1>4, <1>5, <1>6 DEF RecordInv

-----------------------------------------------------------------------------
(* The steps.                                                              *)

LEMMA InitInv == Init => PipeInv
  <1> SUFFICES ASSUME Init PROVE PipeInv
    OBVIOUS
  <1>1. PTypeOK
    BY TypeInit
  <1>2. PlaceInv
    <2>1. Len(<<>>) = 0 /\ Distinct(<<>>) /\ \A a \in Relayer : batch[a] = <<>>
      BY DEF Init, Distinct
    <2>2. QED BY <2>1, ItemsEmpty, PipelineAssumption
             DEF Init, PlaceInv, BatchInv, FlightInv, Apart
  <1>3. NoCollisions
    BY DEF Init, NoCollisions, Reserved, OnTheWay
  <1>4. RecordInv
    BY DEF Init, RecordInv, SavedInv, AnswerInv, MakerInv
  <1>5. QED BY <1>1, <1>2, <1>3, <1>4 DEF PipeInv

\* The steps of settle() that keep out of the batches.
LEMMA OutsideInv ==
  ASSUME PipeInv, NEW r \in Requests,
         Arrive(r) \/ Known(r) \/ Saturated(r) \/ SignFails(r)
  PROVE  PlaceInv' /\ NoCollisions' /\ RecordInv'
  <1>a. PTypeOK /\ PlaceInv /\ NoCollisions /\ RecordInv
    BY DEF PipeInv
  <1>1. /\ call[r] \in {"none", "lookup", "signing"}
        /\ UNCHANGED <<via, nonce, next, batch, timer, flights, records, chain, crashes>>
    BY DEF Arrive, Known, Saturated, SignFails, qvars, nvars, evars
  <1>2. PICK v \in {"lookup", "ok", "saturated", "rejected"} :
          /\ call' = [call EXCEPT ![r] = v]
          /\ v = "lookup" => Arrive(r)
          /\ v = "ok" => Known(r)
          /\ v = "rejected" => SignFails(r)
          /\ v # "lookup" => UNCHANGED found
    BY DEF Arrive, Known, Saturated, SignFails, Tell
  <1>3. PlaceInv'
    <2>1. /\ v \in {"lookup", "ok", "saturated", "rejected", "signing"}
          /\ call' = [call EXCEPT ![r] = v]
      BY <1>2
    <2>2. \A s \in Requests : s # r => via'[s] = via[s]
      BY <1>1
    <2>3. QED BY <2>1, <2>2, <1>a, <1>1, OutsidePlace
  <1>4. /\ call'[r] = v
        /\ \A s \in Requests : s # r => call'[s] = call[s]
    BY <1>a, <1>2 DEF PTypeOK
  <1>5. ASSUME NEW s \in Requests, Reserved(s)'
        PROVE  Reserved(s)
    <2>1. CASE s = r
      <3>1. CASE v = "ok"
        <4>1. found'[r]
          BY <3>1, <1>2 DEF Known
        <4>2. QED BY <4>1, <3>1, <2>1, <1>5, <1>4 DEF Reserved, OnTheWay
      <3>2. CASE v = "rejected"
        BY <3>2, <2>1, <1>2 DEF SignFails, Reserved, OnTheWay
      <3>3. CASE v \in {"lookup", "saturated"}
        BY <3>3, <2>1, <1>5, <1>4 DEF Reserved, OnTheWay
      <3>4. QED BY <3>1, <3>2, <3>3
    <2>2. CASE s # r
      <3>1. found'[s] = found[s]
        BY <2>2, <1>2, <1>a DEF Arrive, PTypeOK
      <3>2. QED BY <3>1, <2>2, <1>5, <1>1, <1>4 DEF Reserved
    <2>3. QED BY <2>1, <2>2
  <1>6. NoCollisions'
    BY <1>a, <1>1, <1>5 DEF NoCollisions
  <1>7. \A s \in Requests : Accountable(s) => Accountable(s)'
    BY <1>1, <1>4, AccountsKept
  <1>8. ASSUME NEW s \in Requests, Informed(s)'
        PROVE  Informed(s) \/ records[Pay[s]] > 0
    <2>1. CASE s = r
      <3>1. CASE v = "ok"
        BY <3>1, <2>1, <1>2 DEF Known, Informed
      <3>2. CASE v = "lookup"
        <4>1. found'[r] = (records[Pay[r]] > 0)
          BY <3>2, <1>2, <1>a DEF Arrive, PTypeOK
        <4>2. found'[r]
          BY <1>8, <2>1, <3>2, <1>4 DEF Informed
        <4>3. QED BY <4>1, <4>2, <2>1
      <3>3. CASE v \in {"saturated", "rejected"}
        BY <3>3, <2>1, <1>8, <1>4 DEF Informed
      <3>4. QED BY <3>1, <3>2, <3>3
    <2>2. CASE s # r
      <3>1. found'[s] = found[s]
        BY <2>2, <1>2, <1>a DEF Arrive, PTypeOK
      <3>2. QED BY <3>1, <2>2, <1>8, <1>4 DEF Informed
    <2>3. QED BY <2>1, <2>2
  <1>9. RecordInv'
    BY <1>a, <1>1, <1>7, <1>8, RecordsKept
  <1>10. QED BY <1>3, <1>6, <1>9

LEMMA ReserveInv ==
  ASSUME PipeInv, NEW r \in Requests, Reserve(r)
  PROVE  PlaceInv' /\ NoCollisions' /\ RecordInv'
  <1>a. PTypeOK /\ PlaceInv /\ NoCollisions /\ RecordInv
    BY DEF PipeInv
  <1>1. /\ call[r] = "lookup"
        /\ call' = [call EXCEPT ![r] = "signing"]
        /\ UNCHANGED <<found, batch, timer, flights, records, chain>>
        /\ \A s \in Requests : s # r => via'[s] = via[s]
    BY <1>a DEF Reserve, Tell, qvars, evars, PTypeOK
  <1>2. PlaceInv'
    BY <1>a, <1>1, OutsidePlace
  <1>3. NoCollisions'
    BY <1>a, CollisionsReserve
  <1>4. /\ call'[r] = "signing"
        /\ \A s \in Requests : s # r => call'[s] = call[s]
    BY <1>a, <1>1 DEF PTypeOK
  <1>5. \A s \in Requests : Accountable(s) => Accountable(s)'
    BY <1>1, <1>4, AccountsKept
  <1>6. \A s \in Requests : Informed(s)' => Informed(s)
    BY <1>1, <1>4 DEF Informed
  <1>7. RecordInv'
    BY <1>a, <1>1, <1>5, <1>6, RecordsKept
  <1>8. QED BY <1>2, <1>3, <1>7

\* A flush makes waiting requests flushed and adds a flight that has saved
\* nothing.
LEMMA FlushInv ==
  ASSUME PipeInv, NEW a \in Relayer, NEW s \in Seq(Requests), Len(s) > 0, Distinct(s),
         \A r \in Items(s) : call[r] \in {"signing", "batched"} /\ via[r] = a,
         Items(batch[a]) \subseteq Items(s),
         Flush(a, s),
         UNCHANGED <<found, via, nonce, next, chain, records, crashes>>
  PROVE  PlaceInv' /\ NoCollisions' /\ RecordInv'
  <1>a. PTypeOK /\ PlaceInv /\ NoCollisions /\ RecordInv
    BY DEF PipeInv
  <1>1. PlaceInv'
    BY <1>a, FlushPlace
  <1>2. /\ \A r \in Requests : r \in Items(s) => call'[r] = "flushed"
        /\ \A r \in Requests : r \notin Items(s) => call'[r] = call[r]
        /\ flights' = flights \cup {[via |-> a, items |-> s, saved |-> 0]}
    BY DEF Flush
  <1>3. NoCollisions'
    <2>1. \A r \in Requests : call'[r] = call[r] \/ call[r] \in OnTheWay
      BY <1>2 DEF OnTheWay
    <2>2. QED BY <2>1, <1>a, CollisionsKept
  <1>4. \A r \in Requests : Accountable(r) => Accountable(r)'
    <2>1. \A r \in Requests : call[r] \in {"ok", "lost"} => call'[r] = call[r]
      BY <1>2
    <2>2. QED BY <2>1, <1>2, AccountsKept
  <1>5. \A r \in Requests : Informed(r)' => Informed(r)
    BY <1>2 DEF Informed
  <1>6. \A f \in flights' : f \in flights \/ f.saved = 0
    <2> DEFINE g == [via |-> a, items |-> s, saved |-> 0]
    <2>1. g.saved = 0
      OBVIOUS
    <2>2. flights' = flights \cup {g}
      BY DEF Flush
    <2> HIDE DEF g
    <2>3. QED BY <2>1, <2>2
  <1>7. RecordInv'
    BY <1>a, <1>4, <1>5, <1>6, RecordsKept
  <1>8. QED BY <1>1, <1>3, <1>7

LEMMA SignReturnsInv ==
  ASSUME PipeInv, NEW r \in Requests, SignReturns(r)
  PROVE  PlaceInv' /\ NoCollisions' /\ RecordInv'
  <1>a. PTypeOK /\ PlaceInv /\ NoCollisions /\ RecordInv
    BY DEF PipeInv
  <1>1. PICK a \in Relayer : a = via[r]
    BY <1>a DEF PTypeOK
  <1>2. batch[a] \in Seq(Requests)
    BY <1>a DEF PTypeOK
  <1>b. Append(batch[a], r) \in Seq(Requests)
    BY <1>2
  <1>3. PICK s \in Seq(Requests) : s = Append(batch[a], r)
    BY <1>b
  <1>4. Items(s) = Items(batch[a]) \cup {r} /\ Len(s) \in Nat /\ Len(s) > 0
    BY <1>2, <1>3, ItemsAppend
  <1>5. /\ call[r] = "signing"
        /\ UNCHANGED <<found, via, nonce, next, chain, records, crashes>>
    BY DEF SignReturns, nvars
  <1>6. CASE Len(s) >= BatchSize
    <2>1. Flush(a, s)
      BY <1>1, <1>3, <1>6 DEF SignReturns
    <2>2. \A q \in Items(s) : call[q] \in {"signing", "batched"} /\ via[q] = a
      BY <1>a, <1>1, <1>4, <1>5 DEF PlaceInv, BatchInv
    <2>3. Distinct(s)
      <3>1. r \notin Items(batch[a]) /\ Distinct(batch[a])
        BY <1>a, <1>5 DEF PlaceInv, BatchInv
      <3>2. QED BY <3>1, <1>2, <1>3, DistinctAppend
    <2>4. QED BY <2>1, <2>2, <2>3, <1>4, <1>5, FlushInv
  <1>7. CASE ~(Len(s) >= BatchSize)
    <2>1. /\ batch' = [batch EXCEPT ![a] = s]
          /\ timer' = [timer EXCEPT ![a] = TRUE]
          /\ Tell(r, "batched")
          /\ UNCHANGED flights
      BY <1>1, <1>3, <1>7 DEF SignReturns
    <2>2. Len(Append(batch[a], r)) < BatchSize
      BY <1>3, <1>4, <1>7, PipelineAssumption
    <2>3. PlaceInv'
      BY <1>a, <1>1, <1>3, <1>5, <2>1, <2>2, BatchedPlace
    <2>4. /\ call'[r] = "batched"
          /\ \A q \in Requests : q # r => call'[q] = call[q]
      BY <1>a, <2>1 DEF Tell, PTypeOK
    <2>5. \A q \in Requests : call'[q] = call[q] \/ call[q] \in OnTheWay
      BY <2>4, <1>5 DEF OnTheWay
    <2>6. NoCollisions'
      BY <1>a, <1>5, <2>5, CollisionsKept
    <2>7. \A q \in Requests : Accountable(q) => Accountable(q)'
      BY <1>5, <2>1, <2>4, AccountsKept
    <2>8. \A q \in Requests : Informed(q)' => Informed(q)
      BY <1>5, <2>4 DEF Informed
    <2>9. RecordInv'
      BY <1>a, <1>5, <2>1, <2>7, <2>8, RecordsKept
    <2>10. QED BY <2>3, <2>6, <2>9
  <1>8. QED BY <1>6, <1>7

LEMMA TimerInv ==
  ASSUME PipeInv, NEW a \in Relayer, TimerFires(a)
  PROVE  PlaceInv' /\ NoCollisions' /\ RecordInv'
  <1>a. PTypeOK /\ PlaceInv /\ NoCollisions /\ RecordInv
    BY DEF PipeInv
  <1>1. UNCHANGED <<found, via, nonce, next, chain, records, crashes>>
    BY DEF TimerFires, nvars
  <1>2. CASE batch[a] = <<>>
    <2>1. timer' = [timer EXCEPT ![a] = FALSE] /\ UNCHANGED <<call, batch, flights>>
      BY <1>2 DEF TimerFires
    <2>2. PlaceInv'
      <3>1. \A b \in Relayer : b # a => timer'[b] = timer[b]
        BY <2>1, <1>a DEF PTypeOK
      <3>2. BatchInv'
        BY <3>1, <2>1, <1>1, <1>2, <1>a DEF PlaceInv, BatchInv
      <3>3. QED BY <3>2, <2>1, <1>a DEF PlaceInv, FlightInv, Apart
    <2>3. NoCollisions'
      BY <1>a, <1>1, <2>1, CollisionsKept
    <2>4. RecordInv'
      BY <1>a, <1>1, <2>1 DEF RecordInv, SavedInv, AnswerInv, MakerInv, Accountable, Durable
    <2>5. QED BY <2>2, <2>3, <2>4
  <1>3. CASE batch[a] # <<>>
    <2>1. PICK s \in Seq(Requests) : s = batch[a]
      BY <1>a DEF PTypeOK
    <2>2. Len(s) > 0
      BY <1>3, <2>1
    <2>3. Flush(a, s)
      BY <1>3, <2>1 DEF TimerFires
    <2>4. \A q \in Items(s) : call[q] \in {"signing", "batched"} /\ via[q] = a
      BY <1>a, <2>1 DEF PlaceInv, BatchInv
    <2>5. Distinct(s)
      BY <1>a, <2>1 DEF PlaceInv, BatchInv
    <2>6. QED BY <1>1, <2>1, <2>2, <2>3, <2>4, <2>5, FlushInv
  <1>4. QED BY <1>2, <1>3

LEMMA NetworkInv ==
  ASSUME PipeInv, NEW p \in Payments, NetworkTakes(p)
  PROVE  PTypeOK' /\ PlaceInv' /\ NoCollisions' /\ RecordInv'
  <1>a. PTypeOK /\ PlaceInv /\ NoCollisions /\ RecordInv
    BY DEF PipeInv
  <1>1. /\ UNCHANGED <<call, found, via, nonce, batch, timer, flights, pending,
                       next, confirmed, inFlight, turn, wire, records, crashes>>
        /\ chain' = chain \cup {p}
    BY DEF NetworkTakes, cvars, qvars, nvars
  <1>2. PTypeOK'
    BY <1>a, <1>1 DEF PTypeOK
  <1>3. PlaceInv'
    BY <1>a, <1>1 DEF PlaceInv, BatchInv, FlightInv, Apart
  <1>4. NoCollisions'
    BY <1>a, <1>1, CollisionsKept
  <1>5. RecordInv'
    BY <1>a, <1>1 DEF RecordInv, SavedInv, AnswerInv, MakerInv, Accountable, Durable
  <1>6. QED BY <1>2, <1>3, <1>4, <1>5

\* The ends of a flight that write no record.
LEMMA LandInv ==
  ASSUME PipeInv, NEW f \in flights,
         flights' = flights \ {f},
         \A r \in Requests : r \notin Items(f.items) => call'[r] = call[r],
         \A r \in Items(f.items) : call'[r] \in {"ok", "failed"},
         \A r \in Items(f.items) : call[r] = "ok" => call'[r] = "ok",
         \A j \in 1 .. f.saved : call'[f.items[j]] = "ok",
         \A r \in Items(f.items) : call'[r] = "ok" /\ call[r] # "ok"
            => \E j \in 1 .. f.saved : f.items[j] = r,
         UNCHANGED <<batch, timer, found, via, nonce, next, chain, records, crashes>>
  PROVE  PlaceInv' /\ NoCollisions' /\ RecordInv'
  <1>a. PTypeOK /\ PlaceInv /\ NoCollisions /\ RecordInv
    BY DEF PipeInv
  <1>1. Items(f.items) \subseteq Requests /\ f.saved \in Nat
    BY <1>a, FlightTypes
  <1>2. PlaceInv'
    BY <1>a, LandPlace
  <1>3. NoCollisions'
    <2>1. \A r \in Items(f.items) : call[r] \in {"flushed", "ok"}
      BY <1>a DEF PlaceInv, FlightInv
    <2>2. \A r \in Requests : call'[r] = call[r] \/ call[r] \in OnTheWay
      BY <2>1 DEF OnTheWay
    <2>3. QED BY <2>2, <1>a, CollisionsKept
  <1>4. ASSUME NEW s \in Requests, Accountable(s)
        PROVE  Accountable(s)'
    <2>1. CASE call[s] \in {"ok", "lost"}
      <3>1. CASE s \in Items(f.items)
        <4>1. call[s] \in {"flushed", "ok"}
          BY <3>1, <1>a DEF PlaceInv, FlightInv
        <4>2. QED BY <4>1, <3>1, <2>1 DEF Accountable
      <3>2. CASE s \notin Items(f.items)
        BY <3>2, <2>1 DEF Accountable
      <3>3. QED BY <3>1, <3>2
    <2>2. CASE \E g \in flights : \E j \in 1 .. g.saved : g.items[j] = s
      <3>1. PICK g \in flights : \E j \in 1 .. g.saved : g.items[j] = s
        BY <2>2
      <3>2. CASE g = f
        BY <3>1, <3>2 DEF Accountable
      <3>3. CASE g # f
        <4>1. g \in flights'
          BY <3>3
        <4>2. QED BY <4>1, <3>1 DEF Accountable
      <3>4. QED BY <3>2, <3>3
    <2>3. QED BY <1>4, <2>1, <2>2 DEF Accountable
  <1>5. ASSUME NEW r \in Requests, Informed(r)'
        PROVE  Informed(r) \/ records[Pay[r]] > 0
    <2>1. CASE r \in Items(f.items)
      <3>1. CASE call[r] = "ok"
        BY <3>1 DEF Informed
      <3>2. CASE call[r] # "ok"
        <4>1. call'[r] = "ok"
          BY <2>1, <1>5 DEF Informed
        <4>2. PICK j \in 1 .. f.saved : f.items[j] = r
          BY <4>1, <3>2, <2>1
        <4>3. f.saved > 0
          BY <4>2, <1>1
        <4>4. records[Pay[f.items[j]]] > 0
          BY <4>2, <4>3, <1>a DEF RecordInv, SavedInv
        <4>5. QED BY <4>2, <4>4
      <3>3. QED BY <3>1, <3>2
    <2>2. CASE r \notin Items(f.items)
      BY <2>2, <1>5 DEF Informed
    <2>3. QED BY <2>1, <2>2
  <1>6. RecordInv'
    BY <1>a, <1>4, <1>5, RecordsKept
  <1>7. QED BY <1>2, <1>3, <1>6

LEMMA SendFailsInv ==
  ASSUME PipeInv, NEW f \in flights, SendFails(f)
  PROVE  PlaceInv' /\ NoCollisions' /\ RecordInv'
  <1>a. PTypeOK /\ PlaceInv /\ RecordInv
    BY DEF PipeInv
  <1>1. /\ f.saved = 0 /\ flights' = flights \ {f}
        /\ UNCHANGED <<batch, timer, found, via, nonce, next, chain, records, crashes>>
    BY DEF SendFails, Land, nvars, evars
  <1>2. /\ \A r \in Requests : r \notin Items(f.items) => call'[r] = call[r]
        /\ \A r \in Requests : r \in Items(f.items) => call'[r] = "failed"
        /\ Items(f.items) \subseteq Requests
    BY <1>a, FlightTypes DEF SendFails, Fail
  <1>3. \A r \in Items(f.items) : call[r] = "flushed"
    BY <1>a, <1>1 DEF PlaceInv, FlightInv, Items
  <1>4. /\ \A r \in Items(f.items) : call'[r] \in {"ok", "failed"}
        /\ \A r \in Items(f.items) : call[r] = "ok" => call'[r] = "ok"
        /\ \A r \in Items(f.items) : call'[r] = "ok" /\ call[r] # "ok"
            => \E j \in 1 .. f.saved : f.items[j] = r
        /\ \A j \in 1 .. f.saved : call'[f.items[j]] = "ok"
    BY <1>1, <1>2, <1>3
  <1>5. QED BY <1>1, <1>2, <1>4, LandInv

LEMMA SaveReturnsInv ==
  ASSUME PipeInv, NEW f \in flights, SaveReturns(f)
  PROVE  PlaceInv' /\ NoCollisions' /\ RecordInv'
  <1>a. PTypeOK /\ PlaceInv /\ NoCollisions /\ RecordInv
    BY DEF PipeInv
  <1>1. /\ f.saved > 0 /\ f.saved \in Nat /\ Len(f.items) \in Nat
        /\ f.saved <= Len(f.items)
        /\ f.items \in Seq(Requests) /\ Items(f.items) \subseteq Requests
    BY <1>a, FlightTypes DEF SaveReturns, PlaceInv, FlightInv
  <1>2. PICK q \in Requests : q = f.items[f.saved]
    <2>1. f.items[f.saved] \in Requests
      BY <1>1
    <2>2. QED BY <2>1
  <1>3. q \in Items(f.items)
    BY <1>1, <1>2 DEF Items
  <1>4. /\ call'[q] = "ok"
        /\ \A r \in Requests : r # q => call'[r] = call[r]
        /\ UNCHANGED <<found, via, nonce, batch, timer, next, chain, crashes>>
    BY <1>a, <1>2 DEF SaveReturns, Tell, PTypeOK
  <1>5. CASE f.saved < Len(f.items)
    <2>1. PICK i \in 1 .. Len(f.items) : i = f.saved + 1
      BY <1>1, <1>5
    <2>2. SaveItem(f, i)
      BY <2>1, <1>5 DEF SaveReturns
    <2>3. i > 1 /\ i - 1 = f.saved /\ q = f.items[i - 1]
      BY <2>1, <1>1, <1>2
    <2>4. flights' = (flights \ {f}) \cup {[f EXCEPT !.saved = i]}
      BY <2>2 DEF SaveItem
    <2>5. PlaceInv'
      <3>1. \A r \in Requests : call'[r] = call[r] \/ (i > 1 /\ r = f.items[i - 1])
        BY <2>3, <1>4
      <3>2. i > 1 => call'[f.items[i - 1]] = "ok"
        BY <2>3, <1>4
      <3>3. QED BY <3>1, <3>2, <2>1, <2>4, <1>a, <1>4, SavePlace
    <2>6. NoCollisions'
      <3>1. f.saved \in 1 .. Len(f.items) /\ f.saved >= f.saved
        BY <1>1
      <3>2. call[q] \in OnTheWay
        BY <3>1, <1>2, <1>a DEF PlaceInv, FlightInv, OnTheWay
      <3>3. \A r \in Requests : call'[r] = call[r] \/ call[r] \in OnTheWay
        BY <3>2, <1>4
      <3>4. QED BY <3>3, <1>a, <1>4, CollisionsKept
    <2>7. RecordInv'
      <3>1. \A r \in Requests : call'[r] = call[r] \/ (i > 1 /\ r = f.items[i - 1] /\ call'[r] = "ok")
        BY <2>3, <1>4
      <3>2. \A r \in Items(f.items) : Pay[r] \in chain
        BY <1>a, <1>1 DEF RecordInv, SavedInv
      <3>3. FlightInv
        BY <1>a DEF PlaceInv
      <3>4. QED BY <3>1, <3>2, <3>3, <2>1, <2>2, <1>a, <1>4, RecordsSaved
    <2>8. QED BY <2>5, <2>6, <2>7
  <1>6. CASE ~(f.saved < Len(f.items))
    <2>1. f.saved = Len(f.items)
      BY <1>1, <1>6
    <2>2. flights' = flights \ {f} /\ UNCHANGED records
      BY <1>6 DEF SaveReturns, Land
    <2>3. ASSUME NEW j \in 1 .. f.saved
          PROVE  call'[f.items[j]] = "ok"
      <3>1. CASE j = f.saved
        BY <3>1, <1>2, <1>4
      <3>2. CASE j # f.saved
        <4>1. j \in 1 .. f.saved - 1 /\ j \in 1 .. Len(f.items)
          BY <3>2, <1>1
        <4>2. call[f.items[j]] = "ok" /\ f.items[j] \in Requests
          BY <4>1, <1>a, <1>1 DEF PlaceInv, FlightInv
        <4>3. QED BY <4>2, <1>4
      <3>3. QED BY <3>1, <3>2
    <2>4. \A r \in Items(f.items) : \E j \in 1 .. f.saved : f.items[j] = r
      BY <2>1 DEF Items
    <2>5. \A r \in Items(f.items) : call'[r] = "ok"
      BY <2>3, <2>4
    <2>6. \A r \in Requests : r \notin Items(f.items) => call'[r] = call[r]
      BY <1>3, <1>4
    <2>7. QED BY <2>2, <2>3, <2>4, <2>5, <2>6, <1>4, LandInv
  <1>7. QED BY <1>5, <1>6

LEMMA SendReturnsInv ==
  ASSUME PipeInv, NEW f \in flights, SendReturns(f)
  PROVE  PlaceInv' /\ NoCollisions' /\ RecordInv'
  <1>a. PTypeOK /\ PlaceInv /\ NoCollisions /\ RecordInv
    BY DEF PipeInv
  <1>1. PICK i \in 1 .. Len(f.items) : i = 1
    BY <1>a, FlightTypes DEF PlaceInv, FlightInv
  <1>2. /\ f.saved = 0 /\ SaveItem(f, i)
        /\ \A r \in Items(f.items) : Pay[r] \in chain
        /\ UNCHANGED <<call, found, via, nonce, batch, timer, next, chain, crashes>>
    BY <1>1 DEF SendReturns, cvars
  <1>3. flights' = (flights \ {f}) \cup {[f EXCEPT !.saved = i]}
    BY <1>2 DEF SaveItem
  <1>4. PlaceInv'
    <2>1. i = f.saved + 1 /\ ~(i > 1)
      BY <1>1, <1>2
    <2>2. \A r \in Requests : call'[r] = call[r] \/ (i > 1 /\ r = f.items[i - 1])
      BY <1>2
    <2>3. QED BY <2>1, <2>2, <1>2, <1>3, <1>a, SavePlace
  <1>5. NoCollisions'
    BY <1>2, <1>a, CollisionsKept
  <1>6. RecordInv'
    <2>1. i = f.saved + 1 /\ FlightInv
      BY <1>1, <1>2, <1>a DEF PlaceInv
    <2>2. \A r \in Requests : call'[r] = call[r] \/ (i > 1 /\ r = f.items[i - 1] /\ call'[r] = "ok")
      BY <1>2
    <2>3. QED BY <2>1, <2>2, <1>2, <1>a, RecordsSaved
  <1>7. QED BY <1>4, <1>5, <1>6

LEMMA SaveThrowsInv ==
  ASSUME PipeInv, NEW f \in flights, SaveThrows(f)
  PROVE  PlaceInv' /\ NoCollisions' /\ RecordInv'
  <1>a. PTypeOK /\ PlaceInv /\ NoCollisions /\ RecordInv
    BY DEF PipeInv
  <1>1. /\ f.saved \in Nat /\ Len(f.items) \in Nat
        /\ f.items \in Seq(Requests) /\ Items(f.items) \subseteq Requests
    BY <1>a, FlightTypes
  <1>2. PICK i \in 1 .. Len(f.items) : i = f.saved + 1
    BY <1>1 DEF SaveThrows
  <1>3. /\ flights' = flights \ {f}
        /\ UNCHANGED <<batch, timer, found, via, nonce, next, chain, records, crashes>>
    BY DEF SaveThrows, Land, evars
  <1> DEFINE tail == {f.items[k] : k \in i .. Len(f.items)}
  <1>4. Items(SubSeq(f.items, i, Len(f.items))) = tail
    BY <1>1, <1>2, ItemsTail
  <1>5. \A r \in Requests :
          call'[r] = IF r \in tail THEN "failed"
                     ELSE IF i > 1 /\ r = f.items[i - 1] THEN "ok" ELSE call[r]
    BY <1>2, <1>4 DEF SaveThrows
  <1>6. /\ tail \subseteq Items(f.items)
        /\ \A k \in i .. Len(f.items) : f.items[k] \in tail /\ k \in 1 .. Len(f.items)
        /\ \A r \in tail : \E k \in i .. Len(f.items) : r = f.items[k]
    BY DEF Items
  <1> HIDE DEF tail
  <1>7. \A r \in Requests : r \in tail => call'[r] = "failed" /\ call[r] = "flushed"
    <2>1. ASSUME NEW r \in Requests, r \in tail
          PROVE  call[r] = "flushed"
      <3>1. PICK k \in i .. Len(f.items) : r = f.items[k]
        BY <2>1, <1>6
      <3>2. k \in 1 .. Len(f.items) /\ k >= f.saved
        BY <1>1, <1>2
      <3>3. QED BY <3>1, <3>2, <1>a DEF PlaceInv, FlightInv
    <2>2. QED BY <2>1, <1>5
  <1>8. ASSUME NEW j \in 1 .. f.saved
        PROVE  /\ call'[f.items[j]] = "ok"
               /\ f.items[j] \in Items(f.items) /\ f.items[j] \in Requests
    <2>1. j \in 1 .. Len(f.items) /\ j < i
      BY <1>1, <1>2
    <2>2. f.items[j] \in Items(f.items) /\ f.items[j] \in Requests
      BY <2>1, <1>1 DEF Items
    <2>3. f.items[j] \notin tail
      <3> SUFFICES ASSUME NEW k \in i .. Len(f.items), f.items[k] = f.items[j]
                   PROVE  FALSE
        BY <1>6
      <3>1. k \in 1 .. Len(f.items) /\ k # j
        BY <2>1, <1>1
      <3>2. QED BY <3>1, <2>1, <1>a DEF PlaceInv, FlightInv, Distinct
    <2>4. CASE j = i - 1
      BY <2>1, <2>2, <2>3, <2>4, <1>5
    <2>5. CASE j # i - 1
      <3>1. j \in 1 .. f.saved - 1
        BY <2>5, <1>1, <1>2
      <3>2. call[f.items[j]] = "ok"
        BY <3>1, <1>a DEF PlaceInv, FlightInv
      <3>3. QED BY <3>2, <2>2, <2>3, <1>5
    <2>6. QED BY <2>2, <2>4, <2>5
  <1>9. \A r \in Items(f.items) : r \in tail \/ \E j \in 1 .. f.saved : f.items[j] = r
    <2> SUFFICES ASSUME NEW k \in 1 .. Len(f.items)
                 PROVE  f.items[k] \in tail \/ \E j \in 1 .. f.saved : f.items[j] = f.items[k]
      BY DEF Items
    <2>1. k \in i .. Len(f.items) \/ k \in 1 .. f.saved
      BY <1>1, <1>2
    <2>2. QED BY <2>1, <1>6
  <1>10. /\ \A r \in Items(f.items) : call'[r] \in {"ok", "failed"}
         /\ \A r \in Items(f.items) : call[r] = "ok" => call'[r] = "ok"
         /\ \A r \in Items(f.items) : call'[r] = "ok" /\ call[r] # "ok"
              => \E j \in 1 .. f.saved : f.items[j] = r
    BY <1>1, <1>7, <1>8, <1>9
  <1>11. \A r \in Requests : r \notin Items(f.items) => call'[r] = call[r]
    <2>1. i > 1 => f.items[i - 1] \in Items(f.items)
      <3>1. i > 1 => i - 1 \in 1 .. f.saved
        BY <1>1, <1>2
      <3>2. QED BY <3>1, <1>8
    <2>2. QED BY <2>1, <1>5, <1>6
  <1>12. QED BY <1>3, <1>8, <1>10, <1>11, LandInv

LEMMA CrashInv ==
  ASSUME PipeInv, Crash
  PROVE  PlaceInv' /\ NoCollisions' /\ RecordInv'
  <1>a. PTypeOK /\ PlaceInv /\ NoCollisions /\ RecordInv
    BY DEF PipeInv
  <1>1. /\ flights' = {} /\ \A a \in Relayer : batch'[a] = <<>>
        /\ UNCHANGED <<found, via, nonce, chain>>
        /\ \A r \in Requests : call'[r] = IF call[r] \in Inside THEN "lost" ELSE call[r]
    BY DEF Crash
  <1>2. \A r \in Requests :
          /\ call'[r] \notin {"lookup", "signing", "batched", "flushed"}
          /\ call[r] \in {"ok", "lost"} => call'[r] = call[r]
          /\ call[r] = "flushed" => call'[r] = "lost"
          /\ call'[r] = "ok" => call[r] = "ok"
    BY <1>1 DEF Inside
  <1>3. PlaceInv'
    <2>1. Len(<<>>) = 0 /\ Distinct(<<>>)
      BY DEF Distinct
    <2>2. BatchInv'
      BY <2>1, <1>1, <1>2, ItemsEmpty, PipelineAssumption DEF BatchInv
    <2>3. FlightInv' /\ Apart'
      BY <1>1, <1>2 DEF FlightInv, Apart
    <2>4. QED BY <2>2, <2>3 DEF PlaceInv
  <1>4. NoCollisions'
    <2>1. crashes \in Nat /\ crashes' = crashes + 1
      BY <1>a, PipelineAssumption DEF Crash, PTypeOK
    <2>2. \A r \in Requests : ~Reserved(r)'
      BY <2>1, <1>2 DEF Reserved, OnTheWay
    <2>3. QED BY <2>2 DEF NoCollisions
  <1>5. \A p \in Payments : records'[p] > 0 => records[p] > 0 /\ records' = records
    BY <1>a DEF Crash, PTypeOK
  <1>6. Durable => records' = records
    BY <1>a DEF Crash, Durable, PTypeOK
  <1>7. SavedInv'
    BY <1>a, <1>1, <1>5 DEF RecordInv, SavedInv
  <1>8. AnswerInv'
    BY <1>a, <1>2, <1>6 DEF RecordInv, AnswerInv, Durable
  <1>9. MakerInv'
    <2>1. ASSUME NEW s \in Requests, Accountable(s)
          PROVE  Accountable(s)'
      <3>1. CASE call[s] \in {"ok", "lost"}
        BY <3>1, <1>2 DEF Accountable
      <3>2. CASE \E f \in flights : \E j \in 1 .. f.saved : f.items[j] = s
        <4>1. PICK f \in flights : \E j \in 1 .. f.saved : f.items[j] = s
          BY <3>2
        <4>2. PICK j \in 1 .. f.saved : f.items[j] = s
          BY <4>1
        <4>3. j \in 1 .. Len(f.items)
          BY <1>a, FlightTypes DEF PlaceInv, FlightInv
        <4>4. call[s] \in {"flushed", "ok"}
          BY <4>2, <4>3, <1>a DEF PlaceInv, FlightInv, Items
        <4>5. QED BY <4>4, <1>2 DEF Accountable
      <3>3. QED BY <2>1, <3>1, <3>2 DEF Accountable
    <2>2. QED BY <2>1, <1>5, <1>a DEF RecordInv, MakerInv
  <1>10. QED BY <1>3, <1>4, <1>7, <1>8, <1>9 DEF RecordInv

LEMMA StutterInv ==
  ASSUME PipeInv, UNCHANGED vars
  PROVE  PipeInv'
  <1>1. UNCHANGED <<call, found, via, nonce, batch, timer, flights, pending,
                    next, confirmed, inFlight, turn, wire, chain, records, crashes>>
    BY DEF vars, cvars, qvars, nvars, evars
  <1>2. PTypeOK'
    BY <1>1 DEF PipeInv, PTypeOK
  <1>3. PlaceInv'
    BY <1>1 DEF PipeInv, PlaceInv, BatchInv, FlightInv, Apart
  <1>4. NoCollisions'
    BY <1>1, CollisionsKept DEF PipeInv
  <1>5. RecordInv'
    BY <1>1 DEF PipeInv, RecordInv, SavedInv, AnswerInv, MakerInv, Accountable, Durable
  <1>6. QED BY <1>2, <1>3, <1>4, <1>5 DEF PipeInv

LEMMA StepInv ==
  ASSUME PipeInv, Next
  PROVE  PipeInv'
  <1>a. PTypeOK /\ FlightInv
    BY DEF PipeInv, PlaceInv
  <1>1. ASSUME NEW r \in Requests, Settle(r)
        PROVE  PipeInv'
    <2>1. PTypeOK'
      BY <1>a, <1>1, TypeSettle
    <2>2. PlaceInv' /\ NoCollisions' /\ RecordInv'
      BY <1>1, OutsideInv, ReserveInv, SignReturnsInv DEF Settle
    <2>3. QED BY <2>1, <2>2 DEF PipeInv
  <1>2. ASSUME NEW a \in Relayer, TimerFires(a)
        PROVE  PipeInv'
    <2>1. PTypeOK'
      BY <1>a, <1>2, TypeTimer
    <2>2. QED BY <2>1, <1>2, TimerInv DEF PipeInv
  <1>3. ASSUME NEW p \in Payments, NetworkTakes(p)
        PROVE  PipeInv'
    BY <1>3, NetworkInv DEF PipeInv
  <1>4. ASSUME NEW f \in flights, FlightEnds(f)
        PROVE  PipeInv'
    <2>1. PTypeOK'
      BY <1>a, <1>4, TypeFlight
    <2>2. PlaceInv' /\ NoCollisions' /\ RecordInv'
      BY <1>4, SendReturnsInv, SendFailsInv, SaveReturnsInv, SaveThrowsInv DEF FlightEnds
    <2>3. QED BY <2>1, <2>2 DEF PipeInv
  <1>5. CASE Crash
    <2>1. PTypeOK'
      BY <1>a, <1>5, TypeCrash
    <2>2. QED BY <2>1, <1>5, CrashInv DEF PipeInv
  <1>6. QED BY <1>1, <1>2, <1>3, <1>4, <1>5 DEF Next

-----------------------------------------------------------------------------
(* The theorems.                                                           *)

\* The invariant of the pipelined queue: batches, flights, nonces and records
\* fit together in every reachable state.
THEOREM PipelinedInv == PSpec => []PipeInv
  <1>1. Init => PipeInv
    BY InitInv
  <1>2. PipeInv /\ [Next]_vars => PipeInv'
    BY StepInv, StutterInv
  <1>3. QED BY <1>1, <1>2, PTL DEF PSpec

\* The variables keep their types: in particular the count of pending requests
\* never falls below zero and the round robin stays within the shard.
THEOREM PipelinedTypeSafe == PSpec => []PTypeOK
  <1>1. PipeInv => PTypeOK
    BY DEF PipeInv
  <1>2. QED BY <1>1, PipelinedInv, PTL

\* A waiting request is in its relayer's batch with the timer running or in
\* exactly one flushed batch, whatever fails and whenever the process restarts.
THEOREM StrandedSafe == PSpec => []NoneStranded
  <1>1. ASSUME PipeInv PROVE NoneStranded
    <2>a. PTypeOK /\ BatchInv /\ FlightInv /\ Apart
      BY <1>1 DEF PipeInv, PlaceInv
    <2>1. ASSUME NEW r \in Requests, call[r] = "batched"
          PROVE  r \in Items(batch[via[r]]) /\ timer[via[r]] /\ r \notin InFlights
      <3>1. r \in Items(batch[via[r]]) /\ via[r] \in Relayer
        BY <2>1, <2>a DEF BatchInv, PTypeOK
      <3>2. batch[via[r]] # <<>>
        BY <3>1, ItemsEmpty
      <3>3. timer[via[r]]
        BY <3>1, <3>2, <2>a DEF BatchInv
      <3>4. r \notin InFlights
        BY <2>1, <2>a DEF InFlights, FlightInv
      <3>5. QED BY <3>1, <3>3, <3>4
    <2>2. ASSUME NEW r \in Requests, call[r] = "flushed"
          PROVE  r \in InFlights \ InBatches
      <3>1. r \in InFlights
        BY <2>2, <2>a DEF InFlights, FlightInv
      <3>2. r \notin InBatches
        BY <2>2, <2>a DEF InBatches, BatchInv
      <3>3. QED BY <3>1, <3>2
    <2>3. QED BY <2>1, <2>2, <2>a DEF NoneStranded, Apart, BatchInv
  <1>2. QED BY <1>1, PipelinedInv, PTL

\* Within one run of the process no two calls hold the same nonce of a relayer,
\* those of failed batches included, and none of their nonces will be handed out
\* again (pipelined_relayer_pool.ts:27-63).  After a restart it is stated of the
\* new run's calls while they are on their way.
THEOREM CollisionSafe == PSpec => []NoCollisions
  <1>1. PipeInv => NoCollisions
    BY DEF PipeInv
  <1>2. QED BY <1>1, PipelinedInv, PTL

\* With SQLite, or without restarts, a caller told of success finds its payment
\* recorded, and whatever is recorded the network has taken.
THEOREM SuccessSettledSafe ==
  ASSUME Durable
  PROVE  PSpec => []SuccessIsSettled
  <1>1. PipeInv => SuccessIsSettled
    BY DEF PipeInv, RecordInv, AnswerInv, SavedInv, SuccessIsSettled
  <1>2. QED BY <1>1, PipelinedInv, PTL

\* A caller told of failure whose payment is recorded shares the payment with
\* another caller, who was, or is about to be, told of success, or was cut off.
THEOREM HonestSafe == PSpec => []FailureIsHonest
  <1>1. ASSUME PipeInv PROVE FailureIsHonest
    <2> SUFFICES ASSUME NEW r \in Requests, call[r] = "failed", records[Pay[r]] > 0
                 PROVE  \E s \in Requests \ {r} :
                          Pay[s] = Pay[r] /\ call[s] \in {"flushed", "ok", "lost"}
      BY DEF FailureIsHonest
    <2>a. PTypeOK /\ FlightInv /\ MakerInv
      BY <1>1 DEF PipeInv, PlaceInv, RecordInv
    <2>1. PICK s \in Requests : Pay[s] = Pay[r] /\ Accountable(s)
      BY <2>a, PayType DEF MakerInv
    <2>2. CASE call[s] \in {"ok", "lost"}
      BY <2>1, <2>2
    <2>3. CASE \E f \in flights : \E j \in 1 .. f.saved : f.items[j] = s
      <3>1. PICK f \in flights : \E j \in 1 .. f.saved : f.items[j] = s
        BY <2>3
      <3>2. PICK j \in 1 .. f.saved : f.items[j] = s
        BY <3>1
      <3>3. j \in 1 .. Len(f.items)
        BY <2>a, FlightTypes DEF FlightInv
      <3>4. call[s] \in {"flushed", "ok"}
        BY <3>2, <3>3, <2>a DEF FlightInv, Items
      <3>5. QED BY <3>4, <2>1
    <2>4. QED BY <2>1, <2>2, <2>3 DEF Accountable
  <1>2. QED BY <1>1, PipelinedInv, PTL
-----------------------------------------------------------------------------
(* Counting what is pending.                                               *)

LEMMA PipelinedNext == PipeInv /\ [Next]_vars => PipeInv'
  BY StepInv, StutterInv

\* A sequence without repetition has as many members as places.
LEMMA ItemsCount ==
  ASSUME NEW s \in Seq(Requests), Distinct(s)
  PROVE  IsFiniteSet(Items(s)) /\ Cardinality(Items(s)) = Len(s)
  <1>1. Len(s) \in Nat /\ s \in [1 .. Len(s) -> Items(s)] /\ DOMAIN s = 1 .. Len(s)
    BY DEF Items
  <1>2. s \in Injection(1 .. Len(s), Items(s))
    BY <1>1 DEF Injection, IsInjective, Distinct
  <1>3. s \in Surjection(1 .. Len(s), Items(s))
    BY <1>1 DEF Surjection, Items
  <1>4. ExistsBijection(1 .. Len(s), Items(s))
    BY <1>2, <1>3 DEF ExistsBijection, Bijection
  <1>5. IsFiniteSet(1 .. Len(s)) /\ Cardinality(1 .. Len(s)) = Len(s)
    BY <1>1, FS_Interval
  <1>6. QED BY <1>4, <1>5, FS_Bijection

Pipe == InBatches \cup InFlights

LEMMA PipeMembers ==
  ASSUME PipeInv
  PROVE  /\ \A r \in Pipe : r \in Requests /\ call[r] \in {"batched", "flushed", "ok"}
         /\ IsFiniteSet(Pipe)
  <1>a. PTypeOK /\ BatchInv /\ FlightInv
    BY DEF PipeInv, PlaceInv
  <1>1. \A a \in Relayer : Items(batch[a]) \subseteq Requests
    BY <1>a, ItemsType DEF PTypeOK
  <1>2. \A f \in flights : Items(f.items) \subseteq Requests
    BY <1>a, FlightTypes
  <1>3. \A r \in Pipe : r \in Requests /\ call[r] \in {"batched", "flushed", "ok"}
    BY <1>a, <1>1, <1>2 DEF Pipe, InBatches, InFlights, BatchInv, FlightInv
  <1>4. IsFiniteSet(Requests) /\ Pipe \subseteq Requests
    BY <1>3, PipelineAssumption
  <1>5. QED BY <1>3, <1>4, FS_Subset

\* What leaves as a flight stays in the pipe.
LEMMA PipeFlushed ==
  ASSUME PTypeOK, NEW a \in Relayer, NEW s \in Seq(Requests),
         Items(batch[a]) \subseteq Items(s), Flush(a, s)
  PROVE  Pipe' = Pipe \cup Items(s)
  <1>1. /\ batch'[a] = <<>>
        /\ \A b \in Relayer : b # a => batch'[b] = batch[b]
    BY DEF PTypeOK, Flush
  <1>2. PICK g : g = [via |-> a, items |-> s, saved |-> 0]
    OBVIOUS
  <1>3. flights' = flights \cup {g} /\ g.items = s
    BY <1>2 DEF Flush
  <1>4. ASSUME NEW r PROVE r \in InBatches' <=> \E b \in Relayer : b # a /\ r \in Items(batch[b])
    BY <1>1, ItemsEmpty DEF InBatches
  <1>5. ASSUME NEW r PROVE r \in InFlights' <=> r \in InFlights \/ r \in Items(s)
    BY <1>3 DEF InFlights
  <1>6. ASSUME NEW r PROVE r \in InBatches <=> \E b \in Relayer : r \in Items(batch[b])
    BY DEF InBatches
  <1>7. ASSUME NEW r PROVE r \in Pipe' <=> r \in Pipe \cup Items(s)
    BY <1>4, <1>5, <1>6 DEF Pipe
  <1>8. QED BY <1>7

LEMMA PipeBatched ==
  ASSUME PTypeOK, NEW a \in Relayer, NEW r \in Requests,
         batch' = [batch EXCEPT ![a] = Append(batch[a], r)], UNCHANGED flights
  PROVE  Pipe' = Pipe \cup {r}
  <1>1. batch[a] \in Seq(Requests)
    BY DEF PTypeOK
  <1>2. Items(batch'[a]) = Items(batch[a]) \cup {r}
    BY <1>1, ItemsAppend DEF PTypeOK
  <1>3. \A b \in Relayer : b # a => batch'[b] = batch[b]
    BY DEF PTypeOK
  <1>4. ASSUME NEW q PROVE q \in InBatches' <=> q \in InBatches \/ q = r
    BY <1>2, <1>3 DEF InBatches
  <1>5. InFlights' = InFlights
    BY DEF InFlights
  <1>6. QED BY <1>4, <1>5 DEF Pipe

\* A flight that ends takes its own requests out, and no other.
LEMMA PipeLanded ==
  ASSUME PipeInv, NEW f \in flights, flights' = flights \ {f}, UNCHANGED batch
  PROVE  Cardinality(Pipe) = Cardinality(Pipe') + Len(f.items)
         /\ Cardinality(Pipe') \in Nat /\ Len(f.items) \in Nat
  <1>a. PTypeOK /\ BatchInv /\ FlightInv /\ Apart
    BY DEF PipeInv, PlaceInv
  <1>1. f.items \in Seq(Requests) /\ Distinct(f.items)
    BY <1>a, FlightTypes DEF FlightInv
  <1>2. PICK out : out = Items(f.items)
    OBVIOUS
  <1>3. IsFiniteSet(out) /\ Cardinality(out) = Len(f.items)
    BY <1>1, <1>2, ItemsCount
  <1>4. \A r \in InBatches : r \notin out
    <2>1. \A r \in InBatches : call[r] = "batched"
      BY <1>a DEF InBatches, BatchInv
    <2>2. \A r \in out : call[r] \in {"flushed", "ok"}
      BY <1>2, <1>a DEF FlightInv
    <2>3. QED BY <2>1, <2>2
  <1>5. InBatches' = InBatches
    BY DEF InBatches
  <1>6. \A r \in InFlights' : r \notin out
    BY <1>2, <1>a DEF InFlights, Apart
  <1>7. InFlights = InFlights' \cup out
    BY <1>2 DEF InFlights
  <1>8. Pipe = Pipe' \cup out /\ Pipe' \cap out = {}
    BY <1>4, <1>5, <1>6, <1>7 DEF Pipe
  <1>9. IsFiniteSet(Pipe')
    <2>1. IsFiniteSet(Pipe) /\ Pipe' \subseteq Pipe
      BY <1>8, PipeMembers
    <2>2. QED BY <2>1, FS_Subset
  <1>10. Cardinality(Pipe) = Cardinality(Pipe') + Cardinality(out) - 0
    <2>1. Cardinality({}) = 0
      BY FS_EmptySet
    <2>2. PICK rest : rest = Pipe'
      OBVIOUS
    <2>3. IsFiniteSet(rest) /\ rest \cap out = {} /\ Pipe = rest \cup out
      BY <1>8, <1>9, <2>2
    <2>4. Cardinality(rest \cup out) = Cardinality(rest) + Cardinality(out) - Cardinality(rest \cap out)
      BY <1>3, <2>3, FS_Union
    <2>5. QED BY <2>1, <2>2, <2>3, <2>4
  <1>11. Cardinality(Pipe') \in Nat /\ Len(f.items) \in Nat
    BY <1>1, <1>9, FS_CardinalityType
  <1>12. QED BY <1>3, <1>10, <1>11

LEMMA PipeSaving ==
  ASSUME PTypeOK, NEW f \in flights, NEW i \in Nat,
         flights' = (flights \ {f}) \cup {[f EXCEPT !.saved = i]}, UNCHANGED batch
  PROVE  Pipe' = Pipe
  <1>1. PICK h : h = [f EXCEPT !.saved = i]
    OBVIOUS
  <1>2. h.items = f.items
    <2>1. h = [via |-> f.via, items |-> f.items, saved |-> i]
      BY <1>1, MovedFlight
    <2>2. QED BY <2>1
  <1>3. InFlights' = InFlights
    BY <1>1, <1>2 DEF InFlights
  <1>4. QED BY <1>3 DEF Pipe, InBatches

LEMMA PendingSigned ==
  ASSUME PipeInv, PendingExact, NEW r \in Requests, SignReturns(r)
  PROVE  PendingExact'
  <1>a. PTypeOK /\ PendingExact /\ BatchInv
    BY DEF PipeInv, PlaceInv
  <1>1. PICK a \in Relayer : a = via[r]
    BY <1>a DEF PTypeOK
  <1>2. batch[a] \in Seq(Requests)
    BY <1>a DEF PTypeOK
  <1>3. PICK s : s = Append(batch[a], r)
    OBVIOUS
  <1>4. s \in Seq(Requests) /\ Items(s) = Items(batch[a]) \cup {r}
    BY <1>2, <1>3, ItemsAppend
  <1>5. call[r] = "signing" /\ pending' = pending + 1
    BY DEF SignReturns
  <1>6. Pipe' = Pipe \cup {r}
    <2>1. CASE Len(s) >= BatchSize
      <3>1. Flush(a, s)
        BY <1>1, <1>3, <2>1 DEF SignReturns
      <3>2. Pipe' = Pipe \cup Items(s)
        BY <1>a, <1>4, <3>1, PipeFlushed
      <3>3. Items(batch[a]) \subseteq Pipe
        BY DEF Pipe, InBatches
      <3>4. QED BY <1>4, <3>2, <3>3
    <2>2. CASE ~(Len(s) >= BatchSize)
      <3>1. batch' = [batch EXCEPT ![a] = Append(batch[a], r)] /\ UNCHANGED flights
        BY <1>1, <1>3, <2>2 DEF SignReturns
      <3>2. QED BY <1>a, <3>1, PipeBatched
    <2>3. QED BY <2>1, <2>2
  <1>7. r \notin Pipe /\ IsFiniteSet(Pipe)
    BY <1>5, PipeMembers
  <1>8. Cardinality(Pipe \cup {r}) = Cardinality(Pipe) + 1
    BY <1>7, FS_AddElement
  <1>9. pending = Cardinality(Pipe)
    BY <1>a DEF PendingExact, Pipe
  <1>10. QED BY <1>5, <1>6, <1>8, <1>9 DEF PendingExact, Pipe

LEMMA PendingFlushed ==
  ASSUME PipeInv, PendingExact, NEW a \in Relayer, TimerFires(a)
  PROVE  PendingExact'
  <1>a. PTypeOK /\ PendingExact
    BY DEF PipeInv
  <1>1. CASE batch[a] = <<>>
    <2>1. UNCHANGED <<batch, flights, pending>>
      BY <1>1 DEF TimerFires
    <2>2. QED BY <1>a, <2>1 DEF PendingExact, InBatches, InFlights
  <1>2. CASE batch[a] # <<>>
    <2>1. PICK s \in Seq(Requests) : s = batch[a]
      BY <1>a DEF PTypeOK
    <2>2. Flush(a, s) /\ pending' = pending
      BY <1>2, <2>1 DEF TimerFires
    <2>3. Pipe' = Pipe \cup Items(s)
      BY <1>a, <2>1, <2>2, PipeFlushed
    <2>4. Items(s) \subseteq Pipe
      BY <2>1 DEF Pipe, InBatches
    <2>5. QED BY <1>a, <2>2, <2>3, <2>4 DEF PendingExact, Pipe
  <1>3. QED BY <1>1, <1>2

LEMMA PendingLanded ==
  ASSUME PipeInv, PendingExact, NEW f \in flights, Land(f), UNCHANGED batch
  PROVE  PendingExact'
  <1>1. flights' = flights \ {f}
    BY DEF Land
  <1>2. /\ Cardinality(Pipe) = Cardinality(Pipe') + Len(f.items)
        /\ Cardinality(Pipe') \in Nat /\ Len(f.items) \in Nat
    BY <1>1, PipeLanded
  <1>3. pending = Cardinality(Pipe)
    BY DEF PendingExact, Pipe
  <1>4. pending' = IF pending >= Len(f.items) THEN pending - Len(f.items) ELSE 0
    BY DEF Land
  <1>5. pending' = Cardinality(Pipe')
    BY <1>2, <1>3, <1>4
  <1>6. QED BY <1>5 DEF PendingExact, Pipe

LEMMA PendingSaving ==
  ASSUME PipeInv, PendingExact, NEW f \in flights, NEW i \in Nat, SaveItem(f, i),
         UNCHANGED <<batch, pending>>
  PROVE  PendingExact'
  <1>1. flights' = (flights \ {f}) \cup {[f EXCEPT !.saved = i]} /\ PTypeOK
    BY DEF SaveItem, PipeInv
  <1>2. Pipe' = Pipe
    BY <1>1, PipeSaving
  <1>3. QED BY <1>2 DEF PendingExact, Pipe

LEMMA PendingNext == PipeInv /\ PendingExact /\ [Next]_vars => PendingExact'
  <1>1. SUFFICES ASSUME PipeInv, PendingExact, [Next]_vars PROVE PendingExact'
    OBVIOUS
  <1>a. PTypeOK
    BY <1>1 DEF PipeInv
  <1>2. ASSUME UNCHANGED <<batch, flights, pending>> PROVE PendingExact'
    BY <1>1, <1>2 DEF PendingExact, InBatches, InFlights
  <1>3. ASSUME NEW r \in Requests, Settle(r) PROVE PendingExact'
    <2>1. CASE SignReturns(r)
      BY <1>1, <2>1, PendingSigned
    <2>2. CASE ~SignReturns(r)
      <3>1. UNCHANGED qvars
        BY <1>3, <2>2 DEF Settle, Arrive, Known, Saturated, Reserve, SignFails
      <3>2. QED BY <1>2, <3>1 DEF qvars
    <2>3. QED BY <2>1, <2>2
  <1>4. ASSUME NEW a \in Relayer, TimerFires(a) PROVE PendingExact'
    BY <1>1, <1>4, PendingFlushed
  <1>5. ASSUME NEW f \in flights, FlightEnds(f) PROVE PendingExact'
    <2>1. f.saved \in Nat
      BY <1>a, FlightTypes
    <2>2. CASE SendReturns(f)
      BY <1>1, <2>2, PendingSaving DEF SendReturns
    <2>3. CASE SendFails(f)
      BY <1>1, <2>3, PendingLanded DEF SendFails
    <2>4. CASE SaveReturns(f)
      <3>1. CASE f.saved < Len(f.items)
        <4>1. SaveItem(f, f.saved + 1) /\ UNCHANGED <<batch, pending>> /\ f.saved + 1 \in Nat
          BY <2>1, <2>4, <3>1 DEF SaveReturns
        <4>2. QED BY <1>1, <4>1, PendingSaving
      <3>2. CASE ~(f.saved < Len(f.items))
        BY <1>1, <2>4, <3>2, PendingLanded DEF SaveReturns
      <3>3. QED BY <3>1, <3>2
    <2>5. CASE SaveThrows(f)
      BY <1>1, <2>5, PendingLanded DEF SaveThrows
    <2>6. QED BY <1>5, <2>2, <2>3, <2>4, <2>5 DEF FlightEnds
  <1>6. CASE \E p \in Payments : NetworkTakes(p)
    BY <1>2, <1>6 DEF NetworkTakes, qvars
  <1>7. CASE Crash
    <2>1. pending' = 0 /\ flights' = {} /\ \A a \in Relayer : batch'[a] = <<>>
      BY <1>7 DEF Crash
    <2>2. (InBatches \cup InFlights)' = {}
      BY <2>1, ItemsEmpty DEF InBatches, InFlights
    <2>3. QED BY <2>1, <2>2, FS_EmptySet DEF PendingExact
  <1>8. CASE UNCHANGED vars
    BY <1>2, <1>8 DEF vars, qvars
  <1>9. QED BY <1>1, <1>3, <1>4, <1>5, <1>6, <1>7, <1>8 DEF Next
-----------------------------------------------------------------------------
(* What the nonce tracker has to cover.                                    *)

\* The item whose save is under way: its nonce is confirmed already.
Saving(r) == \E f \in flights : f.saved > 0 /\ f.items[f.saved] = r

\* The requests of a relayer whose nonce is not confirmed yet.
Due(a) == {r \in Requests : via[r] = a /\ call[r] \in OnTheWay /\ ~Saving(r)}

FlightVia == \A f \in flights : \A r \in Items(f.items) : via[r] = f.via

DueCovered ==
  \A a \in Relayer : Cardinality(Due(a)) <= inFlight[a] /\ confirmed[a] <= next[a]

TrackInv == FlightVia /\ DueCovered

LEMMA SavingIs ==
  ASSUME PipeInv, NEW r, Saving(r)
  PROVE  call[r] = "flushed"
  <1>a. PTypeOK /\ FlightInv
    BY DEF PipeInv, PlaceInv
  <1>1. PICK f \in flights : f.saved > 0 /\ f.items[f.saved] = r
    BY DEF Saving
  <1>2. f.saved \in 1 .. Len(f.items)
    BY <1>a, <1>1, FlightTypes DEF FlightInv
  <1>3. QED BY <1>a, <1>1, <1>2 DEF FlightInv

LEMMA DueFinite ==
  ASSUME NEW a
  PROVE  IsFiniteSet(Due(a)) /\ Cardinality(Due(a)) \in Nat
  <1>1. Due(a) \subseteq Requests
    BY DEF Due
  <1>2. IsFiniteSet(Due(a))
    BY <1>1, PipelineAssumption, FS_Subset
  <1>3. QED BY <1>2, FS_CardinalityType

LEMMA DueFiniteNext ==
  ASSUME NEW a
  PROVE  IsFiniteSet(Due(a)') /\ Cardinality(Due(a)') \in Nat
  <1>1. Due(a)' \subseteq Requests
    BY DEF Due
  <1>2. IsFiniteSet(Due(a)')
    BY <1>1, PipelineAssumption, FS_Subset
  <1>3. QED BY <1>2, FS_CardinalityType

\* No nonce falls due.
LEMMA DueShrinks ==
  ASSUME PTypeOK, DueCovered, \A a \in Relayer : Due(a)' \subseteq Due(a),
         UNCHANGED <<next, confirmed, inFlight>>
  PROVE  DueCovered'
  <1>1. SUFFICES ASSUME NEW a \in Relayer
                 PROVE  Cardinality(Due(a)') <= inFlight[a] /\ confirmed[a] <= next[a]
    BY DEF DueCovered
  <1>2. Cardinality(Due(a)) <= inFlight[a] /\ confirmed[a] <= next[a] /\ inFlight[a] \in Nat
    BY DEF DueCovered, PTypeOK
  <1>3. PICK old, new : old = Due(a) /\ new = Due(a)'
    OBVIOUS
  <1>4. /\ IsFiniteSet(old) /\ new \subseteq old
        /\ Cardinality(old) \in Nat /\ Cardinality(new) \in Nat
    BY <1>3, DueFinite, DueFiniteNext
  <1>5. Cardinality(new) <= Cardinality(old)
    BY <1>4, FS_Subset
  <1>6. Cardinality(new) <= inFlight[a]
    BY <1>2, <1>3, <1>4, <1>5
  <1>7. QED BY <1>2, <1>3, <1>6

\* The nonce of x is confirmed and counts no longer.
LEMMA DueConfirmed ==
  ASSUME PTypeOK, NoCollisions, DueCovered, \A b \in Relayer : Due(b)' \subseteq Due(b),
         NEW a \in Relayer, NEW x \in Due(a), x \notin Due(a)',
         Confirm(a, nonce[x]), UNCHANGED next
  PROVE  DueCovered'
  <1>1. ASSUME NEW b \in Relayer
        PROVE  Cardinality(Due(b)') <= inFlight'[b] /\ confirmed'[b] <= next[b]
    <2>1. PICK old, new : old = Due(b) /\ new = Due(b)'
      OBVIOUS
    <2>2. /\ IsFiniteSet(old) /\ new \subseteq old
          /\ Cardinality(old) \in Nat /\ Cardinality(new) \in Nat
      BY <2>1, DueFinite, DueFiniteNext
    <2>3. /\ Cardinality(old) <= inFlight[b] /\ confirmed[b] <= next[b]
          /\ inFlight[b] \in Nat /\ confirmed[b] \in Nat /\ next[b] \in Nat
      BY <2>1 DEF DueCovered, PTypeOK
    <2>4. CASE b = a
      <3>1. nonce[x] < next[a] /\ nonce[x] \in Nat
        BY DEF Due, NoCollisions, Reserved, PTypeOK, OnTheWay
      <3>2. /\ confirmed'[a] = IF nonce[x] >= confirmed[a] THEN nonce[x] + 1 ELSE confirmed[a]
            /\ inFlight'[a] = IF inFlight[a] > 0 THEN inFlight[a] - 1 ELSE 0
        BY DEF Confirm, PTypeOK
      <3>3. confirmed'[b] <= next[b]
        BY <2>3, <2>4, <3>1, <3>2
      <3>4. Cardinality(old \ {x}) = Cardinality(old) - 1 /\ IsFiniteSet(old \ {x})
        BY <2>1, <2>2, <2>4, FS_RemoveElement
      <3>5. new \subseteq old \ {x}
        BY <2>1, <2>2, <2>4
      <3>6. Cardinality(new) <= Cardinality(old \ {x})
        BY <3>4, <3>5, FS_Subset
      <3>7. inFlight'[b] = IF inFlight[b] > 0 THEN inFlight[b] - 1 ELSE 0
        BY <2>4, <3>2
      <3>8. Cardinality(new) <= inFlight'[b]
        BY <2>2, <2>3, <3>4, <3>6, <3>7
      <3>9. QED BY <2>1, <3>3, <3>8
    <2>5. CASE b # a
      <3>1. confirmed'[b] = confirmed[b] /\ inFlight'[b] = inFlight[b]
        BY <2>5 DEF Confirm, PTypeOK
      <3>2. Cardinality(new) <= Cardinality(old)
        BY <2>2, FS_Subset
      <3>3. Cardinality(new) <= inFlight'[b]
        BY <2>2, <2>3, <3>1, <3>2
      <3>4. QED BY <2>1, <2>3, <3>1, <3>3
    <2>6. QED BY <2>4, <2>5
  <1>2. QED BY <1>1 DEF DueCovered

\* The next item of a flight is due.
LEMMA ItemDue ==
  ASSUME PipeInv, FlightVia, NEW f \in flights, NEW i \in 1 .. Len(f.items), i = f.saved + 1
  PROVE  f.items[i] \in Due(f.via)
  <1>a. PTypeOK /\ FlightInv /\ Apart
    BY DEF PipeInv, PlaceInv
  <1>1. f.saved \in Nat /\ Len(f.items) \in Nat /\ Distinct(f.items) /\ Items(f.items) \subseteq Requests
    BY <1>a, FlightTypes DEF FlightInv
  <1>2. f.items[i] \in Items(f.items) /\ call[f.items[i]] = "flushed"
    BY <1>1, <1>a DEF FlightInv, Items
  <1>3. ASSUME NEW g \in flights, g.saved > 0, g.items[g.saved] = f.items[i] PROVE FALSE
    <2>1. g.saved \in 1 .. Len(g.items)
      BY <1>a, <1>3, FlightTypes DEF FlightInv
    <2>2. g.items[g.saved] \in Items(g.items)
      BY <2>1 DEF Items
    <2>3. g = f
      BY <1>a, <1>2, <1>3, <2>2 DEF Apart
    <2>4. g.saved = i
      BY <1>1, <1>3, <2>1, <2>3 DEF Distinct
    <2>5. QED BY <1>1, <2>3, <2>4
  <1>4. QED BY <1>1, <1>2, <1>3 DEF Due, Saving, FlightVia, OnTheWay

\* Whoever is due now was due before: no call set out, no relayer changed, and
\* every save under way that is not answered is still under way.
LEMMA DueIsOld ==
  ASSUME UNCHANGED via,
         \A r \in Requests : call'[r] \in OnTheWay => call[r] \in OnTheWay /\ (Saving(r) => Saving(r)')
  PROVE  \A a \in Relayer : Due(a)' \subseteq Due(a)
  BY DEF Due

LEMMA TrackInit == Init => TrackInv
  <1>1. SUFFICES ASSUME Init PROVE TrackInv
    OBVIOUS
  <1>2. FlightVia
    BY <1>1 DEF Init, FlightVia
  <1>3. ASSUME NEW a \in Relayer PROVE Cardinality(Due(a)) <= inFlight[a] /\ confirmed[a] <= next[a]
    <2>1. Due(a) = {}
      BY <1>1 DEF Init, Due, OnTheWay
    <2>2. inFlight[a] = 0 /\ confirmed[a] = 0 /\ next[a] = 0
      BY <1>1 DEF Init
    <2>3. QED BY <2>1, <2>2, FS_EmptySet
  <1>4. QED BY <1>2, <1>3 DEF TrackInv, DueCovered
LEMMA TrackFlushed ==
  ASSUME PipeInv, TrackInv, NEW a \in Relayer, NEW s \in Seq(Requests),
         \A r \in Items(s) : call[r] \in {"signing", "batched"} /\ via[r] = a,
         Flush(a, s), UNCHANGED <<via, next, confirmed, inFlight>>
  PROVE  TrackInv'
  <1>a. PTypeOK /\ FlightVia /\ DueCovered
    BY DEF PipeInv, TrackInv
  <1>1. PICK g : g = [via |-> a, items |-> s, saved |-> 0]
    OBVIOUS
  <1>2. flights' = flights \cup {g} /\ g.items = s /\ g.via = a
    BY <1>1 DEF Flush
  <1>3. FlightVia'
    BY <1>a, <1>2 DEF FlightVia
  <1>4. \A r \in Requests : call'[r] \in OnTheWay => call[r] \in OnTheWay /\ (Saving(r) => Saving(r)')
    <2>1. \A r \in Requests : call'[r] \in OnTheWay => call[r] \in OnTheWay
      BY DEF Flush, OnTheWay
    <2>2. \A r \in Requests : Saving(r) => Saving(r)'
      BY <1>2 DEF Saving
    <2>3. QED BY <2>1, <2>2
  <1>5. \A b \in Relayer : Due(b)' \subseteq Due(b)
    BY <1>4, DueIsOld
  <1>6. DueCovered'
    BY <1>a, <1>5, DueShrinks
  <1>7. QED BY <1>3, <1>6 DEF TrackInv

\* Nothing moves in the flights, and no call sets out.
LEMMA TrackQuiet ==
  ASSUME PipeInv, TrackInv, UNCHANGED <<flights, via, next, confirmed, inFlight>>,
         \A r \in Requests : call'[r] \in OnTheWay => call[r] \in OnTheWay
  PROVE  TrackInv'
  <1>a. PTypeOK /\ FlightVia /\ DueCovered
    BY DEF PipeInv, TrackInv
  <1>1. FlightVia'
    BY <1>a DEF FlightVia
  <1>2. \A r \in Requests : Saving(r)' <=> Saving(r)
    BY DEF Saving
  <1>3. \A b \in Relayer : Due(b)' \subseteq Due(b)
    BY <1>2, DueIsOld
  <1>4. DueCovered'
    BY <1>a, <1>3, DueShrinks
  <1>5. QED BY <1>1, <1>4 DEF TrackInv

\* A call sets out with a nonce, which the tracker counts.
LEMMA TrackReserved ==
  ASSUME PipeInv, TrackInv, NEW r \in Requests, Reserve(r)
  PROVE  TrackInv'
  <1>a. PTypeOK /\ FlightVia /\ DueCovered /\ FlightInv
    BY DEF PipeInv, TrackInv, PlaceInv
  <1>1. PICK a \in Relayer : a = turn
    BY <1>a DEF PTypeOK
  <1>2. /\ call[r] = "lookup" /\ flights' = flights /\ confirmed' = confirmed
        /\ \A q \in Requests : q # r => via'[q] = via[q] /\ call'[q] = call[q]
        /\ next' = [next EXCEPT ![a] = @ + 1] /\ inFlight' = [inFlight EXCEPT ![a] = @ + 1]
        /\ via'[r] = a
    BY <1>a, <1>1 DEF Reserve, Tell, qvars, PTypeOK
  <1>3. FlightVia'
    <2>1. \A f \in flights : r \notin Items(f.items) /\ Items(f.items) \subseteq Requests
      BY <1>a, <1>2, FlightTypes DEF FlightInv
    <2>2. QED BY <1>a, <1>2, <2>1 DEF FlightVia
  <1>4. ASSUME NEW q PROVE Saving(q)' <=> Saving(q)
    BY <1>2 DEF Saving
  <1>5. ASSUME NEW b \in Relayer
        PROVE  Cardinality(Due(b)') <= inFlight'[b] /\ confirmed'[b] <= next'[b]
    <2>1. PICK old, new : old = Due(b) /\ new = Due(b)'
      OBVIOUS
    <2>2. /\ IsFiniteSet(old) /\ IsFiniteSet(new)
          /\ Cardinality(old) \in Nat /\ Cardinality(new) \in Nat
      BY <2>1, DueFinite, DueFiniteNext
    <2>3. /\ Cardinality(old) <= inFlight[b] /\ confirmed[b] <= next[b]
          /\ inFlight[b] \in Nat /\ confirmed[b] \in Nat /\ next[b] \in Nat
      BY <1>a, <2>1 DEF DueCovered, PTypeOK
    <2>4. CASE b = a
      <3>1. new \subseteq old \cup {r}
        BY <1>2, <1>4, <2>1 DEF Due
      <3>2. IsFiniteSet(old \cup {r}) /\ Cardinality(old \cup {r}) <= Cardinality(old) + 1
        <4>1. IsFiniteSet(old \cup {r})
              /\ Cardinality(old \cup {r}) = IF r \in old THEN Cardinality(old) ELSE Cardinality(old) + 1
          BY <2>2, FS_AddElement
        <4>2. QED BY <2>2, <4>1
      <3>3. Cardinality(old \cup {r}) \in Nat /\ Cardinality(new) <= Cardinality(old \cup {r})
        BY <3>1, <3>2, FS_Subset, FS_CardinalityType
      <3>4. inFlight'[b] = inFlight[b] + 1 /\ next'[b] = next[b] + 1
        BY <1>a, <1>2, <2>4 DEF PTypeOK
      <3>5. Cardinality(new) <= inFlight'[b] /\ confirmed[b] <= next'[b]
        BY <2>2, <2>3, <3>2, <3>3, <3>4
      <3>6. QED BY <1>2, <2>1, <3>5
    <2>5. CASE b # a
      <3>1. new \subseteq old
        BY <1>2, <1>4, <2>1, <2>5 DEF Due
      <3>2. Cardinality(new) <= Cardinality(old)
        BY <2>2, <3>1, FS_Subset
      <3>3. inFlight'[b] = inFlight[b] /\ next'[b] = next[b]
        BY <1>a, <1>2, <2>5 DEF PTypeOK
      <3>4. Cardinality(new) <= inFlight[b]
        BY <2>2, <2>3, <3>2
      <3>5. QED BY <1>2, <2>1, <2>3, <3>3, <3>4
    <2>6. QED BY <2>4, <2>5
  <1>6. DueCovered'
    BY <1>5 DEF DueCovered
  <1>7. QED BY <1>3, <1>6 DEF TrackInv

LEMMA TrackSettle ==
  ASSUME PipeInv, TrackInv, NEW r \in Requests, Settle(r)
  PROVE  TrackInv'
  <1>a. PTypeOK /\ BatchInv
    BY DEF PipeInv, PlaceInv
  <1>1. CASE Reserve(r)
    BY <1>1, TrackReserved
  <1>2. CASE Arrive(r) \/ Known(r) \/ Saturated(r) \/ SignFails(r)
    <2>1. /\ UNCHANGED <<flights, via, next, confirmed, inFlight>>
          /\ \E v \in {"lookup", "ok", "saturated", "rejected"} : call' = [call EXCEPT ![r] = v]
      BY <1>2 DEF Arrive, Known, Saturated, SignFails, Tell, qvars, nvars
    <2>2. \A q \in Requests : call'[q] \in OnTheWay => call[q] \in OnTheWay
      BY <1>a, <2>1 DEF OnTheWay, PTypeOK
    <2>3. QED BY <2>1, <2>2, TrackQuiet
  <1>3. CASE SignReturns(r)
    <2>1. PICK a \in Relayer : a = via[r]
      BY <1>a DEF PTypeOK
    <2>2. batch[a] \in Seq(Requests)
      BY <1>a DEF PTypeOK
    <2>3. PICK s : s = Append(batch[a], r)
      OBVIOUS
    <2>4. s \in Seq(Requests) /\ Items(s) = Items(batch[a]) \cup {r}
      BY <2>2, <2>3, ItemsAppend
    <2>5. call[r] = "signing" /\ UNCHANGED <<via, next, confirmed, inFlight>>
      BY <1>3 DEF SignReturns, nvars
    <2>6. CASE Len(s) >= BatchSize
      <3>1. Flush(a, s)
        BY <1>3, <2>1, <2>3, <2>6 DEF SignReturns
      <3>2. \A q \in Items(s) : call[q] \in {"signing", "batched"} /\ via[q] = a
        BY <1>a, <2>1, <2>4, <2>5 DEF BatchInv
      <3>3. QED BY <2>4, <2>5, <3>1, <3>2, TrackFlushed
    <2>7. CASE ~(Len(s) >= BatchSize)
      <3>1. call' = [call EXCEPT ![r] = "batched"] /\ UNCHANGED flights
        BY <1>3, <2>1, <2>3, <2>7 DEF SignReturns, Tell
      <3>2. \A q \in Requests : call'[q] \in OnTheWay => call[q] \in OnTheWay
        BY <1>a, <2>5, <3>1 DEF OnTheWay, PTypeOK
      <3>3. QED BY <2>5, <3>1, <3>2, TrackQuiet
    <2>8. QED BY <2>6, <2>7
  <1>4. QED BY <1>1, <1>2, <1>3 DEF Settle

LEMMA TrackTimer ==
  ASSUME PipeInv, TrackInv, NEW a \in Relayer, TimerFires(a)
  PROVE  TrackInv'
  <1>a. PTypeOK /\ BatchInv
    BY DEF PipeInv, PlaceInv
  <1>1. UNCHANGED <<via, next, confirmed, inFlight>>
    BY DEF TimerFires, nvars
  <1>2. CASE batch[a] = <<>>
    <2>1. UNCHANGED <<call, flights>>
      BY <1>2 DEF TimerFires
    <2>2. QED BY <1>1, <2>1, TrackQuiet
  <1>3. CASE batch[a] # <<>>
    <2>1. PICK s \in Seq(Requests) : s = batch[a]
      BY <1>a DEF PTypeOK
    <2>2. Flush(a, s)
      BY <1>3, <2>1 DEF TimerFires
    <2>3. \A q \in Items(s) : call[q] \in {"signing", "batched"} /\ via[q] = a
      BY <1>a, <2>1 DEF BatchInv
    <2>4. QED BY <1>1, <2>1, <2>2, <2>3, TrackFlushed
  <1>4. QED BY <1>2, <1>3
\* The saves go on: the nonce of the next item is confirmed.
LEMMA TrackSaving ==
  ASSUME PipeInv, TrackInv, NEW f \in flights, NEW i \in 1 .. Len(f.items), i = f.saved + 1,
         SaveItem(f, i),
         \A r \in Requests : call'[r] = call[r] \/ call'[r] = "ok",
         i > 1 => call'[f.items[i - 1]] = "ok",
         UNCHANGED <<via, next>>
  PROVE  TrackInv'
  <1>a. PTypeOK /\ FlightVia /\ DueCovered /\ NoCollisions
    BY DEF PipeInv, TrackInv
  <1>1. PICK h : h = [f EXCEPT !.saved = i]
    OBVIOUS
  <1>2. h.items = f.items /\ h.via = f.via /\ h.saved = i
    <2>1. h = [via |-> f.via, items |-> f.items, saved |-> i]
      BY <1>a, <1>1, MovedFlight
    <2>2. QED BY <2>1
  <1>3. flights' = (flights \ {f}) \cup {h} /\ f.saved \in Nat /\ f.via \in Relayer
    BY <1>a, <1>1, FlightTypes DEF SaveItem
  <1>4. FlightVia'
    BY <1>a, <1>2, <1>3 DEF FlightVia
  <1>5. ASSUME NEW r \in Requests, call'[r] \in OnTheWay
        PROVE  call[r] \in OnTheWay /\ (Saving(r) => Saving(r)')
    <2>1. call[r] \in OnTheWay /\ call'[r] # "ok"
      BY <1>5 DEF OnTheWay
    <2>2. ASSUME Saving(r) PROVE Saving(r)'
      <3>1. PICK g \in flights : g.saved > 0 /\ g.items[g.saved] = r
        BY <2>2 DEF Saving
      <3>2. g # f
        <4>1. SUFFICES ASSUME g = f PROVE FALSE
          OBVIOUS
        <4>2. i - 1 = f.saved /\ i > 1
          BY <1>3, <3>1, <4>1
        <4>3. QED BY <2>1, <3>1, <4>1, <4>2
      <3>3. QED BY <1>3, <3>1, <3>2 DEF Saving
    <2>3. QED BY <2>1, <2>2
  <1>6. \A b \in Relayer : Due(b)' \subseteq Due(b)
    BY <1>5, DueIsOld
  <1>7. PICK x : x = f.items[i]
    OBVIOUS
  <1>8. x \in Due(f.via)
    BY <1>a, <1>7, ItemDue
  <1>9. x \notin Due(f.via)'
    <2>1. Saving(x)'
      BY <1>2, <1>3, <1>7 DEF Saving
    <2>2. QED BY <2>1 DEF Due
  <1>10. Confirm(f.via, nonce[x])
    BY <1>7 DEF SaveItem
  <1>11. DueCovered'
    BY <1>a, <1>3, <1>6, <1>8, <1>9, <1>10, DueConfirmed
  <1>12. QED BY <1>4, <1>11 DEF TrackInv

\* A flight that ends leaves none of its requests on the way.
LEMMA DueLanded ==
  ASSUME PipeInv, TrackInv, NEW f \in flights, flights' = flights \ {f}, UNCHANGED via,
         \A r \in Requests : r \notin Items(f.items) => call'[r] = call[r],
         \A r \in Items(f.items) : call'[r] \notin OnTheWay
  PROVE  FlightVia' /\ \A a \in Relayer : Due(a)' \subseteq Due(a)
  <1>a. PTypeOK /\ FlightVia /\ FlightInv
    BY DEF PipeInv, TrackInv, PlaceInv
  <1>1. FlightVia'
    BY <1>a DEF FlightVia
  <1>2. ASSUME NEW r \in Requests, call'[r] \in OnTheWay
        PROVE  call[r] \in OnTheWay /\ (Saving(r) => Saving(r)')
    <2>1. r \notin Items(f.items) /\ call[r] \in OnTheWay
      BY <1>2
    <2>2. ASSUME Saving(r) PROVE Saving(r)'
      <3>1. PICK g \in flights : g.saved > 0 /\ g.items[g.saved] = r
        BY <2>2 DEF Saving
      <3>2. g.saved \in 1 .. Len(g.items)
        BY <1>a, <3>1, FlightTypes DEF FlightInv
      <3>3. r \in Items(g.items)
        BY <3>1, <3>2 DEF Items
      <3>4. QED BY <2>1, <3>1, <3>3 DEF Saving
    <2>3. QED BY <2>1, <2>2
  <1>3. QED BY <1>1, <1>2, DueIsOld

LEMMA TrackSendFails ==
  ASSUME PipeInv, TrackInv, NEW f \in flights, SendFails(f)
  PROVE  TrackInv'
  <1>a. PTypeOK /\ DueCovered
    BY DEF PipeInv, TrackInv
  <1>1. flights' = flights \ {f} /\ UNCHANGED <<via, next, confirmed, inFlight>>
    BY DEF SendFails, Land, nvars
  <1>2. \A r \in Requests : call'[r] = IF r \in Items(f.items) THEN "failed" ELSE call[r]
    BY DEF SendFails, Fail
  <1>3. \A r \in Items(f.items) : call'[r] \notin OnTheWay
    BY <1>a, <1>2, FlightTypes DEF OnTheWay
  <1>4. FlightVia' /\ \A a \in Relayer : Due(a)' \subseteq Due(a)
    BY <1>1, <1>2, <1>3, DueLanded
  <1>5. QED BY <1>a, <1>1, <1>4, DueShrinks DEF TrackInv

LEMMA TrackSaveReturns ==
  ASSUME PipeInv, TrackInv, NEW f \in flights, SaveReturns(f)
  PROVE  TrackInv'
  <1>a. PTypeOK /\ DueCovered /\ FlightInv
    BY DEF PipeInv, TrackInv, PlaceInv
  <1>1. /\ f.saved > 0 /\ f.saved \in Nat /\ Len(f.items) \in Nat /\ f.saved <= Len(f.items)
        /\ Items(f.items) \subseteq Requests
    BY <1>a, FlightTypes DEF SaveReturns, FlightInv
  <1>2. call' = [call EXCEPT ![f.items[f.saved]] = "ok"] /\ UNCHANGED <<via, next>>
    BY DEF SaveReturns, Tell
  <1>3. f.items[f.saved] \in Items(f.items)
    BY <1>1 DEF Items
  <1>4. \A r \in Requests : call'[r] = IF r = f.items[f.saved] THEN "ok" ELSE call[r]
    BY <1>a, <1>2 DEF PTypeOK
  <1>5. CASE f.saved < Len(f.items)
    <2>1. PICK i \in 1 .. Len(f.items) : i = f.saved + 1 /\ i - 1 = f.saved
      BY <1>1, <1>5
    <2>2. SaveItem(f, i)
      BY <1>5, <2>1 DEF SaveReturns
    <2>3. \A r \in Requests : call'[r] = call[r] \/ call'[r] = "ok"
      BY <1>4
    <2>4. call'[f.items[i - 1]] = "ok"
      BY <1>1, <1>3, <1>4, <2>1
    <2>5. QED BY <1>2, <2>1, <2>2, <2>3, <2>4, TrackSaving
  <1>6. CASE ~(f.saved < Len(f.items))
    <2>1. flights' = flights \ {f} /\ UNCHANGED <<confirmed, inFlight>>
      BY <1>6 DEF SaveReturns, Land
    <2>2. ASSUME NEW j \in 1 .. Len(f.items) PROVE call'[f.items[j]] = "ok"
      <3>1. f.items[j] \in Requests
        BY <1>1 DEF Items
      <3>2. CASE j = f.saved
        BY <1>4, <3>1, <3>2
      <3>3. CASE j # f.saved
        <4>1. j \in 1 .. f.saved - 1
          BY <1>1, <1>6, <3>3
        <4>2. QED BY <1>a, <1>4, <3>1, <4>1 DEF FlightInv
      <3>4. QED BY <3>2, <3>3
    <2>3. \A r \in Items(f.items) : call'[r] \notin OnTheWay
      BY <2>2 DEF Items, OnTheWay
    <2>4. \A r \in Requests : r \notin Items(f.items) => call'[r] = call[r]
      BY <1>3, <1>4
    <2>5. FlightVia' /\ \A a \in Relayer : Due(a)' \subseteq Due(a)
      BY <1>2, <2>1, <2>3, <2>4, DueLanded
    <2>6. QED BY <1>a, <1>2, <2>1, <2>5, DueShrinks DEF TrackInv
  <1>7. QED BY <1>5, <1>6

LEMMA TrackSendReturns ==
  ASSUME PipeInv, TrackInv, NEW f \in flights, SendReturns(f)
  PROVE  TrackInv'
  <1>a. PTypeOK /\ FlightInv
    BY DEF PipeInv, PlaceInv
  <1>1. PICK i \in 1 .. Len(f.items) : i = 1
    BY <1>a, FlightTypes DEF FlightInv
  <1>2. i = f.saved + 1 /\ ~(i > 1) /\ SaveItem(f, i) /\ UNCHANGED <<call, via, next>>
    BY <1>1 DEF SendReturns, cvars
  <1>3. \A r \in Requests : call'[r] = call[r] \/ call'[r] = "ok"
    BY <1>2
  <1>4. QED BY <1>2, <1>3, TrackSaving

LEMMA TrackSaveThrows ==
  ASSUME PipeInv, TrackInv, NEW f \in flights, SaveThrows(f)
  PROVE  TrackInv'
  <1>a. PTypeOK /\ DueCovered /\ FlightVia /\ NoCollisions /\ FlightInv
    BY DEF PipeInv, TrackInv, PlaceInv
  <1>1. /\ f.saved \in Nat /\ Len(f.items) \in Nat /\ f.via \in Relayer
        /\ f.items \in Seq(Requests) /\ Items(f.items) \subseteq Requests
    BY <1>a, FlightTypes
  <1>2. PICK i \in 1 .. Len(f.items) : i = f.saved + 1
    BY <1>1 DEF SaveThrows
  <1>3. PICK dropped : dropped = Items(SubSeq(f.items, i, Len(f.items)))
    OBVIOUS
  <1>4. /\ \A r \in Requests : call'[r] = IF r \in dropped THEN "failed"
                                         ELSE IF i > 1 /\ r = f.items[i - 1] THEN "ok" ELSE call[r]
        /\ flights' = flights \ {f} /\ Confirm(f.via, nonce[f.items[i]]) /\ UNCHANGED <<via, next>>
    BY <1>2, <1>3 DEF SaveThrows, Land
  <1>5. dropped = {f.items[k] : k \in i .. Len(f.items)}
    BY <1>1, <1>3, ItemsTail
  <1>6. ASSUME NEW j \in 1 .. Len(f.items) PROVE call'[f.items[j]] \notin OnTheWay
    <2>1. f.items[j] \in Requests
      BY <1>1 DEF Items
    <2>2. CASE j >= i
      <3>1. f.items[j] \in dropped
        BY <1>1, <1>5, <2>2
      <3>2. QED BY <1>4, <2>1, <3>1 DEF OnTheWay
    <2>3. CASE j = i - 1
      <3>1. i > 1
        BY <2>3
      <3>2. QED BY <1>4, <2>1, <2>3, <3>1 DEF OnTheWay
    <2>4. CASE j < i - 1
      <3>1. j \in 1 .. f.saved - 1
        BY <1>1, <1>2, <2>4
      <3>2. call[f.items[j]] = "ok"
        BY <1>a, <3>1 DEF FlightInv
      <3>3. QED BY <1>4, <2>1, <3>2 DEF OnTheWay
    <2>5. QED BY <1>1, <2>2, <2>3, <2>4
  <1>7. \A r \in Items(f.items) : call'[r] \notin OnTheWay
    BY <1>6 DEF Items
  <1>8. \A r \in Requests : r \notin Items(f.items) => call'[r] = call[r]
    <2>1. dropped \subseteq Items(f.items)
      BY <1>1, <1>5 DEF Items
    <2>2. i > 1 => f.items[i - 1] \in Items(f.items)
      BY <1>1 DEF Items
    <2>3. QED BY <1>4, <2>1, <2>2
  <1>9. FlightVia' /\ \A a \in Relayer : Due(a)' \subseteq Due(a)
    BY <1>4, <1>7, <1>8, DueLanded
  <1>10. PICK x : x = f.items[i]
    OBVIOUS
  <1>11. x \in Due(f.via) /\ x \notin Due(f.via)'
    <2>1. x \in Due(f.via)
      BY <1>a, <1>2, <1>10, ItemDue
    <2>2. call'[x] \notin OnTheWay
      BY <1>6, <1>10
    <2>3. QED BY <2>1, <2>2 DEF Due
  <1>12. DueCovered'
    BY <1>a, <1>1, <1>4, <1>9, <1>10, <1>11, DueConfirmed
  <1>13. QED BY <1>9, <1>12 DEF TrackInv

LEMMA TrackCrash ==
  ASSUME PTypeOK, Crash
  PROVE  TrackInv'
  <1>1. FlightVia'
    BY DEF Crash, FlightVia
  <1>2. ASSUME NEW a \in Relayer PROVE Cardinality(Due(a)') <= inFlight'[a] /\ confirmed'[a] <= next'[a]
    <2>1. inFlight'[a] = 0 /\ confirmed'[a] = 0 /\ next'[a] = 0
      BY DEF Crash
    <2>2. \A r \in Requests : call'[r] \notin OnTheWay
      BY DEF Crash, Inside, OnTheWay
    <2>3. Due(a)' = {}
      BY <2>2 DEF Due
    <2>4. QED BY <2>1, <2>3, FS_EmptySet
  <1>3. QED BY <1>1, <1>2 DEF TrackInv, DueCovered

LEMMA TrackNext == PipeInv /\ TrackInv /\ [Next]_vars => TrackInv'
  <1>1. SUFFICES ASSUME PipeInv, TrackInv, [Next]_vars PROVE TrackInv'
    OBVIOUS
  <1>2. ASSUME NEW r \in Requests, Settle(r) PROVE TrackInv'
    BY <1>1, <1>2, TrackSettle
  <1>3. ASSUME NEW a \in Relayer, TimerFires(a) PROVE TrackInv'
    BY <1>1, <1>3, TrackTimer
  <1>4. CASE \E p \in Payments : NetworkTakes(p)
    <2>1. UNCHANGED <<call, flights, via, next, confirmed, inFlight>>
      BY <1>4 DEF NetworkTakes, cvars, qvars, nvars
    <2>2. QED BY <1>1, <2>1, TrackQuiet
  <1>5. ASSUME NEW f \in flights, FlightEnds(f) PROVE TrackInv'
    BY <1>1, <1>5, TrackSendReturns, TrackSendFails, TrackSaveReturns, TrackSaveThrows DEF FlightEnds
  <1>6. CASE Crash
    BY <1>1, <1>6, TrackCrash DEF PipeInv
  <1>7. CASE UNCHANGED vars
    <2>1. UNCHANGED <<call, flights, via, next, confirmed, inFlight>>
      BY <1>7 DEF vars, cvars, qvars, nvars
    <2>2. QED BY <1>1, <2>1, TrackQuiet
  <1>8. QED BY <1>1, <1>2, <1>3, <1>4, <1>5, <1>6, <1>7 DEF Next

\* What is due is what the batches, the signer and the flights hold.
LEMMA UnconfirmedIsDue ==
  ASSUME PipeInv, FlightVia, NEW a \in Relayer
  PROVE  Unconfirmed(a) \subseteq Due(a)
  <1>a. PTypeOK /\ BatchInv /\ FlightInv /\ Apart
    BY DEF PipeInv, PlaceInv
  <1>1. ASSUME NEW r \in Requests, call[r] = "signing", via[r] = a PROVE r \in Due(a)
    BY <1>1, SavingIs DEF Due, OnTheWay
  <1>2. ASSUME NEW r \in Items(batch[a]) PROVE r \in Due(a)
    <2>1. r \in Requests /\ call[r] = "batched" /\ via[r] = a
      BY <1>a, ItemsType DEF BatchInv, PTypeOK
    <2>2. QED BY <2>1, SavingIs DEF Due, OnTheWay
  <1>3. ASSUME NEW f \in flights, f.via = a,
               NEW r \in Items(SubSeq(f.items, f.saved + 1, Len(f.items)))
        PROVE  r \in Due(a)
    <2>1. /\ f.saved \in Nat /\ Len(f.items) \in Nat /\ f.items \in Seq(Requests)
          /\ Items(f.items) \subseteq Requests /\ Distinct(f.items) /\ f.saved <= Len(f.items)
      BY <1>a, FlightTypes DEF FlightInv
    <2>2. f.saved < Len(f.items)
      <3>1. SUFFICES ASSUME f.saved = Len(f.items) PROVE FALSE
        BY <2>1
      <3>2. SubSeq(f.items, f.saved + 1, Len(f.items)) = <<>>
        BY <2>1, <3>1
      <3>3. QED BY <1>3, <3>2, ItemsEmpty
    <2>3. PICK i \in 1 .. Len(f.items) : i = f.saved + 1
      BY <2>1, <2>2
    <2>4. PICK k \in i .. Len(f.items) : r = f.items[k]
      BY <1>3, <2>1, <2>3, ItemsTail
    <2>5. k \in 1 .. Len(f.items) /\ k > f.saved
      BY <2>1, <2>3
    <2>6. r \in Items(f.items) /\ call[r] = "flushed" /\ via[r] = a /\ r \in Requests
      <3>1. r \in Items(f.items)
        BY <2>4, <2>5 DEF Items
      <3>2. call[f.items[k]] = "flushed"
        BY <1>a, <2>1, <2>5 DEF FlightInv
      <3>3. via[r] = a
        BY <1>3, <3>1 DEF FlightVia
      <3>4. QED BY <2>1, <2>4, <3>1, <3>2, <3>3
    <2>7. ASSUME NEW g \in flights, g.saved > 0, g.items[g.saved] = r PROVE FALSE
      <3>1. g.saved \in 1 .. Len(g.items)
        BY <1>a, <2>7, FlightTypes DEF FlightInv
      <3>2. r \in Items(g.items)
        BY <2>7, <3>1 DEF Items
      <3>3. g = f
        BY <1>a, <2>6, <3>2 DEF Apart
      <3>4. g.saved = k
        BY <2>1, <2>4, <2>5, <2>7, <3>1, <3>3 DEF Distinct
      <3>5. QED BY <2>1, <2>5, <3>3, <3>4
    <2>8. QED BY <2>6, <2>7 DEF Due, Saving, OnTheWay
  <1>4. QED BY <1>1, <1>2, <1>3 DEF Unconfirmed

\* pendingCount is, in every state, the number of requests in batches and in
\* batches that were flushed: a batch that lands, fails or is cut off by a
\* failed save gives back exactly its own places
\* (pipelined_settlement_queue.ts:147, 243).
THEOREM PendingExactSafe == PSpec => []PendingExact
  <1>1. Init => PendingExact
    <2>1. SUFFICES ASSUME Init PROVE PendingExact
      OBVIOUS
    <2>2. InBatches \cup InFlights = {} /\ pending = 0
      BY <2>1, ItemsEmpty DEF Init, InBatches, InFlights
    <2>3. QED BY <2>2, FS_EmptySet DEF PendingExact
  <1>2. QED BY <1>1, PendingNext, PipelinedInv, PTL DEF PSpec

\* The tracker of a relayer covers every request whose nonce is not confirmed,
\* so that a relayer is never taken to have more room than it has, and confirms
\* no nonce before it is reserved (pipelined_relayer_pool.ts:65-84).
THEOREM TrackerSafe == PSpec => []TrackerCovers
  <1>1. PSpec => []TrackInv
    BY TrackInit, TrackNext, PipelinedInv, PTL DEF PSpec
  <1>2. PipeInv /\ TrackInv => TrackerCovers
    <2>1. SUFFICES ASSUME PipeInv, TrackInv, NEW a \in Relayer
                   PROVE  Cardinality(Unconfirmed(a)) <= inFlight[a] /\ confirmed[a] <= next[a]
      BY DEF TrackerCovers
    <2>2. Unconfirmed(a) \subseteq Due(a)
      BY <2>1, UnconfirmedIsDue DEF TrackInv
    <2>3. IsFiniteSet(Due(a)) /\ Cardinality(Due(a)) \in Nat
      BY DueFinite
    <2>4. Cardinality(Unconfirmed(a)) <= Cardinality(Due(a)) /\ Cardinality(Unconfirmed(a)) \in Nat
      BY <2>2, <2>3, FS_Subset, FS_CardinalityType
    <2>5. Cardinality(Due(a)) <= inFlight[a] /\ confirmed[a] <= next[a] /\ inFlight[a] \in Nat
      BY <2>1 DEF PipeInv, PTypeOK, TrackInv, DueCovered
    <2>6. QED BY <2>3, <2>4, <2>5
  <1>3. QED BY <1>1, <1>2, PipelinedInv, PTL
=============================================================================
