----------------------------- MODULE RouterProofs -----------------------------
(***************************************************************************)
(* The router, for every number of requests, clients and providers, every  *)
(* price and every text, in two parts.                                     *)
(*                                                                         *)
(* The calls (ClawRouter): no credit is made, used twice or, once written, *)
(* lost, and who is blamed for a failure let a request down, or was the    *)
(* primary of one whose credit could not be written.                       *)
(*                                                                         *)
(* The streams (FallbackStream): the caller gets one answer, whatever the  *)
(* chunks and wherever the streams break, and a stream fails only when     *)
(* every provider has been tried.                                          *)
(***************************************************************************)
EXTENDS ClawRouter, FallbackStream, SumProofs, SequenceTheorems

-----------------------------------------------------------------------------
(*                               THE CALLS                                 *)
-----------------------------------------------------------------------------
\* The requests whose credit is spent and whose answer is still to come.
Inflight == {"verifying", "dispatching", "rating", "settling", "streaming"}
Admitted == Inflight \ {"verifying"}

\* Types, and what the handler knows at each of its awaits: a ranking, a price
\* that covers what is due, and from the dispatch on a payment of that much.
Handling ==
  /\ CTypeOK
  /\ chosen \in [Requests -> Nat]
  /\ \A r \in Requests :
       /\ stage[r] \in {"new", "challenged"} => chosen[r] = 0
       /\ stage[r] \in Working => ranked[r] # <<>>
       /\ due[r] <= price[r]
       /\ stage[r] \in Admitted => due[r] <= ask[r]
  /\ CreditDurable

\* A ranking is a sequence of providers and not empty.
LEMMA RankingsType ==
  ASSUME healthy \in [Providers -> BOOLEAN], NEW list \in Rankings
  PROVE  list \in Seq(Offered) /\ list # <<>> /\ Len(list) \in Nat \ {0}
         /\ list[1] \in Offered
<1>1. CASE HealthyOnes = {}
  <2>1. list = <<DefaultSpot>>
    BY <1>1 DEF Rankings
  <2> QED BY <2>1 DEF Offered
<1>2. CASE HealthyOnes # {}
  <2>1. IsFiniteSet(HealthyOnes) /\ HealthyOnes \subseteq Offered
    BY ClawAssumption, FS_Subset DEF HealthyOnes, Offered
  <2> DEFINE n == Cardinality(HealthyOnes)
  <2>2. n \in Nat /\ n # 0
    BY <1>2, <2>1, FS_CardinalityType, FS_EmptySet
  <2>3. list \in [1 .. n -> HealthyOnes]
    BY <1>2 DEF Rankings, SetToSeqs
  <2> HIDE DEF n
  <2>4. list \in Seq(HealthyOnes) /\ Len(list) = n
    BY <2>2, <2>3
  <2> QED BY <2>1, <2>2, <2>3, <2>4
<1> QED BY <1>1, <1>2

LEMMA PriceType ==
  ASSUME listed \in [Providers -> Prices], NEW p \in Offered
  PROVE  EstimateOf(p) \in Nat
BY ClawAssumption DEF EstimateOf, Offered

LEMMA LessOfFacts ==
  ASSUME NEW a \in Nat, NEW b \in Nat
  PROVE  LessOf(a, b) \in Nat /\ LessOf(a, b) <= a /\ LessOf(a, b) <= b
BY DEF LessOf

LEMMA CreditOfType ==
  ASSUME CTypeOK, NEW r \in Requests
  PROVE  CreditOf(r) \in Nat
BY ClawAssumption DEF CTypeOK, CreditOf

\* No credit changes in memory alone.
Booked ==
  /\ credit' \in [Clients -> Nat] /\ stored' \in [Clients -> Nat]
  /\ \A c \in Clients :
       stored'[c] = credit'[c] \/ (stored'[c] = stored[c] /\ credit'[c] = credit[c])

\* The request of a failed write stays until the process ends.
LEMMA DurableStep ==
  ASSUME CreditDurable, Booked, NEW r \in Requests, stage[r] # "unbooked",
         \A q \in Requests \ {r} : stage'[q] = stage[q]
  PROVE  CreditDurable'
<1> SUFFICES ASSUME NEW c \in Clients
             PROVE  /\ stored'[c] <= credit'[c]
                    /\ stored'[c] = credit'[c] \/ \E q \in Of(c) : stage'[q] = "unbooked"
  BY DEF CreditDurable, Of
<1>1. CASE stored'[c] = credit'[c]
  BY <1>1 DEF Booked
<1>2. CASE stored'[c] = stored[c] /\ credit'[c] = credit[c]
  BY <1>2 DEF CreditDurable, Of
<1> QED BY <1>1, <1>2 DEF Booked

\* What applyCredit does: the part that credit covers leaves the account.
LEMMA AppliedCredit ==
  ASSUME CTypeOK, NEW r \in Requests, NEW full \in Nat, ApplyCredit(r, full)
  PROVE  /\ Remaining(r, full) \in Nat /\ Remaining(r, full) <= full
         /\ Booked
         /\ \A c \in Clients :
              credit'[c] = IF c = ClientOf[r] THEN credit[c] - (full - Remaining(r, full))
                                              ELSE credit[c]
<1>1. CreditOf(r) \in Nat
  BY CreditOfType
<1> DEFINE used == LessOf(CreditOf(r), full)
<1>2. used \in Nat /\ used <= CreditOf(r) /\ used <= full
  BY <1>1, LessOfFacts
<1>3. Remaining(r, full) = full - used
  BY DEF Remaining
<1> HIDE DEF used
<1>4. Remaining(r, full) \in Nat /\ Remaining(r, full) <= full /\ full - Remaining(r, full) = used
  BY <1>2, <1>3
<1>5. CASE CreditOf(r) = 0
  <2>1. used = 0 /\ UNCHANGED lvars
    BY <1>2, <1>5 DEF ApplyCredit
  <2> QED BY <1>4, <2>1 DEF lvars, CTypeOK, Booked
<1>6. CASE CreditOf(r) # 0
  <2>1. ClientOf[r] \in Clients /\ CreditOf(r) = credit[ClientOf[r]]
    BY <1>6, ClawAssumption DEF CreditOf
  <2>2. /\ credit' = [credit EXCEPT ![ClientOf[r]] = CreditOf(r) - used]
        /\ stored' = [stored EXCEPT ![ClientOf[r]] = CreditOf(r) - used]
    BY <1>6 DEF ApplyCredit, SetCredit, used
  <2>3. CreditOf(r) - used \in Nat
    BY <1>1, <1>2
  <2> QED BY <1>4, <2>1, <2>2, <2>3 DEF CTypeOK, Booked
<1> QED BY <1>4, <1>5, <1>6

\* What reconcile does: what was estimated too high comes back.
LEMMA ReconciledCredit ==
  ASSUME CTypeOK, NEW r \in Requests, NEW actual \in Nat, Reconcile(r, actual)
  PROVE  /\ Booked
         /\ \A c \in Clients :
              credit'[c] = IF c = ClientOf[r] /\ price[r] > actual
                           THEN credit[c] + (price[r] - actual) ELSE credit[c]
<1>1. price[r] \in Nat
  BY DEF CTypeOK
<1>2. CASE ClientOf[r] # NoClient /\ price[r] > actual
  <2>1. ClientOf[r] \in Clients /\ CreditOf(r) = credit[ClientOf[r]] /\ credit[ClientOf[r]] \in Nat
    BY <1>2, ClawAssumption DEF CreditOf, CTypeOK
  <2> DEFINE m == credit[ClientOf[r]] + (price[r] - actual)
  <2>2. CreditOf(r) + price[r] - actual = m /\ m \in Nat
    BY <1>1, <1>2, <2>1
  <2>3. /\ credit' = [credit EXCEPT ![ClientOf[r]] = m]
        /\ stored' = [stored EXCEPT ![ClientOf[r]] = m]
    BY <1>2, <2>2 DEF Reconcile, Unspent, SetCredit
  <2> QED BY <1>2, <2>1, <2>2, <2>3 DEF CTypeOK, Booked
<1>3. CASE ~(ClientOf[r] # NoClient /\ price[r] > actual)
  <2>1. UNCHANGED lvars
    BY <1>3 DEF Reconcile, Unspent
  <2>2. \A c \in Clients : ~(c = ClientOf[r] /\ price[r] > actual)
    BY <1>3, ClawAssumption
  <2> QED BY <2>1, <2>2 DEF lvars, CTypeOK, Booked
<1> QED BY <1>2, <1>3

-----------------------------------------------------------------------------
\* What a request of a client has cost it in credit, or been served for, and
\* what was paid for it: the credit spent on a request that is not served yet
\* counts as a cost, so that credit cannot be spent twice meanwhile.
Gain ==
  [r \in Requests |-> IF stage[r] \in Delivered THEN LessOf(cost[r], price[r])
                      ELSE IF stage[r] \in Inflight THEN price[r] - due[r] ELSE 0]
Pay == [r \in Requests |-> IF stage[r] \in Delivered THEN ask[r] ELSE 0]

Balanced ==
  \A c \in Clients : credit[c] + Sum(Gain, Of(c)) <= Saved[c] + Sum(Pay, Of(c))

RInv == Handling /\ Balanced

Amounts == \A r \in Requests : Gain[r] \in Nat /\ Pay[r] \in Nat

LEMMA BalanceTypes == Handling => Amounts
<1> SUFFICES ASSUME Handling, NEW r \in Requests PROVE Gain[r] \in Nat /\ Pay[r] \in Nat
  BY DEF Amounts
<1>1. /\ cost[r] \in Nat /\ price[r] \in Nat /\ due[r] \in Nat /\ ask[r] \in Nat
      /\ due[r] <= price[r]
  BY ClawAssumption DEF Handling, CTypeOK
<1>2. LessOf(cost[r], price[r]) \in Nat
  BY <1>1 DEF LessOf
<1>4. price[r] - due[r] \in Nat
  BY <1>1
<1>3. /\ Gain[r] \in {LessOf(cost[r], price[r]), price[r] - due[r], 0}
      /\ Pay[r] \in {ask[r], 0}
  BY DEF Gain, Pay
<1> QED BY <1>1, <1>2, <1>3, <1>4

LEMMA BalanceTypesNext == Handling' => Amounts'
BY BalanceTypes, PTL

\* A step of one request keeps the balance if its client does not gain by it.
LEMMA BalanceStep ==
  ASSUME Handling, Handling', Balanced, NEW r \in Requests,
         \A q \in Requests \ {r} :
           /\ stage'[q] = stage[q] /\ cost'[q] = cost[q] /\ price'[q] = price[q]
           /\ due'[q] = due[q] /\ ask'[q] = ask[q],
         \A c \in Clients :
           IF c = ClientOf[r]
           THEN credit'[c] + Gain'[r] + Pay[r] <= credit[c] + Gain[r] + Pay'[r]
           ELSE credit'[c] = credit[c]
  PROVE  Balanced'
<1> SUFFICES ASSUME NEW c \in Clients
             PROVE  credit'[c] + Sum(Gain', Of(c)) <= Saved[c] + Sum(Pay', Of(c))
  BY DEF Balanced, Of
<1> PICK g0 : g0 = Gain
  OBVIOUS
<1> PICK g1 : g1 = Gain'
  OBVIOUS
<1> PICK p0 : p0 = Pay
  OBVIOUS
<1> PICK p1 : p1 = Pay'
  OBVIOUS
<1>1. \A q \in Requests : g0[q] \in Nat /\ p0[q] \in Nat /\ g1[q] \in Nat /\ p1[q] \in Nat
  BY BalanceTypes, BalanceTypesNext DEF Amounts
<1>2. \A q \in Requests \ {r} : g1[q] = g0[q] /\ p1[q] = p0[q]
  <2> TAKE q \in Requests \ {r}
  <2>1. /\ stage'[q] = stage[q] /\ cost'[q] = cost[q] /\ price'[q] = price[q]
        /\ due'[q] = due[q] /\ ask'[q] = ask[q]
    OBVIOUS
  <2>2. Gain'[q] = Gain[q]
    BY <2>1 DEF Gain, LessOf
  <2>3. Pay'[q] = Pay[q]
    BY <2>1 DEF Pay
  <2> QED BY <2>2, <2>3
<1>3. IsFiniteSet(Of(c)) /\ Of(c) \subseteq Requests
  BY ClawAssumption, FS_Subset DEF Of
<1> DEFINE G0 == Sum(g0, Of(c))
           G1 == Sum(g1, Of(c))
           P0 == Sum(p0, Of(c))
           P1 == Sum(p1, Of(c))
<1>4. G0 \in Nat /\ G1 \in Nat /\ P0 \in Nat /\ P1 \in Nat
  BY <1>1, <1>3, SumType
<1>5. /\ credit[c] \in Nat /\ credit'[c] \in Nat /\ Saved[c] \in Nat
      /\ credit[c] + G0 <= Saved[c] + P0
  BY ClawAssumption DEF Handling, CTypeOK, Balanced
<1>6. CASE c # ClientOf[r]
  <2>1. \A q \in Of(c) : g1[q] = g0[q] /\ p1[q] = p0[q]
    BY <1>2, <1>6 DEF Of
  <2>2. G1 = G0 /\ P1 = P0
    BY <1>1, <1>3, <2>1, SumSame
  <2>3. credit'[c] = credit[c]
    BY <1>6
  <2> QED BY <1>5, <2>2, <2>3
<1>7. CASE c = ClientOf[r]
  <2>1. r \in Of(c)
    BY <1>7 DEF Of
  <2>2. G1 = G0 - g0[r] + g1[r] /\ P1 = P0 - p0[r] + p1[r]
    BY <1>1, <1>2, <1>3, <2>1, SumChange
  <2>3. credit'[c] + g1[r] + p0[r] <= credit[c] + g0[r] + p1[r]
    BY <1>7
  <2>4. g0[r] \in Nat /\ g1[r] \in Nat /\ p0[r] \in Nat /\ p1[r] \in Nat
    BY <1>1
  <2>5. credit'[c] + G1 <= Saved[c] + P1
    <3> HIDE DEF G0, G1, P0, P1
    <3> QED BY <1>4, <1>5, <2>2, <2>3, <2>4
  <2> QED BY <2>5
<1> QED BY <1>6, <1>7

\* A request that has not been served costs nothing when it is dropped or fails.
LEMMA BalanceDrops ==
  ASSUME Handling, Handling', Balanced, NEW r \in Requests, NEW s \in Stages \ Delivered,
         s \in Inflight => stage[r] \in Inflight, stage[r] \notin Delivered,
         stage' = [stage EXCEPT ![r] = s],
         UNCHANGED <<ask, due, price, cost, credit>>
  PROVE  Balanced'
<1>1. /\ stage'[r] = s /\ \A q \in Requests \ {r} : stage'[q] = stage[q]
  BY DEF Handling, CTypeOK
<1>2. Gain[r] \in Nat /\ Pay'[r] = 0 /\ Pay[r] = 0
  BY <1>1, BalanceTypes DEF Pay, Amounts
<1>3. Gain'[r] = 0 \/ Gain'[r] = Gain[r]
  BY <1>1 DEF Gain, Inflight
<1>4. \A c \in Clients : credit[c] \in Nat
  BY DEF Handling, CTypeOK
<1>5. \A c \in Clients : credit'[c] + Gain'[r] + Pay[r] <= credit[c] + Gain[r] + Pay'[r]
  BY <1>2, <1>3, <1>4
<1> QED BY <1>1, <1>5, BalanceStep

-----------------------------------------------------------------------------
LEMMA RouterInit == ASSUME Init PROVE RInv
<1>1. Handling
  BY ClawAssumption DEF Init, Handling, CTypeOK, CreditDurable, Stages, Working, Inflight,
     Admitted, Offered
<1>2. \A r \in Requests : Gain[r] = 0 /\ Pay[r] = 0
  BY DEF Init, Gain, Pay, Inflight, Delivered
<1>3. ASSUME NEW c \in Clients PROVE credit[c] + Sum(Gain, Of(c)) <= Saved[c] + Sum(Pay, Of(c))
  <2>1. IsFiniteSet(Of(c)) /\ Of(c) \subseteq Requests
    BY ClawAssumption, FS_Subset DEF Of
  <2>2. Sum(Gain, Of(c)) = Sum(Pay, Of(c)) /\ Sum(Pay, Of(c)) \in Nat
    BY <1>2, <2>1, SumSame, SumType
  <2> QED BY <2>2, ClawAssumption DEF Init
<1> QED BY <1>1, <1>3 DEF RInv, Balanced

\* The health and the counts of the providers stay what they are.
LEMMA ReportTypes ==
  ASSUME CTypeOK, NEW p \in Offered,
         (\E slow \in BOOLEAN : ReportTtft(p, slow)) \/ ReportFailure(p)
  PROVE  healthy' \in [Providers -> BOOLEAN] /\ failures' \in [Offered -> 0 .. FailLimit - 1]
<1>1. failures[p] \in 0 .. FailLimit - 1 /\ FailLimit \in Nat \ {0}
  BY ClawAssumption DEF CTypeOK
<1>2. CASE UNCHANGED <<healthy, failures>>
  BY <1>2 DEF CTypeOK
<1>5. /\ healthy \in [Providers -> BOOLEAN]
      /\ failures \in [Offered -> 0 .. FailLimit - 1] /\ 0 \in 0 .. FailLimit - 1
  BY <1>1 DEF CTypeOK
<1>6. ASSUME NEW ok \in BOOLEAN, SetHealth(p, ok) PROVE healthy' \in [Providers -> BOOLEAN]
  BY <1>5, <1>6 DEF SetHealth
<1>3. CASE \E slow \in BOOLEAN : ReportTtft(p, slow) /\ HasSlasher
  <2> PICK slow \in BOOLEAN : ReportTtft(p, slow) /\ HasSlasher
    BY <1>3
  <2>1. healthy' \in [Providers -> BOOLEAN]
    BY <1>5 DEF ReportTtft, SetHealth
  <2>2. failures' \in [Offered -> 0 .. FailLimit - 1]
    <3>1. failures' = [failures EXCEPT ![p] = IF slow THEN @ ELSE 0]
      BY DEF ReportTtft
    <3>2. CASE slow
      BY <1>1, <1>5, <3>1, <3>2
    <3>3. CASE ~slow
      BY <1>5, <3>1, <3>3
    <3> QED BY <3>2, <3>3
  <2> QED BY <2>1, <2>2
<1>4. CASE ReportFailure(p) /\ HasSlasher
  <2>1. CASE failures[p] + 1 >= FailLimit
    <3>1. SetHealth(p, FALSE) /\ failures' = [failures EXCEPT ![p] = 0]
      BY <1>4, <2>1 DEF ReportFailure
    <3>2. failures' \in [Offered -> 0 .. FailLimit - 1]
      BY <1>5, <3>1
    <3> QED BY <1>6, <3>1, <3>2
  <2>2. CASE ~(failures[p] + 1 >= FailLimit)
    <3>1. failures[p] + 1 \in 0 .. FailLimit - 1
      BY <1>1, <2>2
    <3> QED BY <1>4, <2>2, <3>1 DEF CTypeOK, ReportFailure
  <2> QED BY <2>1, <2>2
<1> QED BY <1>2, <1>3, <1>4 DEF ReportTtft, ReportFailure

\* Credit is used up before the challenge or the check of the payment: the part
\* of the price that it covers is a cost of the request from then on.
LEMMA EstimateStep ==
  ASSUME RInv, NEW r \in Requests, stage[r] \in {"new", "challenged"},
         NEW list \in Rankings, Estimate(r, list),
         NEW s \in {"challenged", "verifying", "dispatching"}, stage' = [stage EXCEPT ![r] = s],
         NEW a \in Nat, ask' = [ask EXCEPT ![r] = a],
         s = "dispatching" => Remaining(r, EstimateOf(list[1])) <= a,
         UNCHANGED <<chosen, cost, mvars>>
  PROVE  RInv'
<1> DEFINE full == EstimateOf(list[1])
<1>1. CTypeOK /\ CreditDurable /\ chosen[r] = 0 /\ chosen \in [Requests -> Nat]
  BY DEF RInv, Handling
<1>2. list \in Seq(Offered) /\ list # <<>> /\ Len(list) \in Nat \ {0} /\ list[1] \in Offered
  BY <1>1, RankingsType DEF CTypeOK
<1>3. full \in Nat
  BY <1>1, <1>2, PriceType DEF CTypeOK
<1>4. PICK rest : rest = Remaining(r, full)
  OBVIOUS
<1>5. /\ rest \in Nat /\ rest <= full
      /\ Booked
      /\ \A c \in Clients :
           credit'[c] = IF c = ClientOf[r] THEN credit[c] - (full - rest) ELSE credit[c]
  BY <1>1, <1>3, <1>4, AppliedCredit DEF Estimate
<1>6. /\ price' = [price EXCEPT ![r] = full]
      /\ due' = [due EXCEPT ![r] = rest]
      /\ ranked' = [ranked EXCEPT ![r] = list]
  BY <1>4 DEF Estimate
<1> HIDE DEF full
<1>7. CTypeOK'
  <2>1. /\ stage' \in [Requests -> Stages] /\ ask' \in [Requests -> Nat]
        /\ due' \in [Requests -> Nat] /\ price' \in [Requests -> Nat]
        /\ ranked' \in [Requests -> Seq(Offered)]
    BY <1>1, <1>2, <1>3, <1>5, <1>6 DEF CTypeOK, Stages, Working
  <2>2. \A q \in Requests : chosen'[q] \in 0 .. Len(ranked'[q])
    <3> TAKE q \in Requests
    <3>1. CASE q = r
      BY <1>1, <1>2, <1>6, <3>1 DEF CTypeOK
    <3>2. CASE q # r
      BY <1>1, <1>6, <3>2 DEF CTypeOK
    <3> QED BY <3>1, <3>2
  <2>3. /\ cost' \in [Requests -> 0 .. MaxCost] /\ credit' \in [Clients -> Nat]
        /\ stored' \in [Clients -> Nat] /\ listed' \in [Providers -> Prices]
        /\ healthy' \in [Providers -> BOOLEAN] /\ failures' \in [Offered -> 0 .. FailLimit - 1]
    BY <1>1, <1>5 DEF CTypeOK, mvars, Booked
  <2> QED BY <2>1, <2>2, <2>3 DEF CTypeOK
<1>8. /\ stage'[r] = s /\ ask'[r] = a /\ due'[r] = rest /\ price'[r] = full /\ ranked'[r] = list
      /\ \A q \in Requests \ {r} :
           /\ stage'[q] = stage[q] /\ ask'[q] = ask[q] /\ due'[q] = due[q]
           /\ price'[q] = price[q] /\ ranked'[q] = ranked[q]
  BY <1>1, <1>6 DEF CTypeOK
<1>9. Handling'
  <2>1. ASSUME NEW q \in Requests
        PROVE  /\ stage'[q] \in {"new", "challenged"} => chosen'[q] = 0
               /\ stage'[q] \in Working => ranked'[q] # <<>>
               /\ due'[q] <= price'[q]
               /\ stage'[q] \in Admitted => due'[q] <= ask'[q]
    <3>1. CASE q = r
      <4>1. s = "dispatching" => rest <= a
        BY <1>4 DEF full
      <4> QED BY <1>1, <1>2, <1>5, <1>8, <3>1, <4>1 DEF Admitted, Inflight
    <3>2. CASE q # r
      BY <1>8, <3>2 DEF RInv, Handling
    <3> QED BY <3>1, <3>2
  <2>2. chosen' \in [Requests -> Nat] /\ CreditDurable'
    BY <1>1, <1>5, <1>8, DurableStep
  <2> QED BY <1>7, <2>1, <2>2 DEF Handling
<1>10. Gain[r] = 0 /\ Pay[r] = 0 /\ Pay'[r] = 0
  BY <1>8 DEF Gain, Pay, Inflight, Delivered
<1>11. Gain'[r] \in {full - rest, 0}
  BY <1>8 DEF Gain, Delivered
<1>12. ASSUME NEW c \in Clients
       PROVE  IF c = ClientOf[r]
              THEN credit'[c] + Gain'[r] + Pay[r] <= credit[c] + Gain[r] + Pay'[r]
              ELSE credit'[c] = credit[c]
  <2>1. credit[c] \in Nat
    BY <1>1 DEF CTypeOK
  <2> QED BY <1>3, <1>5, <1>10, <1>11, <2>1
<1>13. Balanced'
  BY <1>8, <1>9, <1>12, BalanceStep DEF RInv
<1> QED BY <1>9, <1>13 DEF RInv

LEMMA AskStep ==
  ASSUME RInv, NEW r \in Requests, AskUnpaid(r) \/ AskPaid(r)
  PROVE  RInv'
<1>1. PICK list \in Rankings :
        /\ Estimate(r, list)
        /\ \/ AskUnpaid(r)
              /\ IF Remaining(r, EstimateOf(list[1])) = 0
                 THEN Goto(r, "dispatching") /\ UNCHANGED ask
                 ELSE /\ Goto(r, "challenged")
                      /\ ask' = [ask EXCEPT ![r] = Remaining(r, EstimateOf(list[1]))]
           \/ AskPaid(r)
              /\ IF Remaining(r, EstimateOf(list[1])) = 0
                 THEN Goto(r, "dispatching") /\ ask' = [ask EXCEPT ![r] = 0]
                 ELSE Goto(r, "verifying") /\ UNCHANGED ask
  BY DEF AskUnpaid, AskPaid
<1>2. UNCHANGED <<chosen, cost, mvars>> /\ stage[r] \in {"new", "challenged"}
  BY DEF AskUnpaid, AskPaid
<1>3. PICK rest : rest = Remaining(r, EstimateOf(list[1]))
  OBVIOUS
<1>4. rest \in Nat
  <2>1. list[1] \in Offered /\ CTypeOK
    BY RankingsType DEF RInv, Handling, CTypeOK
  <2>2. EstimateOf(list[1]) \in Nat
    BY <2>1, PriceType DEF CTypeOK
  <2> QED BY <1>1, <1>3, <2>1, <2>2, AppliedCredit DEF Estimate
<1>5. ask \in [Requests -> Nat]
  BY DEF RInv, Handling, CTypeOK
<1>6. PICK s \in {"challenged", "verifying", "dispatching"}, a \in Nat :
        /\ Goto(r, s) /\ ask' = [ask EXCEPT ![r] = a]
        /\ s = "dispatching" => rest <= a
  <2>1. ask = [ask EXCEPT ![r] = ask[r]] /\ ask[r] \in Nat
    BY <1>5
  <2> QED BY <1>1, <1>3, <1>4, <2>1
<1> QED BY <1>1, <1>2, <1>3, <1>6, EstimateStep DEF Goto

\* The steps of the handler between the first await and the answer have this in
\* common: no credit moves, and what is due stays paid for.
LEMMA MoveStep ==
  ASSUME RInv, NEW r \in Requests, stage[r] \in Working \ Delivered,
         NEW s \in Stages \ ({"new", "challenged"} \cup Delivered), Goto(r, s),
         s \in Inflight => stage[r] \in Inflight,
         s \in Admitted => due[r] <= ask[r],
         NEW n \in 0 .. Len(ranked[r]), chosen' = [chosen EXCEPT ![r] = n],
         healthy' \in [Providers -> BOOLEAN], failures' \in [Offered -> 0 .. FailLimit - 1],
         UNCHANGED <<ask, due, price, ranked, cost, lvars, listed>>
  PROVE  RInv'
<1>1. CTypeOK /\ CreditDurable /\ chosen \in [Requests -> Nat]
  BY DEF RInv, Handling
<1>2. /\ stage' = [stage EXCEPT ![r] = s] /\ stage' \in [Requests -> Stages]
      /\ stage'[r] = s /\ \A q \in Requests \ {r} : stage'[q] = stage[q]
  BY <1>1 DEF Goto, CTypeOK
<1>3. /\ chosen' \in [Requests -> Nat] /\ chosen'[r] = n
      /\ \A q \in Requests \ {r} : chosen'[q] = chosen[q]
  <2>1. Len(ranked[r]) \in Nat
    BY <1>1 DEF CTypeOK
  <2> QED BY <1>1, <2>1
<1>4. CTypeOK'
  <2>1. \A q \in Requests : chosen'[q] \in 0 .. Len(ranked'[q])
    BY <1>1, <1>3 DEF CTypeOK
  <2> QED BY <1>1, <1>2, <2>1 DEF CTypeOK, lvars
<1>5. Handling'
  <2>1. ASSUME NEW q \in Requests
        PROVE  /\ stage'[q] \in {"new", "challenged"} => chosen'[q] = 0
               /\ stage'[q] \in Working => ranked'[q] # <<>>
               /\ due'[q] <= price'[q]
               /\ stage'[q] \in Admitted => due'[q] <= ask'[q]
    BY <1>2, <1>3 DEF RInv, Handling
  <2>2. Booked /\ stage[r] # "unbooked"
    BY <1>1 DEF Booked, lvars, CTypeOK, Delivered
  <2>3. CreditDurable'
    BY <1>1, <1>2, <2>2, DurableStep
  <2> QED BY <1>3, <1>4, <2>1, <2>3 DEF Handling
<1>6. Balanced'
  BY <1>2, <1>5, BalanceDrops DEF RInv, lvars
<1> QED BY <1>5, <1>6 DEF RInv

\* The same, of the steps that leave the providers' records alone.
LEMMA QuietStep ==
  ASSUME RInv, NEW r \in Requests,
         VerifyReturns(r) \/ RatingReturns(r) \/ SettleReturns(r) \/ AnswerFailure(r)
  PROVE  RInv'
<1>1. /\ CTypeOK /\ chosen = [chosen EXCEPT ![r] = chosen[r]] /\ chosen[r] \in 0 .. Len(ranked[r])
  BY DEF RInv, Handling, CTypeOK
<1>2. UNCHANGED <<ask, due, price, ranked, chosen, cost, lvars, listed, healthy, failures>>
  BY DEF VerifyReturns, RatingReturns, SettleReturns, AnswerFailure, mvars
<1>3. /\ chosen' = [chosen EXCEPT ![r] = chosen[r]]
      /\ healthy' \in [Providers -> BOOLEAN] /\ failures' \in [Offered -> 0 .. FailLimit - 1]
  BY <1>1, <1>2 DEF CTypeOK
<1>4. stage[r] \in Admitted => due[r] <= ask[r]
  BY DEF RInv, Handling
<1>5. PICK s \in {"dispatching", "underpaid", "rejected", "settling", "streaming", "failed"} :
        /\ Goto(r, s) /\ stage[r] \in Working \ Delivered
        /\ s = "dispatching" => stage[r] = "verifying" /\ ask[r] >= due[r]
        /\ s \in {"settling", "streaming"} => stage[r] \in {"rating", "settling"}
  BY DEF VerifyReturns, RatingReturns, SettleReturns, AnswerFailure, Working, Delivered
<1>6. s \in Inflight => stage[r] \in Inflight
  BY <1>5 DEF Inflight
<1>7. s \in Admitted => due[r] <= ask[r]
  <2>1. ask[r] \in Nat /\ due[r] \in Nat
    BY <1>1 DEF CTypeOK
  <2> QED BY <1>4, <1>5, <2>1 DEF Admitted, Inflight
<1>8. s \in Stages \ ({"new", "challenged"} \cup Delivered)
  BY <1>5 DEF Stages, Working, Answered, Delivered
<1> QED BY <1>1, <1>2, <1>3, <1>5, <1>6, <1>7, <1>8, MoveStep

\* The same, of the steps that rate a provider.
LEMMA RatingStep ==
  ASSUME RInv, NEW r \in Requests,
         DispatchReturns(r) \/ DispatchFails(r) \/ StreamBreaks(r)
  PROVE  RInv'
<1>1. /\ CTypeOK /\ chosen = [chosen EXCEPT ![r] = chosen[r]] /\ chosen[r] \in 0 .. Len(ranked[r])
  BY DEF RInv, Handling, CTypeOK
<1>2. /\ UNCHANGED <<ask, due, price, ranked, cost, lvars, listed>>
      /\ stage[r] \in {"dispatching", "streaming"}
  BY DEF DispatchReturns, DispatchFails, StreamBreaks
<1>3. ranked[r] \in Seq(Offered) /\ ranked[r] # <<>> /\ due[r] <= ask[r]
  BY <1>1, <1>2 DEF RInv, Handling, CTypeOK, Working, Admitted, Inflight
<1>4. Len(ranked[r]) \in Nat /\ Len(ranked[r]) >= 1 /\ \A n \in 1 .. Len(ranked[r]) : ranked[r][n] \in Offered
  BY <1>3
<1>5. PICK s \in {"rating", "failing", "breaking"} : Goto(r, s)
  BY DEF DispatchReturns, DispatchFails, StreamBreaks
<1>6. PICK n \in 0 .. Len(ranked[r]) : chosen' = [chosen EXCEPT ![r] = n]
  <2>1. CASE DispatchReturns(r)
    <3> PICK n \in 1 .. Len(ranked[r]) : chosen' = [chosen EXCEPT ![r] = n]
      BY <2>1, Zenon DEF DispatchReturns
    <3>1. n \in 0 .. Len(ranked[r])
      BY <1>4
    <3> QED BY <3>1
  <2>2. CASE DispatchFails(r)
    BY <1>1, <2>2 DEF DispatchFails
  <2>3. CASE StreamBreaks(r)
    <3>1. chosen' = [chosen EXCEPT ![r] = Len(ranked[r])]
      BY <2>3 DEF StreamBreaks
    <3>2. Len(ranked[r]) \in 0 .. Len(ranked[r])
      BY <1>4
    <3> QED BY <3>1, <3>2
  <2> QED BY <2>1, <2>2, <2>3
<1>7. PICK p \in Offered : (\E slow \in BOOLEAN : ReportTtft(p, slow)) \/ ReportFailure(p)
  <2>1. CASE DispatchReturns(r)
    <3> PICK i \in 1 .. Len(ranked[r]) : \E slow \in BOOLEAN : ReportTtft(ranked[r][i], slow)
      BY <2>1, Zenon DEF DispatchReturns
    <3> PICK p \in Offered : p = ranked[r][i]
      BY <1>4
    <3>1. \E slow \in BOOLEAN : ReportTtft(p, slow)
      OBVIOUS
    <3> QED BY <3>1, Zenon
  <2>2. CASE DispatchFails(r) \/ StreamBreaks(r)
    <3> PICK p \in Offered : p = ranked[r][1]
      BY <1>4
    <3>1. ReportFailure(p)
      BY <2>2 DEF DispatchFails, StreamBreaks
    <3> QED BY <3>1, Zenon
  <2> QED BY <2>1, <2>2
<1>8. healthy' \in [Providers -> BOOLEAN] /\ failures' \in [Offered -> 0 .. FailLimit - 1]
  BY <1>1, <1>7, ReportTypes
<1>9. /\ s \in Stages \ ({"new", "challenged"} \cup Delivered)
      /\ stage[r] \in Working \ Delivered /\ stage[r] \in Inflight
  BY <1>2 DEF Stages, Working, Answered, Inflight, Delivered
<1> QED BY <1>2, <1>3, <1>5, <1>6, <1>8, <1>9, MoveStep

\* A completion is delivered: what the estimate was too high by comes back as
\* credit, and the rest is what the payment and the credit spent were for.
LEMMA DeliverStep ==
  ASSUME RInv, NEW r \in Requests, stage[r] = "streaming",
         NEW s \in {"served", "unbooked"}, Goto(r, s),
         NEW actual \in 0 .. MaxCost, cost' = [cost EXCEPT ![r] = actual],
         \A c \in Clients :
           credit'[c] = IF c = ClientOf[r] /\ price[r] > actual
                        THEN credit[c] + (price[r] - actual) ELSE credit[c],
         credit' \in [Clients -> Nat], stored' \in [Clients -> Nat], CreditDurable',
         healthy' \in [Providers -> BOOLEAN], failures' \in [Offered -> 0 .. FailLimit - 1],
         UNCHANGED <<ask, due, price, ranked, chosen, listed>>
  PROVE  RInv'
<1>1. CTypeOK /\ chosen \in [Requests -> Nat]
  BY DEF RInv, Handling
<1>2. /\ actual \in Nat /\ price[r] \in Nat /\ due[r] \in Nat /\ ask[r] \in Nat
      /\ due[r] <= price[r] /\ due[r] <= ask[r]
  BY <1>1, ClawAssumption DEF RInv, Handling, CTypeOK, Admitted, Inflight
<1>3. /\ stage' \in [Requests -> Stages] /\ stage'[r] = s
      /\ \A q \in Requests \ {r} : stage'[q] = stage[q] /\ cost'[q] = cost[q]
      /\ cost' \in [Requests -> 0 .. MaxCost] /\ cost'[r] = actual
  BY <1>1 DEF CTypeOK, Stages, Answered, Working, Goto
<1>4. CTypeOK'
  BY <1>1, <1>3 DEF CTypeOK
<1>5. Handling'
  <2>1. ASSUME NEW q \in Requests
        PROVE  /\ stage'[q] \in {"new", "challenged"} => chosen'[q] = 0
               /\ stage'[q] \in Working => ranked'[q] # <<>>
               /\ due'[q] <= price'[q]
               /\ stage'[q] \in Admitted => due'[q] <= ask'[q]
    BY <1>3 DEF RInv, Handling, Working, Admitted, Inflight
  <2> QED BY <1>1, <1>4, <2>1 DEF Handling
<1>6. /\ Gain[r] = price[r] - due[r] /\ Pay[r] = 0
      /\ Gain'[r] = LessOf(actual, price[r]) /\ Pay'[r] = ask[r]
  BY <1>3 DEF Gain, Pay, Inflight, LessOf, Delivered
<1>7. ASSUME NEW c \in Clients
      PROVE  IF c = ClientOf[r]
             THEN credit'[c] + Gain'[r] + Pay[r] <= credit[c] + Gain[r] + Pay'[r]
             ELSE credit'[c] = credit[c]
  <2>1. credit[c] \in Nat
    BY <1>1 DEF CTypeOK
  <2>2. CASE price[r] > actual
    <3>1. LessOf(actual, price[r]) = actual
      BY <1>2, <2>2 DEF LessOf
    <3> QED BY <1>2, <1>6, <2>1, <2>2, <3>1
  <2>3. CASE ~(price[r] > actual)
    <3>1. LessOf(actual, price[r]) = price[r]
      BY <1>2, <2>3 DEF LessOf
    <3> QED BY <1>2, <1>6, <2>1, <2>3, <3>1
  <2> QED BY <2>2, <2>3
<1>8. Balanced'
  BY <1>3, <1>5, <1>7, BalanceStep DEF RInv
<1> QED BY <1>5, <1>8 DEF RInv

LEMMA ServeStep ==
  ASSUME RInv, NEW r \in Requests, StreamEnds(r)
  PROVE  RInv'
<1>1. CTypeOK /\ CreditDurable
  BY DEF RInv, Handling
<1>2. PICK actual \in 0 .. MaxCost :
        cost' = [cost EXCEPT ![r] = actual] /\ Reconcile(r, actual)
  BY DEF StreamEnds
<1>3. /\ UNCHANGED <<ask, due, price, ranked, chosen, listed, healthy, failures>>
      /\ stage[r] = "streaming" /\ Goto(r, "served")
  BY DEF StreamEnds, mvars
<1>4. /\ Booked
      /\ \A c \in Clients :
           credit'[c] = IF c = ClientOf[r] /\ price[r] > actual
                        THEN credit[c] + (price[r] - actual) ELSE credit[c]
  <2>1. actual \in Nat
    BY ClawAssumption
  <2> QED BY <1>1, <1>2, <2>1, ReconciledCredit
<1>5. CreditDurable'
  <2>1. \A q \in Requests \ {r} : stage'[q] = stage[q]
    BY <1>1, <1>3 DEF Goto, CTypeOK
  <2> QED BY <1>1, <1>3, <1>4, <2>1, DurableStep
<1>6. healthy' \in [Providers -> BOOLEAN] /\ failures' \in [Offered -> 0 .. FailLimit - 1]
  BY <1>1, <1>3 DEF CTypeOK
<1> QED BY <1>2, <1>3, <1>4, <1>5, <1>6, DeliverStep DEF Booked

\* The credit is raised in memory alone: from now on the request stands for it.
LEMMA UnbookedStep ==
  ASSUME RInv, NEW r \in Requests, ReconcileThrows(r)
  PROVE  RInv'
<1>1. CTypeOK /\ CreditDurable
  BY DEF RInv, Handling
<1>2. PICK actual \in 0 .. MaxCost :
        /\ Unspent(r, actual)
        /\ cost' = [cost EXCEPT ![r] = actual]
        /\ credit' = [credit EXCEPT ![ClientOf[r]] = @ + price[r] - actual]
  BY DEF ReconcileThrows
<1>3. /\ UNCHANGED <<ask, due, price, ranked, chosen, stored, listed>>
      /\ stage[r] = "streaming" /\ Goto(r, "unbooked") /\ ReportFailure(ranked[r][1])
  BY DEF ReconcileThrows
<1>4. ClientOf[r] \in Clients /\ price[r] \in Nat /\ actual \in Nat /\ price[r] > actual
  <2>1. ClientOf[r] # NoClient /\ price[r] > actual
    BY <1>2 DEF Unspent
  <2>2. ClientOf[r] \in Clients /\ actual \in Nat
    BY <2>1, ClawAssumption
  <2> QED BY <1>1, <2>1, <2>2 DEF CTypeOK
<1>5. credit \in [Clients -> Nat] /\ stored \in [Clients -> Nat]
  BY <1>1 DEF CTypeOK
<1>6. \A c \in Clients :
        credit'[c] = IF c = ClientOf[r] /\ price[r] > actual
                     THEN credit[c] + (price[r] - actual) ELSE credit[c]
  BY <1>2, <1>4, <1>5
<1>7. credit' \in [Clients -> Nat] /\ \A c \in Clients : credit[c] <= credit'[c]
  <2>1. \A c \in Clients : credit[c] \in Nat
    BY <1>5
  <2>2. \A c \in Clients : credit'[c] \in Nat /\ credit[c] <= credit'[c]
    BY <1>4, <1>6, <2>1
  <2>3. credit' = [c \in Clients |-> credit'[c]]
    BY <1>2, <1>5
  <2> QED BY <2>2, <2>3
<1>8. CreditDurable'
  <2> SUFFICES ASSUME NEW c \in Clients
               PROVE  /\ stored'[c] <= credit'[c]
                      /\ stored'[c] = credit'[c] \/ \E q \in Of(c) : stage'[q] = "unbooked"
    BY DEF CreditDurable, Of
  <2>1. stored[c] <= credit[c] /\ stored'[c] = stored[c]
        /\ stored[c] \in Nat /\ credit[c] \in Nat /\ credit'[c] \in Nat
    BY <1>1, <1>3, <1>5, <1>7 DEF CreditDurable
  <2>2. stored'[c] <= credit'[c]
    BY <1>7, <2>1
  <2>3. stage'[r] = "unbooked" /\ \A q \in Requests \ {r} : stage'[q] = stage[q]
    BY <1>1, <1>3 DEF Goto, CTypeOK
  <2>4. CASE c = ClientOf[r]
    BY <2>2, <2>3, <2>4 DEF Of
  <2>5. CASE c # ClientOf[r]
    <3>1. credit'[c] = credit[c] /\ r \notin Of(c) /\ Of(c) \subseteq Requests
      BY <1>6, <2>5 DEF Of
    <3> QED BY <1>1, <2>1, <2>2, <2>3, <3>1 DEF CreditDurable
  <2> QED BY <2>4, <2>5
<1>9. healthy' \in [Providers -> BOOLEAN] /\ failures' \in [Offered -> 0 .. FailLimit - 1]
  <2>1. ranked[r][1] \in Offered
    BY <1>1, <1>3 DEF RInv, Handling, CTypeOK, Working
  <2> QED BY <1>1, <1>3, <2>1, ReportTypes
<1> QED BY <1>2, <1>3, <1>5, <1>6, <1>7, <1>8, <1>9, DeliverStep

\* A new process finds no more credit than there was; what was under way is lost.
LEMMA EndStep ==
  ASSUME RInv, NEW here \in SUBSET {r \in Requests : stage[r] \in {"new", "challenged"}},
         ProcessEnds(here)
  PROVE  RInv'
<1>1. CTypeOK /\ CreditDurable /\ chosen \in [Requests -> Nat]
  BY DEF RInv, Handling
<1>2. /\ UNCHANGED <<ask, due, price, ranked, chosen, cost, stored>> /\ credit' = stored
      /\ \A c \in Clients : stored[c] <= credit[c]
  BY <1>1 DEF ProcessEnds, CreditDurable
<1>3. \A r \in Requests :
        stage'[r] = IF stage[r] = "unbooked" THEN "cut"
                    ELSE IF stage[r] \in Working \/ r \in here THEN "dropped" ELSE stage[r]
  BY DEF ProcessEnds
<1>4. CTypeOK'
  <2>1. stage' \in [Requests -> Stages]
    <3>1. \A r \in Requests : stage'[r] \in Stages
      BY <1>1, <1>3 DEF CTypeOK, Stages, Answered
    <3> QED BY <3>1 DEF ProcessEnds
  <2>2. /\ listed' \in [Providers -> Prices] /\ healthy' \in [Providers -> BOOLEAN]
        /\ failures' \in [Offered -> 0 .. FailLimit - 1]
    BY ClawAssumption DEF ProcessEnds, Offered
  <2> QED BY <1>1, <1>2, <2>1, <2>2 DEF CTypeOK
<1>5. Handling'
  <2>1. ASSUME NEW q \in Requests
        PROVE  /\ stage'[q] \in {"new", "challenged"} => chosen'[q] = 0
               /\ stage'[q] \in Working => ranked'[q] # <<>>
               /\ due'[q] <= price'[q]
               /\ stage'[q] \in Admitted => due'[q] <= ask'[q]
    BY <1>2, <1>3 DEF RInv, Handling, Working, Admitted, Inflight
  <2>2. CreditDurable'
    BY <1>1, <1>2 DEF CreditDurable, CTypeOK
  <2> QED BY <1>1, <1>2, <1>4, <2>1, <2>2 DEF Handling
<1>6. Balanced'
  <2> SUFFICES ASSUME NEW c \in Clients
               PROVE  credit'[c] + Sum(Gain', Of(c)) <= Saved[c] + Sum(Pay', Of(c))
    BY DEF Balanced, Of
  <2> PICK g0 : g0 = Gain
    OBVIOUS
  <2> PICK g1 : g1 = Gain'
    OBVIOUS
  <2> PICK p0 : p0 = Pay
    OBVIOUS
  <2> PICK p1 : p1 = Pay'
    OBVIOUS
  <2>1. \A q \in Requests : g0[q] \in Nat /\ p0[q] \in Nat /\ g1[q] \in Nat /\ p1[q] \in Nat
    BY <1>5, BalanceTypes, BalanceTypesNext DEF RInv, Amounts
  <2>2. ASSUME NEW q \in Requests PROVE g1[q] <= g0[q] /\ p1[q] = p0[q]
    <3>1. CASE stage[q] \in Working \ {"unbooked"} \/ q \in here
      <4>1. stage'[q] = "dropped" /\ stage[q] \notin Delivered
        BY <1>3, <3>1 DEF Working, Delivered
      <4>2. Gain'[q] = 0 /\ Pay'[q] = 0 /\ Pay[q] = 0
        BY <4>1 DEF Gain, Pay, Inflight, Delivered
      <4> QED BY <2>1, <4>2
    <3>2. CASE ~(stage[q] \in Working \ {"unbooked"} \/ q \in here)
      <4>1. /\ stage'[q] \in Delivered <=> stage[q] \in Delivered
            /\ stage'[q] \in Inflight <=> stage[q] \in Inflight
        BY <1>3, <3>2 DEF Working, Inflight, Delivered
      <4>2. Gain'[q] = Gain[q] /\ Pay'[q] = Pay[q]
        BY <1>2, <4>1 DEF Gain, Pay, LessOf
      <4> QED BY <2>1, <4>2
    <3> QED BY <3>1, <3>2
  <2>3. IsFiniteSet(Of(c)) /\ Of(c) \subseteq Requests
    BY ClawAssumption, FS_Subset DEF Of
  <2>4. Sum(g1, Of(c)) <= Sum(g0, Of(c))
    BY <2>1, <2>2, <2>3, SumMonotone
  <2>5. Sum(p1, Of(c)) = Sum(p0, Of(c))
    BY <2>1, <2>2, <2>3, SumSame
  <2>6. Sum(g1, Of(c)) \in Nat /\ Sum(g0, Of(c)) \in Nat /\ Sum(p0, Of(c)) \in Nat
    BY <2>1, <2>3, SumType
  <2>7. /\ credit[c] \in Nat /\ Saved[c] \in Nat
        /\ credit'[c] \in Nat /\ credit'[c] <= credit[c]
        /\ credit[c] + Sum(g0, Of(c)) <= Saved[c] + Sum(p0, Of(c))
    BY <1>1, <1>2, ClawAssumption DEF CTypeOK, RInv, Balanced
  <2> QED BY <2>4, <2>5, <2>6, <2>7
<1> QED BY <1>5, <1>6 DEF RInv

LEMMA RestartStep ==
  ASSUME RInv, Restart \/ \E r \in Requests : ApplyThrows(r)
  PROVE  RInv'
<1>1. CASE Restart
  BY <1>1, EndStep DEF Restart
<1>2. ASSUME NEW r \in Requests, ApplyThrows(r) PROVE RInv'
  <2>1. ProcessEnds({r}) /\ stage[r] \in {"new", "challenged"}
    BY <1>2 DEF ApplyThrows
  <2> QED BY <2>1, EndStep
<1> QED BY <1>1, <1>2

LEMMA IngestStep ==
  ASSUME RInv, NEW p \in Providers, NEW amount \in Prices, IngestSpotPricing(p, amount)
  PROVE  RInv'
<1>1. UNCHANGED <<stage, ask, due, price, ranked, chosen, cost, credit, stored, healthy, failures>>
  BY DEF IngestSpotPricing, rvars, lvars
<1>2. listed' \in [Providers -> Prices]
  BY DEF IngestSpotPricing, RInv, Handling, CTypeOK
<1>3. Handling'
  BY <1>1, <1>2 DEF RInv, Handling, CTypeOK, CreditDurable, Of
<1>4. Balanced'
  BY <1>1 DEF RInv, Balanced, Gain, Pay, Of, LessOf
<1> QED BY <1>3, <1>4 DEF RInv

LEMMA RouterNext == RInv /\ [Next]_vars => RInv'
<1> SUFFICES ASSUME RInv, [Next]_vars PROVE RInv'
  OBVIOUS
<1>1. CASE UNCHANGED vars
  <2>1. UNCHANGED <<stage, ask, due, price, ranked, chosen, cost, credit, stored, listed,
                    healthy, failures>>
    BY <1>1 DEF vars, rvars, lvars, mvars
  <2>2. Handling'
    BY <2>1 DEF RInv, Handling, CTypeOK, CreditDurable, Of
  <2>3. Balanced'
    BY <2>1 DEF RInv, Balanced, Gain, Pay, Of, LessOf
  <2> QED BY <2>2, <2>3 DEF RInv
<1>2. ASSUME NEW r \in Requests, AskUnpaid(r) \/ AskPaid(r) \/ ApplyThrows(r) PROVE RInv'
  BY <1>2, AskStep, RestartStep
<1>3. ASSUME NEW r \in Requests, Step(r) PROVE RInv'
  <2>1. CASE VerifyReturns(r) \/ RatingReturns(r) \/ SettleReturns(r) \/ AnswerFailure(r)
    BY <2>1, QuietStep
  <2>2. CASE DispatchReturns(r) \/ DispatchFails(r) \/ StreamBreaks(r)
    BY <2>2, RatingStep
  <2>3. CASE StreamEnds(r)
    BY <2>3, ServeStep
  <2>4. CASE AnswerBroken(r)
    BY <2>4, RestartStep DEF AnswerBroken
  <2>5. CASE ReconcileThrows(r)
    BY <2>5, UnbookedStep
  <2> QED BY <1>3, <2>1, <2>2, <2>3, <2>4, <2>5 DEF Step
<1>4. ASSUME NEW p \in Providers, NEW amount \in Prices, IngestSpotPricing(p, amount) PROVE RInv'
  BY <1>4, IngestStep
<1>5. CASE Crash
  BY <1>5, RestartStep DEF Crash
<1> QED BY <1>1, <1>2, <1>3, <1>4, <1>5 DEF Next

LEMMA RouterInv == Spec => []RInv
<1>1. Init => RInv
  BY RouterInit
<1> QED BY <1>1, RouterNext, PTL DEF Spec

-----------------------------------------------------------------------------
LEMMA EarnedOfBalance == RInv => CreditSound
<1> SUFFICES ASSUME RInv PROVE CreditEarned
  BY DEF RInv, Handling, CreditSound
<1> SUFFICES ASSUME NEW c \in Clients
             PROVE  credit[c] + SumOver(Served(c), [r \in Requests |-> LessOf(cost[r], price[r])])
                      <= Saved[c] + SumOver(Served(c), ask)
  BY DEF CreditEarned
<1> DEFINE spent == [r \in Requests |-> LessOf(cost[r], price[r])]
<1>1. CTypeOK /\ \A r \in Requests : Gain[r] \in Nat /\ Pay[r] \in Nat
  BY BalanceTypes DEF RInv, Handling, Amounts
<1>2. /\ IsFiniteSet(Of(c)) /\ Of(c) \subseteq Requests
      /\ Served(c) \in SUBSET Of(c) /\ IsFiniteSet(Served(c))
  BY ClawAssumption, FS_Subset DEF Of, Served
<1>3. \A r \in Served(c) : spent[r] = Gain[r] /\ ask[r] = Pay[r]
  BY <1>2 DEF Served, Gain, Pay
<1>4. Sum(spent, Served(c)) = Sum(Gain, Served(c)) /\ Sum(ask, Served(c)) = Sum(Pay, Served(c))
  <2> PICK g : g = Gain
    OBVIOUS
  <2> PICK p : p = Pay
    OBVIOUS
  <2>1. \A r \in Served(c) : g[r] \in Nat /\ spent[r] = g[r] /\ p[r] \in Nat /\ ask[r] = p[r]
    BY <1>1, <1>2, <1>3
  <2> HIDE DEF spent
  <2> QED BY <1>2, <2>1, SumSame
<1>5. /\ Sum(Gain, Served(c)) <= Sum(Gain, Of(c)) /\ Sum(Pay, Served(c)) = Sum(Pay, Of(c))
      /\ Sum(Gain, Served(c)) \in Nat /\ Sum(Gain, Of(c)) \in Nat /\ Sum(Pay, Of(c)) \in Nat
  <2> PICK g : g = Gain
    OBVIOUS
  <2> PICK p : p = Pay
    OBVIOUS
  <2>1. \A r \in Of(c) : g[r] \in Nat /\ p[r] \in Nat
    BY <1>1, <1>2
  <2>2. \A r \in Of(c) \ Served(c) : p[r] = 0
    BY <1>2 DEF Pay, Served
  <2> QED BY <1>2, <2>1, <2>2, SumSubset, SumZeros, SumType
<1>6. credit[c] \in Nat /\ Saved[c] \in Nat /\ credit[c] + Sum(Gain, Of(c)) <= Saved[c] + Sum(Pay, Of(c))
  BY <1>1, ClawAssumption DEF CTypeOK, RInv, Balanced
<1>7. SumOver(Served(c), spent) = Sum(spent, Served(c)) /\ SumOver(Served(c), ask) = Sum(ask, Served(c))
  BY DEF SumOver, MapThenSumSet, MapThenFoldSet, Sum, SumFunctionOnSet, FoldFunctionOnSet
<1>8. credit[c] + SumOver(Served(c), spent) <= Saved[c] + SumOver(Served(c), ask)
  <2> HIDE DEF spent
  <2> QED BY <1>4, <1>5, <1>6, <1>7
<1> QED BY <1>8

\* The clients' credits are what they earned, in memory and on disk: no credit
\* is made, used for two requests at once, or, once its write has succeeded, lost
\* with the process (two_phase_reconciler.ts:44-101, router_server.ts:241-246, 364-381).
THEOREM CreditSafe == Spec => []CreditSound
BY RouterInv, EarnedOfBalance, PTL

-----------------------------------------------------------------------------
Blamed(p) == (healthy[p] /\ ~healthy'[p]) \/ failures'[p] > failures[p]

\* Only the provider a report is about can be blamed by it, and a first chunk
\* never counts as a failure.
LEMMA ReportBlames ==
  ASSUME CTypeOK, NEW p \in Offered, NEW q \in Providers, Blamed(q),
         (\E slow \in BOOLEAN : ReportTtft(p, slow)) \/ ReportFailure(p)
  PROVE  q = p
<1> SUFFICES ASSUME q # p PROVE ~Blamed(q)
  OBVIOUS
<1>1. /\ failures \in [Offered -> 0 .. FailLimit - 1] /\ q \in Offered
      /\ failures[q] \in Int
  BY ClawAssumption DEF CTypeOK, Offered
<1>2. failures'[q] = failures[q]
  <2>1. CASE UNCHANGED failures
    BY <2>1
  <2>2. CASE \E n : failures' = [failures EXCEPT ![p] = n]
    BY <1>1, <2>2
  <2> QED BY <2>1, <2>2 DEF ReportTtft, ReportFailure
<1>3. healthy'[q] = healthy[q]
  BY DEF ReportTtft, ReportFailure, SetHealth
<1> QED BY <1>1, <1>2, <1>3 DEF Blamed

LEMMA FirstOfRanking ==
  ASSUME RInv, NEW r \in Requests, stage[r] \in Working
  PROVE  /\ Len(ranked[r]) \in Nat /\ 1 \in 1 .. Len(ranked[r])
         /\ \A n \in 1 .. Len(ranked[r]) : ranked[r][n] \in Offered
<1>1. ranked[r] \in Seq(Offered) /\ ranked[r] # <<>>
  BY DEF RInv, Handling, CTypeOK
<1> QED BY <1>1

LEMMA BlameStep ==
  RInv /\ Next => \A p \in Providers :
    Blamed(p) => \E r \in Requests : LetDown(r, p) \/ BlamedForWrite(r, p)
<1> SUFFICES ASSUME RInv, Next, NEW p \in Providers, Blamed(p)
             PROVE  \E r \in Requests : LetDown(r, p) \/ BlamedForWrite(r, p)
  OBVIOUS
<1>1. /\ CTypeOK /\ stage \in [Requests -> Stages] /\ chosen \in [Requests -> Nat]
      /\ failures[p] \in Nat
  BY DEF RInv, Handling, CTypeOK, Offered
<1>2. ASSUME UNCHANGED <<healthy, failures>> PROVE FALSE
  BY <1>1, <1>2 DEF Blamed
<1>3. ASSUME NEW here, ProcessEnds(here) PROVE FALSE
  <2>1. healthy'[p] = TRUE /\ failures'[p] = 0
    BY <1>3 DEF ProcessEnds, Offered
  <2> QED BY <1>1, <2>1 DEF Blamed
<1>4. ASSUME NEW r \in Requests, DispatchReturns(r) PROVE LetDown(r, p)
  <2>1. stage[r] = "dispatching"
    BY <1>4 DEF DispatchReturns
  <2> PICK n \in 1 .. Len(ranked[r]) : /\ chosen' = [chosen EXCEPT ![r] = n]
                                       /\ \E slow \in BOOLEAN : ReportTtft(ranked[r][n], slow)
    BY <1>4, Zenon DEF DispatchReturns
  <2> PICK q \in Offered : q = ranked[r][n]
    BY <2>1, FirstOfRanking DEF Working
  <2>2. q = p
    <3>1. \E slow \in BOOLEAN : ReportTtft(q, slow)
      OBVIOUS
    <3> QED BY <1>1, <3>1, ReportBlames
  <2>3. chosen'[r] = n
    BY <1>1
  <2> QED BY <2>1, <2>2, <2>3 DEF LetDown
<1>5. ASSUME NEW r \in Requests, DispatchFails(r) \/ StreamBreaks(r) PROVE LetDown(r, p)
  <2>1. \/ stage[r] = "dispatching" /\ stage'[r] = "failing"
        \/ stage[r] = "streaming" /\ stage'[r] = "breaking"
    BY <1>1, <1>5 DEF DispatchFails, StreamBreaks, Goto
  <2>2. 1 \in 1 .. Len(ranked[r]) /\ ranked[r][1] \in Offered
    BY <2>1, FirstOfRanking DEF Working
  <2> PICK q \in Offered : q = ranked[r][1]
    BY <2>2
  <2>3. ReportFailure(q)
    BY <1>5 DEF DispatchFails, StreamBreaks
  <2>4. q = p
    BY <1>1, <2>3, ReportBlames
  <2> QED BY <2>1, <2>2, <2>4 DEF LetDown
<1>6. ASSUME NEW r \in Requests, ReconcileThrows(r) PROVE BlamedForWrite(r, p)
  <2>1. /\ stage[r] = "streaming" /\ stage'[r] = "unbooked" /\ stored' = stored
        /\ ReportFailure(ranked[r][1])
    BY <1>1, <1>6 DEF ReconcileThrows, Goto
  <2> PICK actual \in 0 .. MaxCost :
        /\ Unspent(r, actual)
        /\ credit' = [credit EXCEPT ![ClientOf[r]] = @ + price[r] - actual]
    BY <1>6 DEF ReconcileThrows
  <2> PICK c \in Clients : c = ClientOf[r]
    BY ClawAssumption DEF Unspent
  <2>2. /\ credit[c] \in Nat /\ stored[c] \in Nat /\ stored[c] <= credit[c]
        /\ price[r] \in Nat /\ actual \in Nat /\ price[r] > actual
    BY <1>1, ClawAssumption DEF CTypeOK, RInv, Handling, CreditDurable, Unspent
  <2>3. credit'[c] = credit[c] + price[r] - actual
    BY <1>1 DEF CTypeOK
  <2>4. credit'[c] # stored'[c]
    BY <2>1, <2>2, <2>3
  <2> PICK q \in Offered : q = ranked[r][1]
    BY <2>1, FirstOfRanking DEF Working
  <2>5. q = p
    BY <1>1, <2>1, ReportBlames
  <2> QED BY <2>1, <2>4, <2>5 DEF BlamedForWrite
<1>7. \/ UNCHANGED <<healthy, failures>> \/ \E here : ProcessEnds(here)
      \/ \E r \in Requests : \/ DispatchReturns(r) \/ DispatchFails(r) \/ StreamBreaks(r)
                            \/ ReconcileThrows(r)
  <2>1. ASSUME NEW r \in Requests, AskUnpaid(r) \/ AskPaid(r) PROVE UNCHANGED <<healthy, failures>>
    BY <2>1 DEF AskUnpaid, AskPaid, mvars
  <2>2. ASSUME NEW r \in Requests, VerifyReturns(r) \/ RatingReturns(r) \/ SettleReturns(r)
                                   \/ StreamEnds(r) \/ AnswerFailure(r)
        PROVE  UNCHANGED <<healthy, failures>>
    BY <2>2 DEF VerifyReturns, RatingReturns, SettleReturns, StreamEnds, AnswerFailure, mvars
  <2>3. ASSUME NEW q \in Providers, NEW amount \in Prices, IngestSpotPricing(q, amount)
        PROVE  UNCHANGED <<healthy, failures>>
    BY <2>3 DEF IngestSpotPricing
  <2>4. ASSUME NEW r \in Requests, ApplyThrows(r) \/ AnswerBroken(r) \/ Crash
        PROVE  \E here : ProcessEnds(here)
    BY <2>4 DEF ApplyThrows, AnswerBroken, Crash, Restart
  <2>5. ASSUME Crash PROVE \E here : ProcessEnds(here)
    BY <2>5 DEF Crash, Restart
  <2> QED BY <2>1, <2>2, <2>3, <2>4, <2>5 DEF Next, Step
<1> QED BY <1>2, <1>3, <1>4, <1>5, <1>7, <1>6

\* A provider is blamed only by a request that it, or the whole chain behind it,
\* let down, or as the primary of a completion whose credit could not be written:
\* never for what verify(), the settlement or the chain did wrong
\* (sla_slasher.ts:71-101, router_server.ts:316-322, 338-340, 377, 393-399).
THEOREM BlameSafe == Spec => BlameJustified
<1>1. RInv /\ [Next]_vars =>
        [\A p \in Providers :
           (healthy[p] /\ ~healthy'[p]) \/ failures'[p] > failures[p] =>
             \E r \in Requests : LetDown(r, p) \/ BlamedForWrite(r, p)]_vars
  BY BlameStep DEF Blamed
<1> QED BY <1>1, RouterInv, PTL DEF Spec, BlameJustified

-----------------------------------------------------------------------------
(*                              THE STREAMS                                *)
-----------------------------------------------------------------------------
\* What getCommonPrefixLength is to return.
Common(a, b, n) ==
  /\ n \in 0 .. Len(a)
  /\ n <= Len(b)
  /\ \A i \in 1 .. n : a[i] = b[i]
  /\ n < Len(a) /\ n < Len(b) => a[n + 1] # b[n + 1]

\* There is a last place up to which two texts agree: the one after which the
\* fewest are left.
LEMMA CommonExists ==
  ASSUME NEW a \in Seq(Token), NEW b \in Seq(Token)
  PROVE  \E n : Common(a, b, n)
<1> DEFINE k == Len(a)
           Agree == {n \in 0 .. k : n <= Len(b) /\ \A i \in 1 .. n : a[i] = b[i]}
           Rest == {n .. k : n \in Agree}
<1>1. k \in Nat /\ Len(b) \in Nat
  OBVIOUS
<1>2. Rest \subseteq SUBSET (0 .. k) /\ Rest # {}
  <2>1. 0 \in Agree
    BY <1>1
  <2>2. \A n \in Agree : n \in Nat
    BY <1>1
  <2> HIDE DEF Agree
  <2> QED BY <1>1, <2>1, <2>2
<1>3. IsWellFoundedOn(StrictSubsetOrdering(0 .. k), SUBSET (0 .. k))
  <2>1. IsFiniteSet(0 .. k)
    BY <1>1, FS_Interval
  <2> QED BY <2>1, FS_StrictSubsetOrderingWellFounded, FS_FiniteSubsetsOfFinite
<1>4. \E x \in Rest : \A y \in Rest : ~(<<y, x>> \in StrictSubsetOrdering(0 .. k))
  <2> HIDE DEF Rest
  <2> QED BY <1>2, <1>3, WFMin
<1>5. PICK n \in Agree : \A y \in Rest : ~(<<y, n .. k>> \in StrictSubsetOrdering(0 .. k))
  BY <1>4
<1>6. ASSUME n < k, n < Len(b), a[n + 1] = b[n + 1] PROVE FALSE
  <2>1. n + 1 \in Agree
    <3>1. n \in Nat /\ n + 1 \in 0 .. k /\ n + 1 <= Len(b)
      BY <1>1, <1>6
    <3>2. \A i \in 1 .. n + 1 : a[i] = b[i]
      <4> TAKE i \in 1 .. n + 1
      <4>1. i \in 1 .. n \/ i = n + 1
        BY <3>1
      <4> QED BY <1>6, <4>1
    <3> QED BY <3>1, <3>2
  <2>2. <<(n + 1) .. k, n .. k>> \in StrictSubsetOrdering(0 .. k)
    <3>1. (n + 1) .. k \in SUBSET (0 .. k) /\ n .. k \in SUBSET (0 .. k)
      BY <1>1, <1>6
    <3>2. (n + 1) .. k \subseteq n .. k
      BY <1>1
    <3>3. n \in n .. k /\ n \notin (n + 1) .. k
      BY <1>1, <1>6
    <3> QED BY <3>1, <3>2, <3>3 DEF StrictSubsetOrdering
  <2>3. (n + 1) .. k \in Rest
    BY <2>1
  <2> QED BY <1>5, <2>2, <2>3
<1> QED BY <1>6 DEF Common

\* getCommonPrefixLength returns that place, and there is no other.
LEMMA CommonIs ==
  ASSUME NEW a \in Seq(Token), NEW b \in Seq(Token)
  PROVE  /\ Common(a, b, CommonLen(a, b))
         /\ \A n : Common(a, b, n) => n = CommonLen(a, b)
<1>1. Common(a, b, CommonLen(a, b))
  <2> DEFINE Longest(n) == /\ n <= Len(b)
                           /\ \A i \in 1 .. n : a[i] = b[i]
                           /\ n < Len(a) /\ n < Len(b) => a[n + 1] # b[n + 1]
  <2>1. \A n : Common(a, b, n) <=> n \in 0 .. Len(a) /\ Longest(n)
    BY DEF Common
  <2>2. CommonLen(a, b) = CHOOSE n \in 0 .. Len(a) : Longest(n)
    BY DEF CommonLen
  <2>3. \E n \in 0 .. Len(a) : Longest(n)
    BY <2>1, CommonExists
  <2> HIDE DEF Longest
  <2> QED BY <2>1, <2>2, <2>3
<1>2. ASSUME NEW m, NEW n, Common(a, b, m), Common(a, b, n), m < n PROVE FALSE
  <2>1. m \in Nat /\ n \in Nat /\ m + 1 \in 1 .. n /\ m < Len(a) /\ m < Len(b)
    BY <1>2 DEF Common
  <2> QED BY <1>2, <2>1 DEF Common
<1>3. ASSUME NEW n, Common(a, b, n) PROVE n = CommonLen(a, b)
  <2>1. n \in Nat /\ CommonLen(a, b) \in Nat
    BY <1>1, <1>3 DEF Common
  <2>2. ~(n < CommonLen(a, b)) /\ ~(CommonLen(a, b) < n)
    BY <1>1, <1>2, <1>3
  <2> QED BY <2>1, <2>2
<1> QED BY <1>1, <1>3

\* Two texts, one after the other.
LEMMA Joined ==
  ASSUME NEW a \in Seq(Token), NEW b \in Seq(Token)
  PROVE  /\ a \o b \in Seq(Token) /\ Len(a \o b) = Len(a) + Len(b)
         /\ \A i \in 1 .. Len(a) : (a \o b)[i] = a[i]
         /\ \A i \in 1 .. Len(b) : (a \o b)[Len(a) + i] = b[i]
<1>1. a \o b \in Seq(Token) /\ Len(a \o b) = Len(a) + Len(b)
  OBVIOUS
<1>2. \A i \in 1 .. Len(a) : (a \o b)[i] = a[i]
  OBVIOUS
<1>3. \A i \in 1 .. Len(b) : (a \o b)[Len(a) + i] = b[i]
  OBVIOUS
<1> QED BY <1>1, <1>2, <1>3

\* Three texts, in whatever order they are joined.
Associates(a, b, c) == (a \o b) \o c = a \o (b \o c)

LEMMA JoinedTwice ==
  ASSUME NEW a \in Seq(Token), NEW b \in Seq(Token), NEW c \in Seq(Token)
  PROVE  Associates(a, b, c)
BY ConcatAssociative DEF Associates

\* What was read, with the next chunk.
LEMMA HadAdds ==
  ASSUME NEW t \in Seq(Token), NEW p \in Nat, NEW n \in Nat, p + n <= Len(t)
  PROVE  /\ SubSeq(t, 1, p) \o SubSeq(t, p + 1, p + n) = SubSeq(t, 1, p + n)
         /\ SubSeq(t, p + 1, p + n) \in Seq(Token)
<1>1. 1 \in 1 .. Len(t) + 1 /\ p \in 1 - 1 .. Len(t) /\ p + n \in p .. Len(t)
  OBVIOUS
<1>2. SubSeq(t, 1, p) \o SubSeq(t, p + 1, p + n) = SubSeq(t, 1, p + n)
  BY <1>1, ConcatAdjacentSubSeq
<1>3. \A i \in p + 1 .. p + n : t[i] \in Token
  OBVIOUS
<1>4. SubSeq(t, p + 1, p + n) \in Seq(Token)
  BY <1>3, SubSeqProperties
<1> QED BY <1>2, <1>4

LEMMA SpliceType ==
  ASSUME NEW a \in Seq(Token), NEW b \in Seq(Token)
  PROVE  Unsent(a, b) \in Seq(Token) /\ Splice(a, b) \in Seq(Token)
<1> DEFINE n == CommonLen(a, b)
<1>1. n \in Nat /\ n <= Len(b) /\ Len(b) \in Nat
  BY CommonIs DEF Common
<1> HIDE DEF n
<1>2. \A i \in n + 1 .. Len(b) : b[i] \in Token
  BY <1>1
<1>3. SubSeq(b, n + 1, Len(b)) \in Seq(Token)
  BY <1>1, <1>2, SubSeqProperties
<1> QED BY <1>3 DEF Unsent, Splice, n

\* What is left of a text after its first n.
LEMMA RestIs ==
  ASSUME NEW s \in Seq(Token), NEW n \in Nat, n <= Len(s)
  PROVE  /\ SubSeq(s, n + 1, Len(s)) \in Seq(Token)
         /\ Len(SubSeq(s, n + 1, Len(s))) = Len(s) - n
         /\ \A i \in 1 .. Len(s) - n : SubSeq(s, n + 1, Len(s))[i] = s[n + i]
<1>1. Len(s) \in Nat
  OBVIOUS
<1> QED BY <1>1

\* Once the replacement is as long as what the caller has, or that is nothing,
\* what comes later is new.
LEMMA SpliceGrows ==
  ASSUME NEW a \in Seq(Token), NEW b \in Seq(Token), NEW c \in Seq(Token),
         a = <<>> \/ Len(a) <= Len(b)
  PROVE  Splice(a, b \o c) = Splice(a, b) \o c
<1> DEFINE n == CommonLen(a, b)
           bc == b \o c
<1>1. Common(a, b, n) /\ n \in Nat /\ n <= Len(b) /\ Len(b) \in Nat /\ Len(a) \in Nat /\ Len(c) \in Nat
  BY CommonIs DEF Common
<1> HIDE DEF n
<1>2. /\ bc \in Seq(Token) /\ Len(bc) = Len(b) + Len(c)
      /\ \A i \in 1 .. Len(b) : bc[i] = b[i]
      /\ \A i \in 1 .. Len(c) : bc[Len(b) + i] = c[i]
  OBVIOUS
<1>3. CommonLen(a, bc) = n
  <2>1. Common(a, bc, n)
    <3>1. n < Len(a) => n + 1 \in 1 .. Len(b)
      BY <1>1
    <3> HIDE DEF bc
    <3> QED BY <1>1, <1>2, <3>1 DEF Common
  <2> HIDE DEF bc
  <2> QED BY <1>2, <2>1, CommonIs
<1>4. SubSeq(bc, n + 1, Len(bc)) = SubSeq(b, n + 1, Len(b)) \o c
  <2> DEFINE left == SubSeq(bc, n + 1, Len(bc))
             rest == SubSeq(b, n + 1, Len(b))
             right == rest \o c
  <2> HIDE DEF bc
  <2>1. /\ left \in Seq(Token) /\ Len(left) = Len(b) + Len(c) - n
        /\ \A i \in 1 .. Len(bc) - n : left[i] = bc[n + i]
    <3>1. n <= Len(bc) /\ Len(bc) - n = Len(b) + Len(c) - n
      BY <1>1, <1>2
    <3> QED BY <1>1, <1>2, <3>1, RestIs
  <2>2. /\ rest \in Seq(Token) /\ Len(rest) = Len(b) - n
        /\ \A i \in 1 .. Len(b) - n : rest[i] = b[n + i]
    BY <1>1, RestIs
  <2>3. /\ right \in Seq(Token) /\ Len(right) = Len(b) - n + Len(c)
        /\ \A i \in 1 .. Len(b) - n : right[i] = b[n + i]
        /\ \A i \in 1 .. Len(c) : right[Len(b) - n + i] = c[i]
    <3> DEFINE m == Len(b) - n
    <3>1. m \in Nat /\ Len(rest) = m
      BY <1>1, <2>2
    <3>2. \A i \in 1 .. m : rest[i] = b[n + i]
      BY <2>2
    <3> HIDE DEF rest, m
    <3>3. /\ right \in Seq(Token) /\ Len(right) = m + Len(c)
          /\ \A i \in 1 .. m : right[i] = rest[i]
      BY <2>2, <3>1, Joined
    <3>4. \A i \in 1 .. Len(c) : right[m + i] = c[i]
      BY <2>2, <3>1, Joined
    <3>5. \A i \in 1 .. m : right[i] = b[n + i]
      BY <3>2, <3>3
    <3> HIDE DEF right
    <3> QED BY <3>3, <3>4, <3>5 DEF m
  <2> HIDE DEF left, right, rest
  <2>4. ASSUME NEW i \in 1 .. Len(left) PROVE left[i] = right[i]
    <3>1. CASE i <= Len(b) - n
      <4>1. i \in 1 .. Len(b) - n /\ n + i \in 1 .. Len(b) /\ i \in 1 .. Len(bc) - n
        BY <1>1, <1>2, <2>1, <3>1
      <4> QED BY <1>2, <2>1, <2>3, <4>1
    <3>2. CASE i > Len(b) - n
      <4> DEFINE j == i - (Len(b) - n)
      <4>1. /\ j \in 1 .. Len(c) /\ i = Len(b) - n + j /\ n + i = Len(b) + j
            /\ i \in 1 .. Len(bc) - n
        BY <1>1, <1>2, <2>1, <3>2
      <4> HIDE DEF j
      <4>2. left[i] = bc[n + i] /\ bc[Len(b) + j] = c[j] /\ right[Len(b) - n + j] = c[j]
        BY <1>2, <2>1, <2>3, <4>1
      <4> QED BY <4>1, <4>2
    <3> QED BY <1>1, <2>1, <3>1, <3>2
  <2>5. Len(left) = Len(right)
    BY <1>1, <2>1, <2>3
  <2>6. left = right
    BY <2>1, <2>3, <2>4, <2>5, SeqEqual
  <2> QED BY <2>6 DEF left, right, rest
<1>5. Splice(a, bc) = a \o (SubSeq(b, n + 1, Len(b)) \o c)
  BY <1>3, <1>4 DEF Splice, Unsent
<1> HIDE DEF bc
<1>r. PICK rest : rest = SubSeq(b, n + 1, Len(b))
  OBVIOUS
<1>6. rest \in Seq(Token)
  BY <1>r, <1>1, RestIs
<1>7. Associates(a, rest, c)
  BY <1>6, JoinedTwice
<1>8. Splice(a, b) = a \o rest
  BY <1>r DEF Splice, Unsent, n
<1> QED BY <1>r, <1>5, <1>7, <1>8 DEF bc, Associates

\* Nothing was sent: the replacement is all there is.
LEMMA SpliceEmpty ==
  ASSUME NEW b \in Seq(Token)
  PROVE  Splice(<<>>, b) = b
<1>1. CommonLen(<<>>, b) = 0
  <2>1. Common(<<>>, b, 0)
    BY DEF Common
  <2>2. <<>> \in Seq(Token)
    OBVIOUS
  <2> QED BY <2>1, <2>2, CommonIs
<1>2. SubSeq(b, 1, Len(b)) = b
  BY SubSeqFull
<1> QED BY <1>1, <1>2 DEF Splice, Unsent

\* Two beginnings of one text splice into the longer one.
LEMMA SplicePrefixes ==
  ASSUME NEW t \in Seq(Token), NEW a \in Seq(Token), NEW b \in Seq(Token),
         IsPrefixOf(a, t), IsPrefixOf(b, t)
  PROVE  Splice(a, b) = IF Len(a) <= Len(b) THEN b ELSE a
<1>1. Len(a) \in Nat /\ Len(b) \in Nat
  OBVIOUS
<1>2. CASE Len(a) <= Len(b)
  <2>1. CommonLen(a, b) = Len(a)
    <3>1. Common(a, b, Len(a))
      BY <1>1, <1>2 DEF Common, IsPrefixOf
    <3> QED BY <3>1, CommonIs
  <2> DEFINE rest == SubSeq(b, Len(a) + 1, Len(b))
             all == a \o rest
  <2>2. /\ rest \in Seq(Token) /\ Len(rest) = Len(b) - Len(a)
        /\ \A i \in 1 .. Len(b) - Len(a) : rest[i] = b[Len(a) + i]
    BY <1>1, <1>2
  <2>3. /\ all \in Seq(Token) /\ Len(all) = Len(b)
        /\ \A i \in 1 .. Len(a) : all[i] = a[i]
        /\ \A i \in 1 .. Len(b) - Len(a) : all[Len(a) + i] = b[Len(a) + i]
    <3> HIDE DEF rest
    <3> QED BY <1>1, <1>2, <2>2
  <2>4. ASSUME NEW i \in 1 .. Len(all) PROVE all[i] = b[i]
    <3>1. CASE i <= Len(a)
      BY <1>1, <1>2, <2>3, <3>1 DEF IsPrefixOf
    <3>2. CASE i > Len(a)
      <4> DEFINE j == i - Len(a)
      <4>1. j \in 1 .. Len(b) - Len(a) /\ i = Len(a) + j
        BY <1>1, <2>3, <3>2
      <4> HIDE DEF j, all
      <4> QED BY <2>3, <4>1
    <3> HIDE DEF all
    <3> QED BY <1>1, <2>3, <3>1, <3>2
  <2> HIDE DEF all
  <2>5. all = b
    BY <2>3, <2>4, SeqEqual
  <2> QED BY <1>2, <2>1, <2>5 DEF Splice, Unsent, all
<1>3. CASE ~(Len(a) <= Len(b))
  <2>1. CommonLen(a, b) = Len(b)
    <3>1. Common(a, b, Len(b))
      BY <1>1, <1>3 DEF Common, IsPrefixOf
    <3> QED BY <3>1, CommonIs
  <2>2. SubSeq(b, Len(b) + 1, Len(b)) = <<>>
    BY <1>1, SubSeqEmpty
  <2>3. a \o <<>> = a
    BY ConcatEmptySeq
  <2> QED BY <1>3, <2>1, <2>2, <2>3 DEF Splice, Unsent
<1> QED BY <1>2, <1>3

-----------------------------------------------------------------------------
\* What a buffer holds that was fed the text given, in front of a reader who
\* had the text from: nothing more than a beginning is held back, and what was
\* let through is all of it from the first difference on.
Kept(b, from, given) ==
  IF b.trimmed
  THEN b.seen = Splice(from, given) /\ (from = <<>> \/ Len(from) < Len(given))
  ELSE b.seen = from /\ b.held = given /\ Len(given) <= Len(from)

LEMMA BufferFields ==
  ASSUME NEW b \in Buffers
  PROVE  /\ b.seen \in Seq(Token) /\ b.held \in Seq(Token) /\ b.trimmed \in BOOLEAN
         /\ b = [seen |-> b.seen, held |-> b.held, trimmed |-> b.trimmed]
BY DEF Buffers

LEMMA IsBuffer ==
  ASSUME NEW x \in Seq(Token), NEW h \in Seq(Token), NEW f \in BOOLEAN
  PROVE  [seen |-> x, held |-> h, trimmed |-> f] \in Buffers
BY DEF Buffers

LEMMA HeldBack ==
  ASSUME NEW b \in Buffers, NEW h
  PROVE  /\ [b EXCEPT !.held = h] = [seen |-> b.seen, held |-> h, trimmed |-> b.trimmed]
         /\ [b EXCEPT !.held = h, !.trimmed = TRUE] = [seen |-> b.seen, held |-> h, trimmed |-> TRUE]
<1>1. [b EXCEPT !.held = h] = [seen |-> b.seen, held |-> h, trimmed |-> b.trimmed]
  BY DEF Buffers
<1>2. ASSUME NEW c, NEW x, NEW f \in BOOLEAN, c = [seen |-> x, held |-> h, trimmed |-> f]
      PROVE  [c EXCEPT !.trimmed = TRUE] = [seen |-> x, held |-> h, trimmed |-> TRUE]
  <2>1. PICK g : g = TRUE
    OBVIOUS
  <2>2. [c EXCEPT !.trimmed = g] = [seen |-> x, held |-> h, trimmed |-> g]
    BY <1>2
  <2> QED BY <2>1, <2>2, Zenon
<1>3. b.trimmed \in BOOLEAN
  BY DEF Buffers
<1> QED BY <1>1, <1>2, <1>3

\* The three ways a buffer can take a chunk.
LEMMA FeedIs ==
  ASSUME NEW b \in Buffers, NEW chunk, NEW slack, NEW held, held = b.held \o chunk
  PROVE  \/ b.trimmed /\ Feed(b, chunk, slack) = [buffer |-> b, out |-> chunk]
         \/ /\ ~b.trimmed /\ Len(held) >= Len(b.seen) + slack
            /\ Feed(b, chunk, slack)
                 = [buffer |-> [seen |-> b.seen, held |-> held, trimmed |-> TRUE],
                    out |-> Unsent(b.seen, held)]
         \/ /\ ~b.trimmed /\ ~(Len(held) >= Len(b.seen) + slack)
            /\ Feed(b, chunk, slack)
                 = [buffer |-> [seen |-> b.seen, held |-> held, trimmed |-> FALSE], out |-> <<>>]
<1>1. b.trimmed \in BOOLEAN
  BY BufferFields
<1>2. CASE b.trimmed
  BY <1>2 DEF Feed
<1>3. CASE ~b.trimmed /\ Len(held) >= Len(b.seen) + slack
  BY <1>3, HeldBack DEF Feed
<1>4. CASE ~b.trimmed /\ ~(Len(held) >= Len(b.seen) + slack)
  <2>1. b.trimmed = FALSE
    BY <1>1, <1>4
  <2> QED BY <1>4, <2>1, HeldBack DEF Feed
<1> QED BY <1>2, <1>3, <1>4

\* What the reader has after a chunk.
Sent(fed) == [fed.buffer EXCEPT !.seen = @ \o fed.out]

LEMMA SentIs ==
  ASSUME NEW x, NEW h, NEW f, NEW out
  PROVE  Sent([buffer |-> [seen |-> x, held |-> h, trimmed |-> f], out |-> out])
           = [seen |-> x \o out, held |-> h, trimmed |-> f]
<1>1. PICK b : b = [seen |-> x, held |-> h, trimmed |-> f]
  OBVIOUS
<1>2. PICK y : y = x \o out
  OBVIOUS
<1>3. b.seen = x /\ [b EXCEPT !.seen = y] = [seen |-> y, held |-> h, trimmed |-> f]
  BY <1>1
<1>4. PICK fed : fed = [buffer |-> b, out |-> out]
  OBVIOUS
<1>5. fed.buffer = b /\ fed.out = out
  BY <1>4
<1> QED BY <1>1, <1>2, <1>3, <1>4, <1>5 DEF Sent

\* The last of it is sent, and nothing is compared any more.
LEMMA EmptiedIs ==
  ASSUME NEW x, NEW h, NEW f, NEW all, NEW flag
  PROVE  [[seen |-> x, held |-> h, trimmed |-> f] EXCEPT !.seen = all, !.trimmed = flag]
           = [seen |-> all, held |-> h, trimmed |-> flag]
<1>1. PICK b : b = [seen |-> x, held |-> h, trimmed |-> f]
  OBVIOUS
<1>2. PICK c : c = [seen |-> all, held |-> h, trimmed |-> f]
  OBVIOUS
<1>3. [b EXCEPT !.seen = all] = c
  BY <1>1, <1>2
<1>4. [c EXCEPT !.trimmed = flag] = [seen |-> all, held |-> h, trimmed |-> flag]
  BY <1>2
<1> QED BY <1>1, <1>3, <1>4

LEMMA KeptThrough ==
  ASSUME NEW from, NEW given, NEW h \in Seq(Token), NEW x \in Seq(Token), x = Splice(from, given),
         from = <<>> \/ Len(from) < Len(given), NEW b, b = [seen |-> x, held |-> h, trimmed |-> TRUE]
  PROVE  b \in Buffers /\ Kept(b, from, given)
<1>1. b.seen = x /\ b.trimmed
  OBVIOUS
<1> QED BY <1>1, IsBuffer DEF Kept

LEMMA KeptBack ==
  ASSUME NEW from \in Seq(Token), NEW given \in Seq(Token), Len(given) <= Len(from),
         NEW b, b = [seen |-> from, held |-> given, trimmed |-> FALSE]
  PROVE  b \in Buffers /\ Kept(b, from, given)
<1>1. b.seen = from /\ b.held = given /\ ~b.trimmed
  OBVIOUS
<1> QED BY <1>1, IsBuffer DEF Kept

LEMMA FeedKeeps ==
  ASSUME NEW b \in Buffers, NEW from \in Seq(Token), NEW given \in Seq(Token),
         NEW piece \in Seq(Token), Kept(b, from, given),
         NEW fed, fed = Feed(b, piece, 1),
         NEW after, after = Sent(fed)
  PROVE  after \in Buffers /\ Kept(after, from, given \o piece)
<1>1. PICK now : now = given \o piece
  OBVIOUS
<1>2. PICK held : held = b.held \o piece
  OBVIOUS
<1>3. now \in Seq(Token) /\ Len(now) = Len(given) + Len(piece)
      /\ Len(given) \in Nat /\ Len(piece) \in Nat /\ Len(from) \in Nat
  BY <1>1, Joined
<1>4. CASE b.trimmed /\ fed = [buffer |-> b, out |-> piece]
  <2>1. b.seen = Splice(from, given) /\ (from = <<>> \/ Len(from) < Len(given))
    BY <1>4 DEF Kept
  <2>2. PICK x : x = b.seen
    OBVIOUS
  <2>3. x \in Seq(Token) /\ b.held \in Seq(Token) /\ b = [seen |-> x, held |-> b.held, trimmed |-> TRUE]
    BY <1>4, <2>2, BufferFields
  <2>4. after = [seen |-> x \o piece, held |-> b.held, trimmed |-> TRUE]
    <3>1. fed = [buffer |-> [seen |-> x, held |-> b.held, trimmed |-> TRUE], out |-> piece]
      BY <1>4, <2>3
    <3>2. Sent([buffer |-> [seen |-> x, held |-> b.held, trimmed |-> TRUE], out |-> piece])
            = [seen |-> x \o piece, held |-> b.held, trimmed |-> TRUE]
      BY SentIs, Zenon
    <3> QED BY <3>1, <3>2, Zenon
  <2>5. Splice(from, now) = x \o piece
    <3>1. from = <<>> \/ Len(from) <= Len(given)
      BY <1>3, <2>1
    <3>2. Splice(from, given \o piece) = Splice(from, given) \o piece
      BY <3>1, SpliceGrows
    <3> QED BY <1>1, <2>1, <2>2, <3>2
  <2>6. x \o piece \in Seq(Token)
    BY <2>3, Joined
  <2>7. from = <<>> \/ Len(from) < Len(now)
    BY <1>3, <2>1
  <2> QED BY <1>1, <2>3, <2>4, <2>5, <2>6, <2>7, KeptThrough
<1>5. CASE /\ ~b.trimmed /\ Len(held) >= Len(b.seen) + 1
           /\ fed = [buffer |-> [seen |-> b.seen, held |-> held, trimmed |-> TRUE],
                     out |-> Unsent(b.seen, held)]
  <2>1. b.seen = from /\ held = now
    BY <1>1, <1>2, <1>5 DEF Kept
  <2>2. after = [seen |-> from \o Unsent(from, now), held |-> now, trimmed |-> TRUE]
    <3>1. fed = [buffer |-> [seen |-> from, held |-> now, trimmed |-> TRUE], out |-> Unsent(from, now)]
      BY <1>5, <2>1
    <3>2. Sent([buffer |-> [seen |-> from, held |-> now, trimmed |-> TRUE], out |-> Unsent(from, now)])
            = [seen |-> from \o Unsent(from, now), held |-> now, trimmed |-> TRUE]
      BY SentIs, Zenon
    <3> QED BY <3>1, <3>2, Zenon
  <2>3. from \o Unsent(from, now) = Splice(from, now) /\ Splice(from, now) \in Seq(Token)
    BY <1>3, SpliceType DEF Splice
  <2>4. Len(from) < Len(now)
    BY <1>3, <1>5, <2>1
  <2> QED BY <1>1, <1>3, <2>2, <2>3, <2>4, KeptThrough
<1>6. CASE /\ ~b.trimmed /\ ~(Len(held) >= Len(b.seen) + 1)
           /\ fed = [buffer |-> [seen |-> b.seen, held |-> held, trimmed |-> FALSE],
                     out |-> <<>>]
  <2>1. b.seen = from /\ held = now
    BY <1>1, <1>2, <1>6 DEF Kept
  <2>2. from \o <<>> = from
    BY ConcatEmptySeq
  <2>3. after = [seen |-> from, held |-> now, trimmed |-> FALSE]
    <3>1. fed = [buffer |-> [seen |-> from, held |-> now, trimmed |-> FALSE], out |-> <<>>]
      BY <1>6, <2>1
    <3> QED BY <2>2, <3>1, SentIs
  <2>4. Len(now) <= Len(from)
    BY <1>3, <1>6, <2>1
  <2> QED BY <1>1, <1>3, <2>3, <2>4, KeptBack
<1> QED BY <1>2, <1>4, <1>5, <1>6, FeedIs

LEMMA OuterFeedKeeps ==
  ASSUME outer \in Buffers, NEW from \in Seq(Token), NEW given \in Seq(Token),
         NEW piece \in Seq(Token), Kept(outer, from, given)
  PROVE  OuterFeed(piece) \in Buffers /\ Kept(OuterFeed(piece), from, given \o piece)
<1>1. PICK b \in Buffers : b = outer
  OBVIOUS
<1>2. PICK after : after = OuterFeed(piece)
  OBVIOUS
<1>3. PICK fed : fed = Feed(b, piece, 1)
  OBVIOUS
<1>4. Kept(b, from, given) /\ after = Sent(fed)
  BY <1>1, <1>2, <1>3, Zenon DEF OuterFeed, Sent
<1> QED BY <1>2, <1>3, <1>4, FeedKeeps

\* The end gives up what was held back.
LEMMA FlushKeeps ==
  ASSUME NEW b \in Buffers, NEW from \in Seq(Token), NEW given \in Seq(Token),
         Kept(b, from, given)
  PROVE  b.seen \o Flush(b) = Splice(from, given)
<1>1. b.seen \in Seq(Token)
  BY DEF Buffers
<1>2. CASE b.trimmed
  <2>1. b.seen \o <<>> = b.seen
    BY <1>1, ConcatEmptySeq
  <2> QED BY <1>2, <2>1 DEF Kept, Flush
<1>3. CASE ~b.trimmed
  BY <1>3 DEF Kept, Flush, Splice
<1> QED BY <1>2, <1>3

-----------------------------------------------------------------------------
\* The executor's buffer in front of a backup of which had was read, and what
\* the two have given.
BackupKept(b, had) ==
  IF b.trimmed THEN b.seen = <<>> \/ Len(b.seen) <= Len(had)
  ELSE b.held = had /\ Len(had) < Len(b.seen)

BackupGiven(b, had) == IF b.trimmed THEN Splice(b.seen, had) ELSE b.seen

Remembering(fed, chunk) == [fed EXCEPT !.buffer.seen = @ \o chunk]

LEMMA OwnFeedKeeps ==
  ASSUME NEW had, NEW chunk, NEW b, NEW flag, flag = TRUE,
         b = [seen |-> had, held |-> <<>>, trimmed |-> flag]
  PROVE  Remembering(Feed(b, chunk, 0), chunk)
           = [buffer |-> [seen |-> had \o chunk, held |-> <<>>, trimmed |-> flag], out |-> chunk]
<1> PICK fed : fed = [Feed(b, chunk, 0) EXCEPT !.buffer.seen = @ \o chunk]
  OBVIOUS
<1> SUFFICES fed = [buffer |-> [seen |-> had \o chunk, held |-> <<>>, trimmed |-> flag], out |-> chunk]
  BY Zenon DEF Remembering
<1>1. b.trimmed /\ b.seen = had
  OBVIOUS
<1>2. Feed(b, chunk, 0) = [buffer |-> b, out |-> chunk]
  BY <1>1, Zenon DEF Feed
<1>3. PICK y : y = had \o chunk
  OBVIOUS
<1>4. PICK c : c = [buffer |-> b, out |-> chunk]
  OBVIOUS
<1>5. c.buffer = b
  BY <1>4
<1>6. fed = [c EXCEPT !.buffer = [b EXCEPT !.seen = y]]
  BY <1>1, <1>2, <1>3, <1>4, <1>5, Zenon
<1>7. PICK d : d = [b EXCEPT !.seen = y]
  OBVIOUS
<1>8. [c EXCEPT !.buffer = d] = [buffer |-> d, out |-> chunk]
  BY <1>4
<1>9. d = [seen |-> y, held |-> <<>>, trimmed |-> flag]
  BY <1>7
<1> QED BY <1>3, <1>6, <1>7, <1>8, <1>9, Zenon

BackupFed(b, had, chunk, fed) ==
  /\ fed.out \in Seq(Token) /\ fed.buffer \in Buffers /\ fed.buffer.seen = b.seen
  /\ BackupKept(fed.buffer, had \o chunk)
  /\ BackupGiven(fed.buffer, had \o chunk) = BackupGiven(b, had) \o fed.out

LEMMA BackupFeedKeeps ==
  ASSUME NEW b \in Buffers, NEW had \in Seq(Token), NEW chunk \in Seq(Token), BackupKept(b, had)
  PROVE  BackupFed(b, had, chunk, Feed(b, chunk, 0))
<1> PICK more : more = had \o chunk
  OBVIOUS
<1> PICK fed : fed = Feed(b, chunk, 0)
  OBVIOUS
<1> SUFFICES /\ fed.out \in Seq(Token) /\ fed.buffer \in Buffers /\ fed.buffer.seen = b.seen
             /\ BackupKept(fed.buffer, more)
             /\ BackupGiven(fed.buffer, more) = BackupGiven(b, had) \o fed.out
  BY DEF BackupFed
<1>1. b.seen \in Seq(Token) /\ b.held \in Seq(Token)
  BY BufferFields
<1>2. more \in Seq(Token) /\ Len(more) = Len(had) + Len(chunk) /\ Len(had) \in Nat /\ Len(chunk) \in Nat
  BY Joined
<1>3. Len(b.seen) \in Nat
  BY <1>1
<1>4. PICK held : held = b.held \o chunk
  OBVIOUS
<1>5. PICK c : c = fed.buffer
  OBVIOUS
<1>6. CASE b.trimmed /\ fed = [buffer |-> b, out |-> chunk]
  <2>1. c = b /\ fed.out = chunk
    BY <1>5, <1>6
  <2>2. b.seen = <<>> \/ Len(b.seen) <= Len(had)
    BY <1>6 DEF BackupKept
  <2>3. b.seen = <<>> \/ Len(b.seen) <= Len(more)
    BY <1>2, <1>3, <2>2
  <2>4. Splice(b.seen, more) = Splice(b.seen, had) \o chunk
    BY <1>1, <2>2, SpliceGrows
  <2> QED BY <1>5, <1>6, <2>1, <2>3, <2>4 DEF BackupKept, BackupGiven
<1>7. CASE /\ ~b.trimmed /\ Len(held) >= Len(b.seen) + 0
           /\ fed = [buffer |-> [seen |-> b.seen, held |-> held, trimmed |-> TRUE],
                     out |-> Unsent(b.seen, held)]
  <2>1. held = more
    BY <1>4, <1>7 DEF BackupKept
  <2>2. c = [seen |-> b.seen, held |-> more, trimmed |-> TRUE] /\ fed.out = Unsent(b.seen, more)
    <3>1. fed = [buffer |-> [seen |-> b.seen, held |-> more, trimmed |-> TRUE], out |-> Unsent(b.seen, more)]
      BY <1>7, <2>1
    <3>2. PICK r : r = [seen |-> b.seen, held |-> more, trimmed |-> TRUE]
      OBVIOUS
    <3>3. fed = [buffer |-> r, out |-> Unsent(b.seen, more)]
      BY <3>1, <3>2, Zenon
    <3>4. fed.buffer = r /\ fed.out = Unsent(b.seen, more)
      BY <3>3
    <3> QED BY <1>5, <3>2, <3>4, Zenon
  <2>3. c.seen = b.seen /\ c.trimmed
    BY <2>2
  <2>4. fed.out \in Seq(Token) /\ Splice(b.seen, more) = b.seen \o fed.out
    BY <1>1, <1>2, <2>2, SpliceType DEF Splice
  <2>5. Len(b.seen) <= Len(more)
    BY <1>2, <1>3, <1>7, <2>1
  <2>6. c \in Buffers
    BY <1>1, <1>2, <2>2, IsBuffer
  <2> QED BY <1>5, <1>7, <2>3, <2>4, <2>5, <2>6 DEF BackupKept, BackupGiven
<1>8. CASE /\ ~b.trimmed /\ ~(Len(held) >= Len(b.seen) + 0)
           /\ fed = [buffer |-> [seen |-> b.seen, held |-> held, trimmed |-> FALSE], out |-> <<>>]
  <2>1. held = more
    BY <1>4, <1>8 DEF BackupKept
  <2>2. c = [seen |-> b.seen, held |-> more, trimmed |-> FALSE] /\ fed.out = <<>>
    <3>1. fed = [buffer |-> [seen |-> b.seen, held |-> more, trimmed |-> FALSE], out |-> <<>>]
      BY <1>8, <2>1
    <3>2. PICK r : r = [seen |-> b.seen, held |-> more, trimmed |-> FALSE]
      OBVIOUS
    <3>3. fed = [buffer |-> r, out |-> <<>>]
      BY <3>1, <3>2, Zenon
    <3>4. fed.buffer = r /\ fed.out = <<>>
      BY <3>3
    <3> QED BY <1>5, <3>2, <3>4, Zenon
  <2>3. c.seen = b.seen /\ ~c.trimmed /\ c.held = more
    BY <2>2
  <2>4. b.seen \o <<>> = b.seen /\ <<>> \in Seq(Token)
    BY <1>1, ConcatEmptySeq
  <2>5. Len(more) < Len(b.seen)
    BY <1>2, <1>3, <1>8, <2>1
  <2>6. c \in Buffers
    BY <1>1, <1>2, <2>2, IsBuffer
  <2> QED BY <1>5, <1>8, <2>2, <2>3, <2>4, <2>5, <2>6 DEF BackupKept, BackupGiven
<1> QED BY <1>4, <1>6, <1>7, <1>8, FeedIs

-----------------------------------------------------------------------------
\* What of a source was read, and what the generator has made of it.
Had(s) == SubSeq(text[s], 1, pos)
Given == IF src # 0 THEN Had(src) ELSE BackupGiven(inner, Had(0))

Reading == phase \in {"probing", "streaming"}

InnerKept ==
  IF src # 0 THEN inner = [seen |-> Had(src), held |-> <<>>, trimmed |-> TRUE]
  ELSE BackupKept(inner, Had(0))

OuterKept == Reading => Kept(outer, base, Given)

ProbingKept ==
  phase = "probing" => /\ pos = 0 /\ base = <<>> /\ outer.trimmed
                       /\ inner.seen = <<>> /\ inner.trimmed

Agreeing == \A s \in Sources : text[s] = text[0]

AgreementKept ==
  Agreeing => /\ IsPrefixOf(outer.seen, text[0]) /\ IsPrefixOf(base, text[0])
              /\ IsPrefixOf(inner.seen, text[0])
              /\ phase = "ended" => outer.seen = text[0]

OrderKept == IF phase = "failed" THEN tried = Ranks ELSE tried = 1 .. at - 1

StreamInv ==
  /\ FTypeOK /\ InnerKept /\ OuterKept /\ ProbingKept /\ AgreementKept
  /\ NothingDropped /\ OrderKept

LEMMA HadType ==
  ASSUME FTypeOK
  PROVE  /\ text[src] \in Seq(Token) /\ text[0] \in Seq(Token)
         /\ Len(text[src]) \in Nat /\ pos \in Nat /\ pos <= Len(text[src])
         /\ Had(src) \in Seq(Token) /\ Len(Had(src)) = pos
         /\ \A i \in 1 .. pos : Had(src)[i] = text[src][i]
<1>1. text \in [Sources -> Seq(Token)] /\ src \in Sources /\ 0 \in Sources
  BY StreamAssumption DEF FTypeOK, Sources
<1> PICK t \in Seq(Token) : t = text[src]
  BY <1>1
<1>2. Len(t) \in Nat /\ pos \in Nat /\ pos <= Len(t)
  BY DEF FTypeOK
<1> PICK had : had = SubSeq(t, 1, pos)
  OBVIOUS
<1>3. \A i \in 1 .. pos : t[i] \in Token
  BY <1>2
<1>4. had \in Seq(Token) /\ Len(had) = pos /\ \A i \in 1 .. pos : had[i] = t[i]
  BY <1>2, <1>3
<1> QED BY <1>1, <1>2, <1>4 DEF Had

LEMMA GivenType ==
  ASSUME FTypeOK
  PROVE  Given \in Seq(Token)
<1>1. inner.seen \in Seq(Token)
  BY DEF FTypeOK, Buffers
<1>2. src = 0 => Had(0) \in Seq(Token)
  BY HadType
<1>3. src = 0 => Splice(inner.seen, Had(0)) \in Seq(Token)
  BY <1>1, <1>2, SpliceType
<1> QED BY <1>1, <1>3, HadType DEF Given, BackupGiven

\* A chunk read is what the generator gives next, or is held back by the
\* executor.
LEMMA InnerFeedKeeps ==
  ASSUME NEW n \in Nat, NEW chunk, NEW fed
  PROVE  FTypeOK /\ InnerKept /\ pos + n <= Len(text[src]) /\ chunk = SubSeq(text[src], pos + 1, pos + n)
           /\ fed = InnerFeed(chunk)
           /\ pos' = pos + n /\ UNCHANGED <<text, src>> /\ inner' = fed.buffer
           => /\ fed.out \in Seq(Token) /\ inner' \in Buffers /\ InnerKept'
              /\ Given' = Given \o fed.out
              /\ inner'.seen = IF src = 0 THEN inner.seen ELSE Had(src)'
<1>0. SUFFICES ASSUME FTypeOK, InnerKept, pos + n <= Len(text[src]),
                      chunk = SubSeq(text[src], pos + 1, pos + n), fed = InnerFeed(chunk),
                      pos' = pos + n, UNCHANGED <<text, src>>, inner' = fed.buffer
               PROVE  /\ fed.out \in Seq(Token) /\ inner' \in Buffers /\ InnerKept'
                      /\ Given' = Given \o fed.out
                      /\ inner'.seen = IF src = 0 THEN inner.seen ELSE Had(src)'
  OBVIOUS
<1>1. PICK t \in Seq(Token) : t = text[src]
  BY <1>0, HadType
<1>2. PICK p \in Nat : p = pos
  BY <1>0, HadType
<1>3. PICK had \in Seq(Token) : had = SubSeq(t, 1, p) /\ had = Had(src)
  BY <1>0, <1>1, <1>2, HadType DEF Had
<1>4. PICK more : more = SubSeq(t, 1, p + n)
  OBVIOUS
<1>5. p + n <= Len(t) /\ chunk = SubSeq(t, p + 1, p + n)
  BY <1>0, <1>1, <1>2
<1>6. chunk \in Seq(Token) /\ more = had \o chunk
  BY <1>3, <1>4, <1>5, HadAdds
<1>7. more \in Seq(Token)
  BY <1>6, Joined
<1>8. Had(src)' = more
  BY <1>0, <1>1, <1>2, <1>4 DEF Had
<1>9. PICK b \in Buffers : b = inner
  BY <1>0 DEF FTypeOK
<1>10. inner' = fed.buffer /\ src' = src
  BY <1>0
<1>11. CASE src # 0
  <2>1. PICK flag : flag = TRUE
    OBVIOUS
  <2>2. b = [seen |-> had, held |-> <<>>, trimmed |-> flag]
    BY <1>0, <1>3, <1>9, <1>11, <2>1, Zenon DEF InnerKept
  <2>3. fed = Remembering(Feed(b, chunk, 0), chunk)
    BY <1>0, <1>9, <1>11, Zenon DEF InnerFeed, Remembering
  <2>4. fed = [buffer |-> [seen |-> had \o chunk, held |-> <<>>, trimmed |-> flag], out |-> chunk]
    BY <2>1, <2>2, <2>3, OwnFeedKeeps
  <2>5. PICK r : r = [seen |-> more, held |-> <<>>, trimmed |-> flag]
    OBVIOUS
  <2>6. fed = [buffer |-> r, out |-> chunk]
    BY <1>6, <2>4, <2>5, Zenon
  <2>7. inner' = r /\ fed.out = chunk
    BY <1>10, <2>6
  <2>8. InnerKept'
    BY <1>8, <1>10, <1>11, <2>1, <2>5, <2>7, Zenon DEF InnerKept
  <2>9. r \in Buffers
    <3>1. <<>> \in Seq(Token) /\ flag \in BOOLEAN
      BY <2>1
    <3> QED BY <1>7, <2>5, <3>1, IsBuffer
  <2>10. Given = had /\ Given' = more
    BY <1>3, <1>8, <1>10, <1>11 DEF Given
  <2>11. r.seen = more
    BY <2>5
  <2> QED BY <1>6, <1>8, <1>11, <2>7, <2>8, <2>9, <2>10, <2>11
<1>12. CASE src = 0
  <2>1. BackupKept(b, had)
    BY <1>0, <1>3, <1>9, <1>12 DEF InnerKept
  <2>2. fed = Feed(b, chunk, 0)
    BY <1>0, <1>9, <1>12 DEF InnerFeed
  <2>3. /\ fed.out \in Seq(Token) /\ fed.buffer \in Buffers /\ fed.buffer.seen = b.seen
        /\ BackupKept(fed.buffer, more)
        /\ BackupGiven(fed.buffer, more) = BackupGiven(b, had) \o fed.out
    <3>1. BackupFed(b, had, chunk, Feed(b, chunk, 0))
      BY <1>6, <2>1, BackupFeedKeeps
    <3> QED BY <1>6, <2>2, <3>1 DEF BackupFed
  <2>4. Had(0)' = more /\ Had(0) = had
    BY <1>3, <1>8, <1>10, <1>12 DEF Had
  <2>5. InnerKept'
    BY <1>10, <1>12, <2>3, <2>4 DEF InnerKept, BackupKept
  <2>6. Given = BackupGiven(b, had) /\ Given' = BackupGiven(fed.buffer, more)
    BY <1>9, <1>10, <1>12, <2>4 DEF Given, BackupGiven
  <2> QED BY <1>9, <1>10, <1>12, <2>3, <2>5, <2>6
<1> QED BY <1>11, <1>12

\* While all providers give the same answer, what a generator has given is a
\* beginning of it.
InnerAgrees == FTypeOK /\ InnerKept /\ Agreeing /\ IsPrefixOf(inner.seen, text[0])

LEMMA GivenAgrees == InnerAgrees => IsPrefixOf(Given, text[0])
<1>1. SUFFICES ASSUME InnerAgrees PROVE IsPrefixOf(Given, text[0])
  OBVIOUS
<1>2. PICK t \in Seq(Token) : t = text[0] /\ t = text[src]
  BY <1>1, HadType DEF InnerAgrees, Agreeing, FTypeOK, Sources
<1>3. PICK had \in Seq(Token) : had = Had(src)
  BY <1>1, HadType DEF InnerAgrees
<1>4. IsPrefixOf(had, t)
  BY <1>1, <1>2, <1>3, HadType DEF InnerAgrees, IsPrefixOf
<1>5. PICK x \in Seq(Token) : x = inner.seen
  BY <1>1, BufferFields DEF InnerAgrees, FTypeOK
<1>6. IsPrefixOf(x, t)
  BY <1>1, <1>2, <1>5 DEF InnerAgrees
<1>7. Splice(x, had) = IF Len(x) <= Len(had) THEN had ELSE x
  BY <1>4, <1>6, SplicePrefixes
<1>8. Given \in {had, Splice(x, had), x}
  BY <1>3, <1>5 DEF Given, BackupGiven
<1> QED BY <1>2, <1>4, <1>6, <1>7, <1>8

LEMMA GivenAgreesNext == InnerAgrees' => IsPrefixOf(Given, text[0])'
BY GivenAgrees, PTL

\* And so is what its reader was sent.
LEMMA SeenAgrees ==
  ASSUME NEW t \in Seq(Token), NEW from \in Seq(Token), NEW given \in Seq(Token), NEW b,
         Kept(b, from, given), IsPrefixOf(from, t), IsPrefixOf(given, t)
  PROVE  IsPrefixOf(b.seen, t)
<1>1. Splice(from, given) = IF Len(from) <= Len(given) THEN given ELSE from
  BY SplicePrefixes
<1>2. b.seen \in {from, Splice(from, given)}
  BY DEF Kept
<1> QED BY <1>1, <1>2

-----------------------------------------------------------------------------
\* A generator that has just been taken up has given nothing.
LEMMA NewGenerator ==
  ASSUME NEW p \in Ranks
  PROVE  FTypeOK /\ Generator(p) /\ UNCHANGED text =>
           /\ InnerKept' /\ Given' = <<>> /\ inner' \in Buffers /\ pos' = 0 /\ src' = p /\ at' = p
           /\ inner'.seen = <<>> /\ inner'.trimmed /\ pos' \in 0 .. Len(text'[src'])
<1>1. SUFFICES ASSUME FTypeOK, Generator(p), UNCHANGED text
               PROVE  /\ InnerKept' /\ Given' = <<>> /\ inner' \in Buffers
                      /\ inner'.seen = <<>> /\ inner'.trimmed /\ pos' \in 0 .. Len(text'[src'])
  BY DEF Generator
<1>2. p # 0 /\ src' = p /\ pos' = 0 /\ text' = text
  BY <1>1, StreamAssumption DEF Generator, Ranks
<1>3. text[p] \in Seq(Token)
  BY <1>1, StreamAssumption DEF FTypeOK, Sources
<1>4. PICK t \in Seq(Token) : t = text[p]
  BY <1>3
<1>5. SubSeq(t, 1, 0) = <<>> /\ 0 \in 0 .. Len(t)
  BY SubSeqEmpty
<1>6. Had(src)' = <<>>
  BY <1>2, <1>4, <1>5 DEF Had
<1>7. PICK flag : flag = TRUE
  OBVIOUS
<1>8. inner' = [seen |-> <<>>, held |-> <<>>, trimmed |-> flag]
  BY <1>1, <1>7, Zenon DEF Generator, Fresh
<1>9. InnerKept' /\ Given' = <<>>
  BY <1>2, <1>6, <1>7, <1>8, Zenon DEF InnerKept, Given
<1>10. inner' \in Buffers
  <2>1. <<>> \in Seq(Token) /\ flag \in BOOLEAN
    BY <1>7
  <2> QED BY <1>8, <2>1, IsBuffer
<1>11. inner'.seen = <<>> /\ inner'.trimmed
  BY <1>7, <1>8
<1> QED BY <1>2, <1>4, <1>5, <1>9, <1>10, <1>11

LEMMA NothingAgrees ==
  ASSUME FTypeOK
  PROVE  IsPrefixOf(<<>>, text[0])
<1>1. text[0] \in Seq(Token)
  BY HadType
<1>2. PICK t \in Seq(Token) : t = text[0]
  BY <1>1
<1>3. IsPrefixOf(<<>>, t)
  BY DEF IsPrefixOf
<1> QED BY <1>2, <1>3

\* Before the first chunk nothing was given.
LEMMA ProbingGives ==
  ASSUME StreamInv, phase = "probing"
  PROVE  Given = <<>> /\ base = <<>> /\ outer.trimmed /\ outer.seen = <<>> /\ inner.seen = <<>>
<1>1. pos = 0 /\ base = <<>> /\ outer.trimmed /\ inner.seen = <<>> /\ inner.trimmed /\ FTypeOK
  BY DEF StreamInv, ProbingKept
<1>2. PICK t \in Seq(Token) : t = text[src]
  BY <1>1, HadType
<1>3. SubSeq(t, 1, 0) = <<>>
  BY SubSeqEmpty
<1>4. Had(src) = <<>>
  BY <1>1, <1>2, <1>3 DEF Had
<1>5. Splice(<<>>, <<>>) = <<>>
  <2>1. <<>> \in Seq(Token)
    OBVIOUS
  <2> QED BY <2>1, SpliceEmpty
<1>6. Given = <<>>
  BY <1>1, <1>4, <1>5 DEF Given, BackupGiven
<1>7. outer.seen = Splice(base, Given)
  BY <1>1 DEF StreamInv, OuterKept, Reading, Kept
<1> QED BY <1>1, <1>5, <1>6, <1>7

LEMMA StreamInit == FInit => StreamInv
<1>1. SUFFICES ASSUME FInit PROVE StreamInv
  OBVIOUS
<1>2. 1 \in Ranks /\ 1 \in Sources
  BY StreamAssumption DEF Ranks, Sources
<1>3. PICK flag : flag = TRUE
  OBVIOUS
<1>4. PICK b : b = [seen |-> <<>>, held |-> <<>>, trimmed |-> flag]
  OBVIOUS
<1>5. inner = b /\ outer = b
  BY <1>1, <1>3, <1>4, Zenon DEF FInit, Fresh
<1>6. b \in Buffers /\ b.seen = <<>> /\ b.trimmed
  <2>1. <<>> \in Seq(Token) /\ flag \in BOOLEAN
    BY <1>3
  <2> QED BY <1>3, <1>4, <2>1, IsBuffer
<1>7. text[1] \in Seq(Token)
  BY <1>1, <1>2, StreamAssumption DEF FInit
<1>8. FTypeOK
  <2>1. 0 \in 0 .. Len(text[1]) /\ <<>> \in Seq(Token)
    BY <1>7
  <2> QED BY <1>1, <1>2, <1>5, <1>6, <2>1 DEF FInit, FTypeOK
<1>9. Had(src) = <<>>
  <2>1. PICK t \in Seq(Token) : t = text[1]
    BY <1>7
  <2>2. SubSeq(t, 1, 0) = <<>>
    BY SubSeqEmpty
  <2> QED BY <1>1, <2>1, <2>2 DEF FInit, Had
<1>10. InnerKept /\ Given = <<>>
  <2>1. src # 0
    BY <1>1 DEF FInit
  <2> QED BY <1>3, <1>4, <1>5, <1>9, <2>1, Zenon DEF InnerKept, Given
<1>11. Kept(outer, base, Given)
  <2>1. Splice(<<>>, <<>>) = <<>>
    <3>1. <<>> \in Seq(Token)
      OBVIOUS
    <3> QED BY <3>1, SpliceEmpty
  <2>2. base = <<>> /\ outer.seen = <<>> /\ outer.trimmed
    BY <1>1, <1>5, <1>6 DEF FInit
  <2> QED BY <1>10, <2>1, <2>2 DEF Kept
<1>12. IsPrefixOf(<<>>, text[0])
  BY <1>8, NothingAgrees
<1>13. OuterKept /\ ProbingKept /\ AgreementKept /\ NothingDropped /\ OrderKept
  <2>1. 1 .. 1 - 1 = {}
    OBVIOUS
  <2> QED BY <1>1, <1>5, <1>6, <1>11, <1>12, <2>1
         DEF FInit, OuterKept, ProbingKept, AgreementKept, NothingDropped, OrderKept
<1> QED BY <1>8, <1>10, <1>13 DEF StreamInv

\* A chunk goes through both buffers.
LEMMA ChunkStep ==
  ASSUME NEW n \in 1 .. Len(text[src])
  PROVE  StreamInv /\ Chunk(n) => StreamInv'
<1>1. SUFFICES ASSUME StreamInv, Chunk(n) PROVE StreamInv'
  OBVIOUS
<1>2. FTypeOK /\ InnerKept /\ pos + n <= Len(text[src]) /\ pos' = pos + n /\ Reading
  BY <1>1 DEF StreamInv, Chunk, Reading
<1>3. PICK chunk : chunk = SubSeq(text[src], pos + 1, pos + n)
  OBVIOUS
<1>4. PICK fed : fed = InnerFeed(chunk)
  OBVIOUS
<1>5. /\ inner' = fed.buffer /\ outer' = OuterFeed(fed.out) /\ phase' = "streaming"
      /\ UNCHANGED <<text, at, src, base, tried>>
  BY <1>1, <1>3, <1>4, Zenon DEF Chunk
<1>6. n \in Nat
  BY <1>2, HadType
<1>7. /\ fed.out \in Seq(Token) /\ inner' \in Buffers /\ InnerKept'
      /\ Given' = Given \o fed.out
      /\ inner'.seen = IF src = 0 THEN inner.seen ELSE Had(src)'
  BY <1>2, <1>3, <1>4, <1>5, <1>6, InnerFeedKeeps
<1>8. Given \in Seq(Token) /\ base \in Seq(Token) /\ outer \in Buffers
  BY <1>2, GivenType DEF FTypeOK
<1>9. Kept(outer, base, Given)
  BY <1>1, <1>2 DEF StreamInv, OuterKept
<1>10. outer' \in Buffers /\ Kept(outer', base, Given')
  <2>1. PICK given \in Seq(Token), from \in Seq(Token), piece \in Seq(Token) :
          given = Given /\ from = base /\ piece = fed.out
    BY <1>7, <1>8
  <2>2. OuterFeed(piece) \in Buffers /\ Kept(OuterFeed(piece), from, given \o piece)
    BY <1>8, <1>9, <2>1, OuterFeedKeeps
  <2> QED BY <1>5, <1>7, <2>1, <2>2
<1>11. FTypeOK'
  <2>1. pos' \in 0 .. Len(text'[src'])
    BY <1>2, <1>5, <1>6, HadType
  <2> QED BY <1>2, <1>5, <1>7, <1>10, <2>1 DEF FTypeOK
<1>12. OuterKept'
  BY <1>5, <1>10 DEF OuterKept, Kept
<1>13. AgreementKept'
  <2>1. SUFFICES ASSUME Agreeing' PROVE IsPrefixOf(outer'.seen, text'[0]) /\ IsPrefixOf(base', text'[0])
                                        /\ IsPrefixOf(inner'.seen, text'[0])
    BY <1>5 DEF AgreementKept
  <2>2. Agreeing
    BY <1>5, <2>1 DEF Agreeing
  <2>3. PICK t \in Seq(Token) : t = text[0] /\ t = text[src]
    BY <1>2, <2>2, HadType DEF Agreeing, FTypeOK, Sources
  <2>4. IsPrefixOf(base, t) /\ IsPrefixOf(inner.seen, t)
    BY <1>1, <2>2, <2>3 DEF StreamInv, AgreementKept
  <2>5. IsPrefixOf(inner'.seen, t)
    <3>1. CASE src = 0
      BY <1>7, <2>4, <3>1
    <3>2. CASE src # 0
      <4>1. PICK q \in Nat : q = pos' /\ q <= Len(t)
        BY <1>2, <1>6, <2>3, HadType
      <4>2. PICK more : more = SubSeq(t, 1, q)
        OBVIOUS
      <4>3. Len(more) = q /\ \A i \in 1 .. q : more[i] = t[i]
        BY <4>1, <4>2
      <4>4. inner'.seen = more
        BY <1>5, <1>7, <2>3, <3>2, <4>1, <4>2 DEF Had
      <4> QED BY <4>1, <4>3, <4>4 DEF IsPrefixOf
    <3> QED BY <3>1, <3>2
  <2>6. InnerAgrees'
    BY <1>5, <1>7, <1>11, <2>1, <2>3, <2>5 DEF InnerAgrees
  <2>7. IsPrefixOf(Given', t)
    BY <1>5, <2>3, <2>6, GivenAgreesNext
  <2>8. PICK given \in Seq(Token), from \in Seq(Token) : given = Given' /\ from = base
    <3>1. Given' \in Seq(Token)
      BY <1>7, <1>8, Joined
    <3> QED BY <1>8, <3>1
  <2>10. PICK b : b = outer'
    OBVIOUS
  <2>9. IsPrefixOf(b.seen, t)
    BY <1>10, <2>4, <2>7, <2>8, <2>10, SeenAgrees
  <2> QED BY <1>5, <2>3, <2>4, <2>5, <2>9, <2>10
<1>14. ProbingKept' /\ NothingDropped' /\ OrderKept'
  <2>1. tried = 1 .. at - 1
    BY <1>1, <1>2 DEF StreamInv, OrderKept, Reading
  <2> QED BY <1>5, <2>1 DEF ProbingKept, NothingDropped, OrderKept
<1> QED BY <1>7, <1>11, <1>12, <1>13, <1>14 DEF StreamInv

\* The executor turns to its backup: the dispatcher does not notice.
LEMMA BackupStep == StreamInv /\ Reading /\ src = at /\ TakeBackup => StreamInv'
<1>1. SUFFICES ASSUME StreamInv, Reading, src = at, TakeBackup PROVE StreamInv'
  OBVIOUS
<1>2. FTypeOK /\ src # 0 /\ InnerKept
  BY <1>1, StreamAssumption DEF StreamInv, FTypeOK, Ranks
<1>3. PICK x \in Seq(Token) : x = inner.seen
  BY <1>2, BufferFields DEF FTypeOK
<1>4. PICK flag \in BOOLEAN : flag <=> x = <<>>
  OBVIOUS
<1>5. PICK b : b = [seen |-> x, held |-> <<>>, trimmed |-> flag]
  OBVIOUS
<1>6. /\ inner' = b /\ src' = 0 /\ pos' = 0 /\ UNCHANGED <<text, phase, at, outer, base, tried>>
  <2>1. inner' = [seen |-> x, held |-> <<>>, trimmed |-> (x = <<>>)]
    BY <1>1, <1>3, Zenon DEF TakeBackup, Replacing
  <2>2. (x = <<>>) = flag
    BY <1>4
  <2>3. inner' = b
    BY <1>5, <2>1, <2>2
  <2> QED BY <1>1, <2>3 DEF TakeBackup
<1>7. b.seen = x /\ b.held = <<>> /\ b.trimmed = flag
  BY <1>5
<1>8. <<>> \in Seq(Token) /\ Len(<<>>) = 0 /\ Len(x) \in Nat /\ (x # <<>> => 0 < Len(x))
  OBVIOUS
<1>9. b \in Buffers
  BY <1>5, <1>8, IsBuffer
<1>10. Had(0)' = <<>>
  <2>1. PICK t \in Seq(Token) : t = text[0]
    BY <1>2, HadType
  <2>2. SubSeq(t, 1, 0) = <<>>
    BY SubSeqEmpty
  <2> QED BY <1>6, <2>1, <2>2 DEF Had
<1>11. InnerKept'
  BY <1>4, <1>6, <1>7, <1>8, <1>10 DEF InnerKept, BackupKept
<1>12. Given = x
  <2>1. inner.seen = Had(src)
    BY <1>2 DEF InnerKept
  <2> QED BY <1>2, <1>3, <2>1 DEF Given
<1>13. Given' = x
  <2>1. Splice(<<>>, <<>>) = <<>>
    BY <1>8, SpliceEmpty
  <2>2. Given' = IF flag THEN Splice(x, <<>>) ELSE x
    BY <1>6, <1>7, <1>10 DEF Given, BackupGiven
  <2> QED BY <1>4, <2>1, <2>2
<1>14. FTypeOK'
  <2>1. 0 \in 0 .. Len(text'[0])
    BY <1>2, <1>6, HadType
  <2> QED BY <1>2, <1>6, <1>9, <2>1 DEF FTypeOK
<1>15. OuterKept'
  BY <1>1, <1>6, <1>12, <1>13 DEF StreamInv, OuterKept, Reading, Kept
<1>16. ProbingKept'
  BY <1>1, <1>3, <1>4, <1>6, <1>7 DEF StreamInv, ProbingKept
<1>17. AgreementKept' /\ NothingDropped' /\ OrderKept'
  BY <1>1, <1>3, <1>6, <1>7
     DEF StreamInv, Reading, AgreementKept, Agreeing, NothingDropped, OrderKept
<1> QED BY <1>11, <1>14, <1>15, <1>16, <1>17 DEF StreamInv

\* The order in which the providers are given up.
LEMMA GivenUp ==
  ASSUME StreamInv, Reading, tried' = tried \cup {at},
         IF at < Chain THEN at' = at + 1 /\ phase' = phase ELSE at' = at /\ phase' = "failed"
  PROVE  OrderKept' /\ at' \in Ranks /\ tried' \in SUBSET Ranks
<1>1. at \in Ranks /\ tried = 1 .. at - 1 /\ at \in Nat /\ Chain \in Nat
  BY StreamAssumption DEF StreamInv, FTypeOK, OrderKept, Reading, Ranks
<1>2. tried' = 1 .. at
  BY <1>1 DEF Ranks
<1>3. CASE at < Chain
  <2>1. at' = at + 1 /\ (at + 1) - 1 = at /\ phase' # "failed"
    BY <1>1, <1>3 DEF Reading
  <2> QED BY <1>1, <1>2, <1>3, <2>1 DEF OrderKept, Ranks
<1>4. CASE ~(at < Chain)
  <2>1. at = Chain /\ at' = at /\ phase' = "failed"
    BY <1>1, <1>4 DEF Ranks
  <2> QED BY <1>1, <1>2, <2>1 DEF OrderKept, Ranks
<1> QED BY <1>3, <1>4

\* dispatch() goes on, or gives up: the reader has nothing yet.
LEMMA ProbeStep == StreamInv /\ phase = "probing" /\ NextProbe => StreamInv'
<1>1. SUFFICES ASSUME StreamInv, phase = "probing", NextProbe PROVE StreamInv'
  OBVIOUS
<1>2. FTypeOK /\ Reading /\ Chain \in Nat /\ at \in Ranks
  BY <1>1, StreamAssumption DEF StreamInv, Reading, FTypeOK
<1>3. Given = <<>> /\ base = <<>> /\ outer.trimmed /\ outer.seen = <<>> /\ inner.seen = <<>>
  BY <1>1, ProbingGives
<1>4. UNCHANGED <<text, outer, base>> /\ tried' = tried \cup {at}
  BY <1>1 DEF NextProbe
<1>5. OrderKept' /\ at' \in Ranks /\ tried' \in SUBSET Ranks
  <2>1. IF at < Chain THEN at' = at + 1 /\ phase' = phase ELSE at' = at /\ phase' = "failed"
    BY <1>1 DEF NextProbe, Generator
  <2> QED BY <1>1, <1>2, <1>4, <2>1, GivenUp
<1>6. IsPrefixOf(<<>>, text[0])
  BY <1>2, NothingAgrees
<1>7. CASE at < Chain
  <2>1. at + 1 \in Ranks /\ Generator(at + 1) /\ phase' = phase
    BY <1>1, <1>2, <1>7 DEF NextProbe, Ranks
  <2>2. PICK p \in Ranks : p = at + 1
    BY <2>1
  <2>3. /\ InnerKept' /\ Given' = <<>> /\ inner' \in Buffers /\ pos' = 0 /\ src' = p /\ at' = p
        /\ inner'.seen = <<>> /\ inner'.trimmed /\ pos' \in 0 .. Len(text'[src'])
    BY <1>2, <1>4, <2>1, <2>2, NewGenerator
  <2>4. FTypeOK'
    BY <1>2, <1>4, <1>5, <2>1, <2>3 DEF FTypeOK
  <2>5. OuterKept'
    <3>1. Kept(outer, base, Given)
      BY <1>1, <1>2 DEF StreamInv, OuterKept
    <3> QED BY <1>3, <1>4, <2>3, <3>1 DEF OuterKept, Kept
  <2>6. ProbingKept' /\ AgreementKept' /\ NothingDropped'
    BY <1>1, <1>3, <1>4, <1>6, <2>1, <2>3 DEF ProbingKept, AgreementKept, NothingDropped
  <2> QED BY <1>5, <2>3, <2>4, <2>5, <2>6 DEF StreamInv
<1>8. CASE ~(at < Chain)
  <2>1. phase' = "failed" /\ UNCHANGED <<at, src, pos, inner>>
    BY <1>1, <1>8 DEF NextProbe
  <2>2. FTypeOK'
    BY <1>2, <1>4, <1>5, <2>1 DEF FTypeOK
  <2>3. InnerKept'
    BY <1>1, <1>4, <2>1 DEF StreamInv, InnerKept, BackupKept, Had
  <2>4. OuterKept' /\ ProbingKept' /\ AgreementKept' /\ NothingDropped'
    BY <1>3, <1>4, <1>6, <2>1 DEF OuterKept, Reading, ProbingKept, AgreementKept, NothingDropped
  <2> QED BY <1>5, <2>2, <2>3, <2>4 DEF StreamInv
<1> QED BY <1>7, <1>8

\* A stream breaks: what was sent is what the next generator is compared with.
LEMMA BreakStep == StreamInv /\ phase = "streaming" /\ NextStream => StreamInv'
<1>1. SUFFICES ASSUME StreamInv, phase = "streaming", NextStream PROVE StreamInv'
  OBVIOUS
<1>2. FTypeOK /\ Reading /\ Chain \in Nat /\ at \in Ranks
  BY <1>1, StreamAssumption DEF StreamInv, Reading, FTypeOK
<1>3. text' = text /\ tried' = tried \cup {at}
  BY <1>1 DEF NextStream
<1>4. OrderKept' /\ at' \in Ranks /\ tried' \in SUBSET Ranks
  <2>1. IF at < Chain THEN at' = at + 1 /\ phase' = phase ELSE at' = at /\ phase' = "failed"
    BY <1>1 DEF NextStream, Generator
  <2> QED BY <1>1, <1>2, <1>3, <2>1, GivenUp
<1>5. IsPrefixOf(<<>>, text[0])
  BY <1>2, NothingAgrees
<1>6. CASE at < Chain
  <2>1. at + 1 \in Ranks /\ Generator(at + 1) /\ phase' = phase /\ base' = outer.seen
    BY <1>1, <1>2, <1>6 DEF NextStream, Ranks
  <2>2. PICK p \in Ranks : p = at + 1
    BY <2>1
  <2>3. /\ InnerKept' /\ Given' = <<>> /\ inner' \in Buffers /\ pos' = 0 /\ src' = p /\ at' = p
        /\ inner'.seen = <<>> /\ inner'.trimmed /\ pos' \in 0 .. Len(text'[src'])
    BY <1>2, <1>3, <2>1, <2>2, NewGenerator
  <2>4. PICK x \in Seq(Token) : x = outer.seen
    BY <1>2, BufferFields DEF FTypeOK
  <2>5. outer' = [seen |-> x, held |-> <<>>, trimmed |-> FALSE]
    BY <1>1, <1>6, <2>4 DEF NextStream, Replacing
  <2>6. <<>> \in Seq(Token) /\ Len(<<>>) <= Len(x)
    OBVIOUS
  <2>7. outer' \in Buffers /\ outer'.seen = x /\ base' = x
    BY <2>1, <2>4, <2>5, <2>6, IsBuffer
  <2>8. FTypeOK'
    BY <1>1, <1>2, <1>3, <1>4, <2>1, <2>3, <2>7 DEF FTypeOK
  <2>9. OuterKept'
    <3>1. Kept(outer', x, <<>>)
      BY <2>5, <2>6 DEF Kept
    <3> QED BY <2>3, <2>7, <3>1 DEF OuterKept, Kept
  <2>10. AgreementKept'
    <3>1. Agreeing' => IsPrefixOf(x, text[0])
      BY <1>1, <1>3, <2>4 DEF StreamInv, AgreementKept, Agreeing
    <3> QED BY <1>1, <1>3, <1>5, <2>1, <2>3, <2>7, <3>1 DEF AgreementKept
  <2>11. ProbingKept' /\ NothingDropped'
    BY <1>1, <2>1 DEF ProbingKept, NothingDropped
  <2> QED BY <1>4, <2>3, <2>8, <2>9, <2>10, <2>11 DEF StreamInv
<1>7. CASE ~(at < Chain)
  <2>1. phase' = "failed" /\ UNCHANGED <<at, src, pos, inner, outer, base>>
    BY <1>1, <1>7 DEF NextStream
  <2>2. FTypeOK'
    BY <1>2, <1>3, <1>4, <2>1 DEF FTypeOK
  <2>3. InnerKept'
    BY <1>1, <1>3, <2>1 DEF StreamInv, InnerKept, BackupKept, Had
  <2>4. OuterKept' /\ ProbingKept' /\ AgreementKept' /\ NothingDropped'
    BY <1>1, <1>3, <2>1 DEF StreamInv, OuterKept, Reading, ProbingKept, AgreementKept, Agreeing, NothingDropped
  <2> QED BY <1>4, <2>2, <2>3, <2>4 DEF StreamInv
<1> QED BY <1>6, <1>7
\* What the executor still holds back when its source has ended completes the
\* generator's text.
LEMMA GeneratorIs ==
  ASSUME FTypeOK, InnerKept, pos = Len(text[src])
  PROVE  Flush(inner) \in Seq(Token) /\ Given \o Flush(inner) = GeneratorText
<1>1. PICK t \in Seq(Token) : t = text[src]
  BY HadType
<1>2. PICK b \in Buffers : b = inner
  BY DEF FTypeOK
<1>3. SubSeq(t, 1, Len(t)) = t
  BY SubSeqFull
<1>4. Had(src) = t
  BY <1>1, <1>3 DEF Had
<1>5. b.seen \in Seq(Token) /\ b.held \in Seq(Token)
  BY BufferFields
<1>6. CASE src # 0
  <2>1. inner = [seen |-> t, held |-> <<>>, trimmed |-> TRUE]
    BY <1>4, <1>6 DEF InnerKept
  <2>2. inner.trimmed
    BY <2>1
  <2>3. Flush(inner) = <<>> /\ Given = t /\ GeneratorText = t
    BY <1>1, <1>4, <1>6, <2>2 DEF Flush, Given, GeneratorText
  <2>4. t \o <<>> = t /\ <<>> \in Seq(Token)
    BY ConcatEmptySeq
  <2> QED BY <2>3, <2>4
<1>7. CASE src = 0
  <2>1. GeneratorText = Splice(b.seen, t) /\ Given = BackupGiven(b, t) /\ BackupKept(b, t)
    BY <1>1, <1>2, <1>4, <1>7 DEF GeneratorText, Given, InnerKept
  <2>2. Unsent(b.seen, t) \in Seq(Token) /\ Splice(b.seen, t) \in Seq(Token)
    BY <1>5, SpliceType
  <2>3. CASE b.trimmed
    <3>1. Flush(b) = <<>> /\ Given = Splice(b.seen, t)
      BY <2>1, <2>3 DEF Flush, BackupGiven
    <3>2. Splice(b.seen, t) \o <<>> = Splice(b.seen, t) /\ <<>> \in Seq(Token)
      BY <2>2, ConcatEmptySeq
    <3> QED BY <1>2, <2>1, <3>1, <3>2
  <2>4. CASE ~b.trimmed
    <3>1. Flush(b) = Unsent(b.seen, t) /\ Given = b.seen
      BY <2>1, <2>4 DEF Flush, BackupKept, BackupGiven
    <3> QED BY <1>2, <2>1, <2>2, <3>1 DEF Splice
  <2> QED BY <2>3, <2>4
<1> QED BY <1>6, <1>7

\* While all providers give the same answer it is that answer.
LEMMA GeneratorAgrees ==
  ASSUME FTypeOK, Agreeing, IsPrefixOf(inner.seen, text[0])
  PROVE  GeneratorText = text[0]
<1>1. PICK t \in Seq(Token) : t = text[0] /\ t = text[src]
  BY HadType DEF Agreeing, FTypeOK, Sources
<1>2. PICK x \in Seq(Token) : x = inner.seen
  BY BufferFields DEF FTypeOK
<1>3. IsPrefixOf(x, t) /\ IsPrefixOf(t, t) /\ Len(x) <= Len(t)
  BY <1>1, <1>2 DEF IsPrefixOf
<1>4. Splice(x, t) = t
  BY <1>3, SplicePrefixes
<1> QED BY <1>1, <1>2, <1>4 DEF GeneratorText

\* The stream ends: both buffers are emptied.
LEMMA EndsStep == StreamInv /\ Ends => StreamInv'
<1>1. SUFFICES ASSUME StreamInv, Ends PROVE StreamInv'
  OBVIOUS
<1>2. /\ FTypeOK /\ InnerKept /\ pos = Len(text[src]) /\ Reading /\ phase' = "ended"
      /\ UNCHANGED <<text, at, src, pos, inner, base, tried>>
  BY <1>1 DEF StreamInv, Ends, Reading
<1>3. PICK from \in Seq(Token), given \in Seq(Token), piece \in Seq(Token) :
        from = base /\ given = Given /\ piece = Flush(inner)
  BY <1>2, GivenType, GeneratorIs DEF FTypeOK
<1>4. given \o piece = GeneratorText /\ given \o piece \in Seq(Token)
  BY <1>2, <1>3, GeneratorIs, Joined
<1>5. PICK last : last = OuterFeed(piece)
  OBVIOUS
<1>6. last \in Buffers /\ Kept(last, from, given \o piece)
  <2>1. outer \in Buffers /\ Kept(outer, from, given)
    BY <1>1, <1>2, <1>3 DEF StreamInv, FTypeOK, OuterKept
  <2> QED BY <1>5, <2>1, OuterFeedKeeps
<1>7. PICK all \in Seq(Token) : all = Splice(from, given \o piece)
  BY <1>4, SpliceType
<1>8. last.seen \o Flush(last) = all
  BY <1>4, <1>6, <1>7, FlushKeeps
<1>9. outer' \in Buffers /\ outer'.seen = all
  <2>1. PICK flag : flag = TRUE
    OBVIOUS
  <2>2. outer' = [last EXCEPT !.seen = all, !.trimmed = flag]
    BY <1>1, <1>3, <1>5, <1>8, <2>1, Zenon DEF Ends
  <2>3. PICK h \in Seq(Token), x \in Seq(Token), f \in BOOLEAN :
          last = [seen |-> x, held |-> h, trimmed |-> f]
    BY <1>6, BufferFields
  <2>4. outer' = [seen |-> all, held |-> h, trimmed |-> flag]
    BY <2>2, <2>3, EmptiedIs
  <2>5. flag \in BOOLEAN
    BY <2>1
  <2> QED BY <2>4, <2>5, IsBuffer
<1>10. FTypeOK'
  BY <1>2, <1>9 DEF FTypeOK
<1>11. InnerKept'
  BY <1>2 DEF InnerKept, BackupKept, Had
<1>12. OuterKept' /\ ProbingKept'
  BY <1>2 DEF OuterKept, Reading, ProbingKept
<1>13. NothingDropped'
  BY <1>2, <1>3, <1>4, <1>7, <1>9 DEF NothingDropped, GeneratorText
<1>14. AgreementKept'
  <2>1. SUFFICES ASSUME Agreeing'
                 PROVE  /\ IsPrefixOf(outer'.seen, text'[0]) /\ IsPrefixOf(base', text'[0])
                        /\ IsPrefixOf(inner'.seen, text'[0]) /\ outer'.seen = text'[0]
    BY DEF AgreementKept
  <2>2. Agreeing /\ IsPrefixOf(base, text[0]) /\ IsPrefixOf(inner.seen, text[0])
    BY <1>1, <1>2, <2>1 DEF StreamInv, AgreementKept, Agreeing
  <2>3. PICK t \in Seq(Token) : t = text[0]
    BY <1>2, HadType
  <2>4. given \o piece = t
    BY <1>2, <1>4, <2>2, <2>3, GeneratorAgrees
  <2>5. IsPrefixOf(from, t) /\ IsPrefixOf(t, t) /\ Len(from) <= Len(t)
    BY <1>3, <2>2, <2>3 DEF IsPrefixOf
  <2>6. all = t
    BY <1>7, <2>4, <2>5, SplicePrefixes
  <2> QED BY <1>2, <1>9, <2>2, <2>3, <2>5, <2>6
<1>15. OrderKept'
  BY <1>1, <1>2 DEF StreamInv, OrderKept, Reading
<1> QED BY <1>10, <1>11, <1>12, <1>13, <1>14, <1>15 DEF StreamInv

LEMMA StreamNext == StreamInv /\ [FNext]_fvars => StreamInv'
<1>1. SUFFICES ASSUME StreamInv, [FNext]_fvars PROVE StreamInv'
  OBVIOUS
<1>2. CASE \E n \in 1 .. Len(text[src]) : Chunk(n)
  BY <1>1, <1>2, ChunkStep
<1>3. CASE Ends
  BY <1>1, <1>3, EndsStep
<1>4. CASE EmptyResponse \/ TtftTimeout
  BY <1>1, <1>4, ProbeStep DEF EmptyResponse, TtftTimeout
<1>5. CASE Breaks
  <2>1. CASE Reading /\ src = at /\ TakeBackup
    BY <1>1, <2>1, BackupStep
  <2>2. CASE phase = "probing" /\ NextProbe
    BY <1>1, <2>2, ProbeStep
  <2>3. CASE phase = "streaming" /\ NextStream
    BY <1>1, <2>3, BreakStep
  <2> QED BY <1>5, <2>1, <2>2, <2>3 DEF Breaks, Reading
<1>6. CASE UNCHANGED fvars
  <2>1. UNCHANGED <<text, phase, at, src, pos, inner, outer, base, tried>>
    BY <1>6 DEF fvars
  <2>2. FTypeOK' /\ InnerKept' /\ OrderKept'
    BY <1>1, <2>1 DEF StreamInv, FTypeOK, InnerKept, BackupKept, Had, OrderKept
  <2>3. Given' = Given
    BY <2>1 DEF Given, BackupGiven, Had
  <2>4. OuterKept' /\ ProbingKept' /\ AgreementKept' /\ NothingDropped'
    BY <1>1, <2>1, <2>3
       DEF StreamInv, OuterKept, Reading, Kept, ProbingKept, AgreementKept, Agreeing, NothingDropped,
           GeneratorText
  <2> QED BY <2>2, <2>4 DEF StreamInv
<1> QED BY <1>1, <1>2, <1>3, <1>4, <1>5, <1>6 DEF FNext, Read

LEMMA StreamInvHolds == FSpec => []StreamInv
BY StreamInit, StreamNext, PTL DEF FSpec

-----------------------------------------------------------------------------
\* The caller sees one answer, over any number of breaks, wherever they fall
\* and however the chunks are cut: while the providers agree it is a beginning
\* of their text, and the whole of it at the end ("seamless mid-stream fallback
\* without duplicate tokens", fallback_dispatcher.ts:77); and whatever they say,
\* the end leaves nothing of the last generator's text in a buffer
\* (fallback_dispatcher.ts:112-123, live_stream_executor.ts:142-162, 185-191).
THEOREM OneAnswerSafe == FSpec => []OneAnswer
<1>1. StreamInv => OneAnswer
  <2>1. SUFFICES ASSUME StreamInv PROVE OneAnswer
    OBVIOUS
  <2>2. FTypeOK /\ AgreementKept /\ NothingDropped /\ 0 \in Sources
    BY <2>1 DEF StreamInv, Sources
  <2>3. Seamless
    <3>1. SUFFICES ASSUME NEW t \in {text[s] : s \in Sources}, \A s \in Sources : text[s] = t
                   PROVE  IsPrefixOf(outer.seen, t) /\ (phase = "ended" => outer.seen = t)
      BY DEF Seamless
    <3>2. Agreeing /\ t = text[0]
      BY <2>2, <3>1 DEF Agreeing
    <3> QED BY <2>2, <3>2 DEF AgreementKept
  <2> QED BY <2>2, <2>3 DEF OneAnswer
<1> QED BY <1>1, StreamInvHolds, PTL

\* The caller is told that the stream failed only when every provider of the
\* ranking was tried, in the probing loop and after mid-stream breaks alike
\* (fallback_dispatcher.ts:47, 97-107).
THEOREM LastResortSafe == FSpec => []LastResort
<1>1. StreamInv => LastResort
  BY DEF StreamInv, OrderKept, LastResort
<1> QED BY <1>1, StreamInvHolds, PTL
=============================================================================
