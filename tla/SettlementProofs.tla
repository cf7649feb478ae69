--------------------------- MODULE SettlementProofs ---------------------------
(***************************************************************************)
(* The settlement system, for every number of workers, callers, payments   *)
(* and record ids, in three parts.                                         *)
(*                                                                         *)
(* The queue (SettlementQueue): facts about its actions, stated per action *)
(* so that the two modules that compose the queue with something else can  *)
(* use them.                                                               *)
(*                                                                         *)
(* The shutdown (ServerShutdown): the pending counts stay right up to the  *)
(* request in flight, the queue stays within its limit, no waiting call is *)
(* lost before the queue is cleared, and drain() lets the shutdown go on   *)
(* only when the calls it waited for have their answers.                   *)
(*                                                                         *)
(* The settler (Settlement): GInv holds whatever the backend and the       *)
(* routing: types, who owns which record id, and that records only claim   *)
(* what the network took.  PInv and BooksInv add what routing every        *)
(* request of a payment to one worker buys: the former with SQLite, where  *)
(* the system implements the payment ledger, the latter, that a payment    *)
(* has one record, with either backend.                                    *)
(***************************************************************************)
EXTENDS ServerShutdown, Settlement, SumProofs, SequenceTheorems

-----------------------------------------------------------------------------
(*                               THE QUEUE                                 *)
-----------------------------------------------------------------------------
\* A request is held by a worker that may have it: that of the relayer it
\* names, or one of its shard.
Routed(r, w) == w \in Pool[r] /\ (Named[r] # NoWorker => w = Named[r])
QRouted ==
  \A w \in Workers : /\ Busy(w) => Routed(current[w], w)
                     /\ \A i \in 1..Len(queue[w]) : Routed(queue[w][i], w)

\* A request is held in at most one place.
QPlaced ==
  /\ \A v, w \in Workers : v # w /\ Busy(v) => current[v] # current[w]
  /\ \A v, w \in Workers : \A i \in 1..Len(queue[w]) : current[v] # queue[w][i]
  /\ \A v, w \in Workers : \A i \in 1..Len(queue[v]), j \in 1..Len(queue[w]) :
       queue[v][i] = queue[w][j] => v = w /\ i = j

\* Whoever is held waits for an answer.
QWaiting ==
  \A w \in Workers : /\ Busy(w) => call[current[w]] = "waiting"
                     /\ \A i \in 1..Len(queue[w]) : call[queue[w][i]] = "waiting"

\* An idle worker has nothing to do.
QIdle ==
  \A w \in Workers : ~Busy(w) => queue[w] = <<>> /\ ~asleep[w]

\* An attempt counter in use has counted, and never beyond the limit; a worker
\* that sleeps has an attempt left.
QAttempts ==
  \A w \in Workers : /\ Busy(w) => attempt[w] >= 1
                     /\ asleep[w] => attempt[w] <= MaxRetries

QInv == TypeOK /\ QRouted /\ QPlaced /\ QWaiting /\ QIdle /\ QAttempts

-----------------------------------------------------------------------------
\* The queue is born in QInv.
LEMMA InitQInv == Init => QInv
  <1> SUFFICES ASSUME Init PROVE QInv
    OBVIOUS
  <1> USE QueueAssumption DEF Init, Busy
  <1>1. TypeOK
    BY DEF TypeOK, CallStates
  <1>2. QRouted /\ QPlaced /\ QWaiting /\ QIdle /\ QAttempts
    BY DEF QRouted, QPlaced, QWaiting, QIdle, QAttempts
  <1>3. QED
    BY <1>1, <1>2 DEF QInv

\* Steps that leave the queue alone.
LEMMA StutterQInv == QInv /\ UNCHANGED qvars => QInv'
  <1> SUFFICES ASSUME QInv, UNCHANGED qvars PROVE QInv'
    OBVIOUS
  <1> USE DEF qvars, Busy
  <1>1. TypeOK' BY DEF QInv, TypeOK
  <1>2. QRouted' /\ QPlaced' BY DEF QInv, QRouted, QPlaced, Routed
  <1>3. QWaiting' /\ QIdle' /\ QAttempts' BY DEF QInv, QWaiting, QIdle, QAttempts
  <1>4. QED BY <1>1, <1>2, <1>3 DEF QInv

\* A call that is turned away changes what its caller sees and nothing else.
LEMMA SaturatedQInv ==
  ASSUME QInv, NEW r \in Requests, Saturated(r)
  PROVE  QInv'
  <1> USE DEF Saturated, Busy
  <1>1. TypeOK' BY DEF QInv, TypeOK, CallStates
  <1>2. QRouted' /\ QPlaced' BY DEF QInv, QRouted, QPlaced, Routed
  <1>3. QWaiting' BY QueueAssumption DEF QInv, TypeOK, QWaiting
  <1>4. QIdle' /\ QAttempts' BY DEF QInv, QIdle, QAttempts
  <1>5. QED BY <1>1, <1>2, <1>3, <1>4 DEF QInv

\* The worker a request is routed to may have it.
LEMMA RouteRouted ==
  ASSUME NEW r \in Requests, NEW w \in Route(r)
  PROVE  w \in Workers /\ Routed(r, w)
  BY QueueAssumption DEF Route, LeastLoaded, Routed

\* Enqueueing puts a request that nobody holds at the end of a queue, or in
\* the hands of an idle worker.
LEMMA EnqueueQInv ==
  ASSUME QInv, NEW r \in Requests, NEW w \in Workers, Enqueue(r, w)
  PROVE  QInv'
  <1> USE QueueAssumption
  <1>0. Routed(r, w)
    BY RouteRouted DEF Enqueue
  <1>a. TypeOK
    BY DEF QInv
  <1>b. call' = [call EXCEPT ![r] = "waiting"] /\ call[r] # "waiting"
    BY DEF Enqueue
  <1>c. \A v \in Workers : Len(queue[v]) \in Nat
    BY <1>a DEF TypeOK
  <1>f. /\ \A v \in Workers : Busy(v) => current[v] # r
        /\ \A v \in Workers : \A i \in 1..Len(queue[v]) : queue[v][i] # r
    BY <1>b DEF QInv, QWaiting
  <1>1. CASE Busy(w)
    <2>1. /\ queue' = [queue EXCEPT ![w] = Append(queue[w], r)]
          /\ UNCHANGED <<current, attempt, asleep, drainers>>
      BY <1>1 DEF Enqueue
    <2>2. /\ Len(queue'[w]) = Len(queue[w]) + 1
          /\ queue'[w][Len(queue[w]) + 1] = r
          /\ \A i \in 1..Len(queue[w]) : queue'[w][i] = queue[w][i]
          /\ \A v \in Workers : v # w => queue'[v] = queue[v]
      BY <2>1, <1>a DEF TypeOK
    <2>3. \A v \in Workers : \A i \in 1..Len(queue'[v]) :
             \/ i \in 1..Len(queue[v]) /\ queue'[v][i] = queue[v][i]
             \/ v = w /\ i = Len(queue[w]) + 1 /\ queue'[v][i] = r
      <3> SUFFICES ASSUME NEW v \in Workers, NEW i \in 1..Len(queue'[v])
                   PROVE  \/ i \in 1..Len(queue[v]) /\ queue'[v][i] = queue[v][i]
                          \/ v = w /\ i = Len(queue[w]) + 1 /\ queue'[v][i] = r
        OBVIOUS
      <3>1. CASE v # w
        BY <3>1, <2>2
      <3>2. CASE v = w
        <4>1. i \in 1..(Len(queue[w]) + 1)
          BY <3>2, <2>2
        <4>2. i \in 1..Len(queue[w]) \/ i = Len(queue[w]) + 1
          BY <4>1, <1>c
        <4>3. QED BY <4>2, <3>2, <2>2
      <3>3. QED BY <3>1, <3>2
    <2>4. TypeOK'
      <3>1. queue' \in [Workers -> Seq(Requests)]
        BY <2>1, <1>a DEF TypeOK
      <3>2. pending' \in [Workers -> Nat]
        BY <1>a DEF TypeOK, Enqueue
      <3>3. call' \in [Requests -> CallStates]
        BY <1>a, <1>b DEF TypeOK, CallStates
      <3>4. QED BY <2>1, <1>a, <3>1, <3>2, <3>3 DEF TypeOK
    <2>5. QRouted'
      BY <2>1, <2>3, <1>0 DEF QInv, QRouted, Busy, Routed
    <2>6. QPlaced'
      <3>1. \A v, u \in Workers : v # u /\ Busy(v)' => current'[v] # current'[u]
        BY <2>1 DEF QInv, QPlaced, Busy
      <3>2. \A v, u \in Workers : \A i \in 1..Len(queue'[u]) : current'[v] # queue'[u][i]
        <4> TAKE v, u \in Workers
        <4> TAKE i \in 1..Len(queue'[u])
        <4>1. CASE i \in 1..Len(queue[u]) /\ queue'[u][i] = queue[u][i]
          BY <4>1, <2>1 DEF QInv, QPlaced
        <4>2. CASE queue'[u][i] = r
          BY <4>2, <2>1, <1>f, QueueAssumption DEF Busy
        <4>3. QED BY <4>1, <4>2, <2>3
      <3>3. \A v, u \in Workers : \A i \in 1..Len(queue'[v]), j \in 1..Len(queue'[u]) :
              queue'[v][i] = queue'[u][j] => v = u /\ i = j
        <4> TAKE v, u \in Workers
        <4> TAKE i \in 1..Len(queue'[v]), j \in 1..Len(queue'[u])
        <4>1. CASE /\ i \in 1..Len(queue[v]) /\ queue'[v][i] = queue[v][i]
                   /\ j \in 1..Len(queue[u]) /\ queue'[u][j] = queue[u][j]
          <5>1. queue[v][i] = queue[u][j] => v = u /\ i = j
            BY <4>1 DEF QInv, QPlaced
          <5>2. QED BY <4>1, <5>1
        <4>2. CASE /\ v = w /\ i = Len(queue[w]) + 1 /\ queue'[v][i] = r
                   /\ u = w /\ j = Len(queue[w]) + 1
          BY <4>2
        <4>3. CASE /\ i \in 1..Len(queue[v]) /\ queue'[v][i] = queue[v][i]
                   /\ queue'[u][j] = r
          BY <4>3, <1>f
        <4>4. CASE /\ queue'[v][i] = r
                   /\ j \in 1..Len(queue[u]) /\ queue'[u][j] = queue[u][j]
          BY <4>4, <1>f
        <4>5. QED BY <4>1, <4>2, <4>3, <4>4, <2>3
      <3>4. QED BY <3>1, <3>2, <3>3 DEF QPlaced
    <2>7. QIdle' /\ QAttempts'
      BY <2>1, <1>1, <1>a DEF QInv, QIdle, QAttempts, Busy, TypeOK
    <2>9. QWaiting'
      BY <2>1, <2>3, <1>a, <1>b DEF QInv, QWaiting, Busy, TypeOK
    <2>8. QED BY <2>4, <2>5, <2>6, <2>7, <2>9 DEF QInv
  <1>2. CASE ~Busy(w)
    <2>1. /\ current' = [current EXCEPT ![w] = r]
          /\ attempt' = [attempt EXCEPT ![w] = 1]
          /\ UNCHANGED <<queue, asleep, drainers>>
      BY <1>2 DEF Enqueue
    <2>2. queue[w] = <<>> /\ ~asleep[w]
      BY <1>2 DEF QInv, QIdle
    <2>3. TypeOK'
      BY <2>1, <1>a DEF TypeOK, CallStates, Enqueue
    <2>4. QRouted'
      BY <2>1, <1>0, <1>a DEF QInv, QRouted, Busy, TypeOK, Routed
    <2>5. QPlaced'
      <3>1. \A v, u \in Workers : v # u /\ Busy(v)' => current'[v] # current'[u]
        BY <2>1, <1>f, <1>a DEF QInv, QPlaced, Busy, TypeOK
      <3>2. \A v, u \in Workers : \A i \in 1..Len(queue'[u]) : current'[v] # queue'[u][i]
        BY <2>1, <1>f, <1>a DEF QInv, QPlaced, Busy, TypeOK
      <3>3. \A v, u \in Workers : \A i \in 1..Len(queue'[v]), j \in 1..Len(queue'[u]) :
              queue'[v][i] = queue'[u][j] => v = u /\ i = j
        BY <2>1 DEF QInv, QPlaced
      <3>4. QED BY <3>1, <3>2, <3>3 DEF QPlaced
    <2>7. QIdle' /\ QAttempts'
      BY <2>1, <2>2, <1>a DEF QInv, QIdle, QAttempts, Busy, TypeOK
    <2>9. QWaiting'
      <3>1. /\ call'[r] = "waiting"
            /\ \A q \in Requests : call[q] = "waiting" => call'[q] = "waiting"
        BY <1>a, <1>b DEF TypeOK
      <3>2. /\ current'[w] = r
            /\ \A v \in Workers : v # w => current'[v] = current[v]
        BY <2>1, <1>a DEF TypeOK
      <3>3. \A v \in Workers : current'[v] # NoRequest => call'[current'[v]] = "waiting"
        BY <3>1, <3>2, <1>a DEF QInv, QWaiting, Busy, TypeOK
      <3>4. \A v \in Workers : \A i \in 1..Len(queue'[v]) : call'[queue'[v][i]] = "waiting"
        <4> SUFFICES ASSUME NEW v \in Workers, NEW i \in 1..Len(queue[v])
                     PROVE  call'[queue[v][i]] = "waiting"
          BY <2>1
        <4>1. queue[v][i] \in Requests /\ call[queue[v][i]] = "waiting"
          BY <1>a DEF QInv, QWaiting, TypeOK
        <4> QED BY <4>1, <3>1
      <3> QED BY <3>3, <3>4 DEF QWaiting, Busy
    <2>8. QED BY <2>3, <2>4, <2>5, <2>7, <2>9 DEF QInv
  <1>3. QED BY <1>1, <1>2

\* Finishing hands the worker the head of its queue; the request it leaves is
\* held nowhere else, so no waiting call loses its place.
LEMMA FinishQInv ==
  ASSUME QInv, NEW w \in Workers, Busy(w), NEW a \in {"ok", "failed"}, Finish(w, a)
  PROVE  QInv'
  <1> DEFINE r == current[w]
  <1>a. TypeOK
    BY DEF QInv
  <1>b. r \in Requests
    BY <1>a DEF TypeOK, Busy
  <1>c. \A v \in Workers : Len(queue[v]) \in Nat
    BY <1>a DEF TypeOK
  <1>d. /\ call' = [call EXCEPT ![r] = a]
        /\ pending' = [pending EXCEPT ![w] = IF @ = 0 THEN 0 ELSE @ - 1]
        /\ asleep' = [asleep EXCEPT ![w] = FALSE]
    BY DEF Finish
  <1>f. /\ \A v \in Workers : v # w => current[v] # r
        /\ \A v \in Workers : \A i \in 1..Len(queue[v]) : queue[v][i] # r
    BY DEF QInv, QPlaced
  <1>1. CASE queue[w] # <<>>
    <2>1. /\ current' = [current EXCEPT ![w] = Head(queue[w])]
          /\ queue' = [queue EXCEPT ![w] = Tail(queue[w])]
          /\ attempt' = [attempt EXCEPT ![w] = 1]
          /\ UNCHANGED drainers
      BY <1>1 DEF Finish, ProcessNext
    <2>2. /\ Len(queue[w]) >= 1
          /\ queue[w][1] \in Requests
          /\ current'[w] = queue[w][1]
          /\ Len(queue'[w]) = Len(queue[w]) - 1
          /\ \A i \in 1..Len(queue'[w]) : queue'[w][i] = queue[w][i + 1]
          /\ \A v \in Workers : v # w => queue'[v] = queue[v] /\ current'[v] = current[v]
      BY <2>1, <1>1, <1>a DEF TypeOK
    <2>3. TypeOK'
      <3>1. /\ queue' \in [Workers -> Seq(Requests)]
            /\ current' \in [Workers -> Requests \cup {NoRequest}]
        BY <2>1, <1>1, <1>a DEF TypeOK
      <3>2. /\ attempt' \in [Workers -> 0..MaxRetries + 1]
            /\ asleep' \in [Workers -> BOOLEAN]
            /\ pending' \in [Workers -> Nat]
            /\ drainers' \in SUBSET Workers
        BY <2>1, <1>d, <1>a, QueueAssumption DEF TypeOK
      <3>3. call' \in [Requests -> CallStates]
        BY <1>d, <1>a DEF TypeOK, CallStates
      <3>4. QED BY <3>1, <3>2, <3>3 DEF TypeOK
    \* Every request still queued was queued before, one place further back.
    <2>4. \A v \in Workers : \A i \in 1..Len(queue'[v]) :
             LET k == IF v = w THEN i + 1 ELSE i
             IN  k \in 1..Len(queue[v]) /\ queue'[v][i] = queue[v][k]
      <3> SUFFICES ASSUME NEW v \in Workers, NEW i \in 1..Len(queue'[v])
                   PROVE  LET k == IF v = w THEN i + 1 ELSE i
                          IN  k \in 1..Len(queue[v]) /\ queue'[v][i] = queue[v][k]
        OBVIOUS
      <3>1. CASE v # w
        BY <3>1, <2>2
      <3>2. CASE v = w
        <4>1. i \in 1..(Len(queue[w]) - 1)
          BY <3>2, <2>2
        <4>2. i + 1 \in 1..Len(queue[w])
          BY <4>1, <1>c, <2>2
        <4>3. QED BY <4>2, <3>2, <2>2
      <3>3. QED BY <3>1, <3>2
    <2>5. QRouted'
      <3>1. Routed(queue[w][1], w)
        BY <2>2, <1>c DEF QInv, QRouted
      <3>2. \A v \in Workers : Busy(v)' => Routed(current[v]', v)
        BY <3>1, <2>2 DEF QInv, QRouted, Busy
      <3>3. \A v \in Workers : \A i \in 1..Len(queue'[v]) : Routed(queue'[v][i], v)
        BY <2>4 DEF QInv, QRouted
      <3>4. QED BY <3>2, <3>3 DEF QRouted, Routed
    <2>6. QPlaced'
      <3>1. \A v \in Workers : \A i \in 1..Len(queue[v]) :
              queue[w][1] = queue[v][i] => v = w /\ i = 1
        <4> TAKE v \in Workers
        <4> TAKE i \in 1..Len(queue[v])
        <4>1. 1 \in 1..Len(queue[w])
          BY <2>2, <1>c
        <4>2. queue[w][1] = queue[v][i] => w = v /\ 1 = i
          BY <4>1 DEF QInv, QPlaced
        <4>3. QED BY <4>2
      <3>2. \A v, u \in Workers : v # u /\ Busy(v)' => current'[v] # current'[u]
        <4> SUFFICES ASSUME NEW v \in Workers, NEW u \in Workers, v # u, Busy(v)'
                     PROVE  current'[v] # current'[u]
          OBVIOUS
        <4>0. 1 \in 1..Len(queue[w])
          BY <2>2, <1>c
        <4>1. \A x \in Workers : current[x] # queue[w][1]
          BY <4>0 DEF QInv, QPlaced
        <4>2. CASE v = w
          BY <4>2, <4>1, <2>2
        <4>3. CASE u = w
          BY <4>3, <4>1, <2>2
        <4>4. CASE v # w /\ u # w
          BY <4>4, <2>2 DEF QInv, QPlaced, Busy
        <4>5. QED BY <4>2, <4>3, <4>4
      <3>3. \A v, u \in Workers : \A i \in 1..Len(queue'[u]) : current'[v] # queue'[u][i]
        <4> SUFFICES ASSUME NEW v \in Workers, NEW u \in Workers, NEW i \in 1..Len(queue'[u])
                     PROVE  current'[v] # queue'[u][i]
          OBVIOUS
        <4>1. PICK k \in 1..Len(queue[u]) :
                queue'[u][i] = queue[u][k] /\ (u = w => k = i + 1)
          BY <2>4
        <4>2. CASE v # w
          BY <4>1, <4>2, <2>2 DEF QInv, QPlaced
        <4>3. CASE v = w
          <5>1. i \in Nat /\ i >= 1
            BY <2>3 DEF TypeOK
          <5>2. ~(u = w /\ k = 1)
            BY <4>1, <5>1
          <5>3. queue[w][1] = queue[u][k] => u = w /\ k = 1
            BY <3>1
          <5>4. QED BY <5>2, <5>3, <4>1, <4>3, <2>2
        <4>4. QED BY <4>2, <4>3
      <3>4. \A v, u \in Workers : \A i \in 1..Len(queue'[v]), j \in 1..Len(queue'[u]) :
              queue'[v][i] = queue'[u][j] => v = u /\ i = j
        <4> SUFFICES ASSUME NEW v \in Workers, NEW u \in Workers,
                            NEW i \in 1..Len(queue'[v]), NEW j \in 1..Len(queue'[u]),
                            queue'[v][i] = queue'[u][j]
                     PROVE  v = u /\ i = j
          OBVIOUS
        <4>1. PICK k \in 1..Len(queue[v]) :
                queue'[v][i] = queue[v][k] /\ k = IF v = w THEN i + 1 ELSE i
          BY <2>4
        <4>2. PICK l \in 1..Len(queue[u]) :
                queue'[u][j] = queue[u][l] /\ l = IF u = w THEN j + 1 ELSE j
          BY <2>4
        <4>3. queue[v][k] = queue[u][l] => v = u /\ k = l
          BY DEF QInv, QPlaced
        <4>4. v = u /\ k = l
          BY <4>1, <4>2, <4>3
        <4>5. i \in Int /\ j \in Int
          OBVIOUS
        <4>6. QED BY <4>1, <4>2, <4>4, <4>5
      <3>5. QED BY <3>2, <3>3, <3>4 DEF QPlaced
    <2>7. QWaiting'
      <3>0. \A q \in Requests : q # r => call'[q] = call[q]
        BY <1>d, <1>a DEF TypeOK
      <3>1. \A v \in Workers : \A i \in 1..Len(queue'[v]) : call'[queue'[v][i]] = "waiting"
        <4> SUFFICES ASSUME NEW v \in Workers, NEW i \in 1..Len(queue'[v])
                     PROVE  call'[queue'[v][i]] = "waiting"
          OBVIOUS
        <4>1. PICK k \in 1..Len(queue[v]) : queue'[v][i] = queue[v][k]
          BY <2>4
        <4>2. queue[v][k] # r /\ call[queue[v][k]] = "waiting"
          BY <1>f DEF QInv, QWaiting
        <4>3. queue[v][k] \in Requests
          BY <1>a DEF TypeOK
        <4>4. QED BY <4>1, <4>2, <4>3, <3>0
      <3>2. 1 \in 1..Len(queue[w])
        BY <2>2, <1>c
      <3>3. call[queue[w][1]] = "waiting" /\ queue[w][1] # r
        BY <3>2, <1>f DEF QInv, QWaiting
      <3>4. \A v \in Workers : current'[v] # NoRequest => call'[current'[v]] = "waiting"
        <4> SUFFICES ASSUME NEW v \in Workers, current'[v] # NoRequest
                     PROVE  call'[current'[v]] = "waiting"
          OBVIOUS
        <4>1. CASE v = w
          BY <4>1, <3>0, <3>3, <2>2
        <4>2. CASE v # w
          <5>1. current'[v] = current[v] /\ Busy(v)
            BY <4>2, <2>2 DEF Busy
          <5>2. current[v] \in Requests /\ current[v] # r /\ call[current[v]] = "waiting"
            BY <5>1, <4>2, <1>f, <1>a DEF QInv, QWaiting, Busy, TypeOK
          <5>3. QED BY <5>1, <5>2, <3>0
        <4>3. QED BY <4>1, <4>2
      <3>5. QED BY <3>1, <3>4 DEF QWaiting, Busy
    <2>8. QIdle' /\ QAttempts'
      BY <2>1, <2>2, <1>d, <1>a, QueueAssumption DEF QInv, QIdle, QAttempts, Busy, TypeOK
    <2>9. QED BY <2>3, <2>5, <2>6, <2>7, <2>8 DEF QInv
  <1>2. CASE queue[w] = <<>>
    <2>1. /\ current' = [current EXCEPT ![w] = NoRequest]
          /\ attempt' = [attempt EXCEPT ![w] = 0]
          /\ drainers' \in SUBSET Workers
          /\ UNCHANGED queue
      BY <1>2, <1>a DEF Finish, ProcessNext, TypeOK
    <2>2. TypeOK'
      <3>1. queue' \in [Workers -> Seq(Requests)] /\ drainers' \in SUBSET Workers
        BY <2>1, <1>a DEF TypeOK
      <3>2. current' \in [Workers -> Requests \cup {NoRequest}]
        BY <2>1, <1>a DEF TypeOK
      <3>3. 0 \in 0..MaxRetries + 1
        BY QueueAssumption
      <3>4. attempt' \in [Workers -> 0..MaxRetries + 1]
        BY <2>1, <3>3, <1>a DEF TypeOK
      <3>5. asleep' \in [Workers -> BOOLEAN]
        BY <1>d, <1>a DEF TypeOK
      <3>6. pending' \in [Workers -> Nat]
        BY <1>d, <1>a DEF TypeOK
      <3>7. call' \in [Requests -> CallStates]
        BY <1>d, <1>a DEF TypeOK, CallStates
      <3>8. QED BY <3>1, <3>2, <3>4, <3>5, <3>6, <3>7 DEF TypeOK
    <2>3. QRouted'
      BY <2>1, <1>a DEF QInv, QRouted, Routed, Busy, TypeOK
    <2>4. QPlaced'
      <3>0. \A v \in Workers : current'[v] = IF v = w THEN NoRequest ELSE current[v]
        BY <2>1, <1>a DEF TypeOK
      <3>a. \A v, u \in Workers : v # u /\ Busy(v)' => current'[v] # current'[u]
        <4>1. SUFFICES ASSUME NEW v \in Workers, NEW u \in Workers, v # u, Busy(v)'
                       PROVE  current'[v] # current'[u]
          OBVIOUS
        <4>2. current'[v] = current[v] /\ Busy(v) /\ current[v] # NoRequest
          BY <4>1, <3>0 DEF Busy
        <4>3. QED BY <4>1, <4>2, <3>0 DEF QInv, QPlaced
      <3>b. \A v, u \in Workers : \A i \in 1..Len(queue'[u]) : current'[v] # queue'[u][i]
        <4>1. SUFFICES ASSUME NEW v \in Workers, NEW u \in Workers, NEW i \in 1..Len(queue[u])
                       PROVE  current'[v] # queue[u][i]
          BY <2>1
        <4>2. CASE v = w
          <5>1. queue[u] \in Seq(Requests)
            BY <1>a DEF TypeOK
          <5>2. queue[u][i] \in Requests
            BY <5>1
          <5>3. QED BY <4>2, <3>0, <5>2, QueueAssumption
        <4>3. CASE v # w
          BY <4>3, <3>0 DEF QInv, QPlaced
        <4>4. QED BY <4>2, <4>3
      <3>1. /\ \A v, u \in Workers : v # u /\ Busy(v)' => current'[v] # current'[u]
            /\ \A v, u \in Workers : \A i \in 1..Len(queue'[u]) : current'[v] # queue'[u][i]
        BY <3>a, <3>b
      <3>2. \A v, u \in Workers : \A i \in 1..Len(queue'[v]), j \in 1..Len(queue'[u]) :
              queue'[v][i] = queue'[u][j] => v = u /\ i = j
        BY <2>1 DEF QInv, QPlaced
      <3>3. QED BY <3>1, <3>2 DEF QPlaced
    <2>5. QWaiting'
      BY <2>1, <1>d, <1>f, <1>a DEF QInv, QWaiting, Busy, TypeOK
    <2>6. QIdle' /\ QAttempts'
      BY <2>1, <1>2, <1>d, <1>a DEF QInv, QIdle, QAttempts, Busy, TypeOK
    <2>7. QED BY <2>2, <2>3, <2>4, <2>5, <2>6 DEF QInv
  <1>3. QED BY <1>1, <1>2

\* Steps that move no request: falling asleep, waking up, drain().
LEMMA HoldQInv ==
  ASSUME QInv, UNCHANGED <<queue, current, call>>, TypeOK',
         \A w \in Workers : Busy(w) => attempt'[w] >= 1,
         \A w \in Workers : asleep'[w] => Busy(w) /\ attempt'[w] <= MaxRetries
  PROVE  QInv'
  <1>1. QRouted' /\ QPlaced'
    BY DEF QInv, QRouted, QPlaced, Routed, Busy
  <1>2. QWaiting' /\ QIdle' /\ QAttempts'
    BY DEF QInv, QWaiting, QIdle, QAttempts, Busy
  <1>3. QED BY <1>1, <1>2 DEF QInv

\* An attempt that returns: the worker finishes, or falls asleep having an
\* attempt left.
LEMMA AttemptReturnsQInv ==
  ASSUME QInv, NEW w \in Workers, NEW o \in Outcomes, AttemptReturns(w, o)
  PROVE  QInv'
  <1>1. Busy(w) /\ ~asleep[w]
    BY DEF AttemptReturns, Attempting
  <1>2. CASE GivesUp(w, o)
    <2> DEFINE a == IF o = "success" THEN "ok" ELSE "failed"
    <2>1. Finish(w, a)
      BY <1>2 DEF AttemptReturns
    <2>2. a \in {"ok", "failed"}
      OBVIOUS
    <2> HIDE DEF a
    <2>3. QED BY <2>1, <2>2, <1>1, FinishQInv
  <1>3. CASE ~GivesUp(w, o)
    <2>1. /\ asleep' = [asleep EXCEPT ![w] = TRUE]
          /\ UNCHANGED <<queue, current, attempt, pending, drainers, call>>
          /\ ~(attempt[w] > MaxRetries)
      BY <1>3 DEF AttemptReturns, GivesUp
    <2>2. TypeOK'
      BY <2>1 DEF QInv, TypeOK
    <2>3. /\ \A v \in Workers : Busy(v) => attempt'[v] >= 1
          /\ \A v \in Workers : asleep'[v] => Busy(v) /\ attempt'[v] <= MaxRetries
      BY <2>1, <1>1, QueueAssumption DEF QInv, QAttempts, QIdle, TypeOK
    <2>4. QED BY <2>1, <2>2, <2>3, HoldQInv
  <1>4. QED BY <1>2, <1>3

\* A timer that fires: the attempt counter stays within its limit because a
\* sleeping worker has an attempt left.
LEMMA WakeQInv ==
  ASSUME QInv, NEW w \in Workers, Wake(w)
  PROVE  QInv'
  <1>1. /\ asleep[w]
        /\ asleep' = [asleep EXCEPT ![w] = FALSE]
        /\ attempt' = [attempt EXCEPT ![w] = @ + 1]
        /\ UNCHANGED <<queue, current, pending, drainers, call>>
    BY DEF Wake
  <1>a. TypeOK /\ QAttempts /\ QIdle
    BY DEF QInv
  <1>b. /\ attempt[w] \in Nat /\ attempt[w] <= MaxRetries /\ MaxRetries \in Nat
    BY <1>1, <1>a, QueueAssumption DEF QAttempts, TypeOK
  <1>c. \A v \in Workers : attempt'[v] = IF v = w THEN attempt[w] + 1 ELSE attempt[v]
    <2>1. attempt \in [Workers -> 0..MaxRetries + 1]
      BY <1>a DEF TypeOK
    <2>2. QED BY <1>1, <2>1
  <1>d. \A v \in Workers : asleep'[v] => v # w /\ asleep[v]
    <2>1. asleep \in [Workers -> BOOLEAN]
      BY <1>a DEF TypeOK
    <2>2. QED BY <1>1, <2>1, Zenon
  <1>2. TypeOK'
    <2>1. attempt[w] + 1 \in 0..MaxRetries + 1
      BY <1>b
    <2>2. attempt' \in [Workers -> 0..MaxRetries + 1] /\ asleep' \in [Workers -> BOOLEAN]
      BY <1>1, <1>a, <2>1 DEF TypeOK
    <2>3. QED BY <1>1, <1>a, <2>2 DEF TypeOK
  <1>3. /\ \A v \in Workers : Busy(v) => attempt'[v] >= 1
        /\ \A v \in Workers : asleep'[v] => Busy(v) /\ attempt'[v] <= MaxRetries
    <2>1. \A v \in Workers : Busy(v) => attempt'[v] >= 1
      <3>1. \A v \in Workers : Busy(v) => attempt[v] >= 1
        BY <1>a DEF QAttempts
      <3>2. QED BY <3>1, <1>b, <1>c
    <2>2. \A v \in Workers : asleep'[v] => Busy(v) /\ attempt'[v] <= MaxRetries
      <3>1. SUFFICES ASSUME NEW v \in Workers, asleep'[v]
                     PROVE  Busy(v) /\ attempt'[v] <= MaxRetries
        OBVIOUS
      <3>2. v # w /\ asleep[v] /\ attempt'[v] = attempt[v]
        BY <1>c, <1>d, <3>1
      <3>3. QED BY <1>a, <3>1, <3>2 DEF QAttempts, QIdle
    <2>3. QED BY <2>1, <2>2
  <1>4. QED BY <1>1, <1>2, <1>3, HoldQInv

LEMMA DrainQInv ==
  ASSUME QInv, Drain
  PROVE  QInv'
  <1>1. UNCHANGED <<queue, current, attempt, asleep, pending, call>> /\ TypeOK'
    BY DEF Drain, QInv, TypeOK
  <1>2. /\ \A v \in Workers : Busy(v) => attempt'[v] >= 1
        /\ \A v \in Workers : asleep'[v] => Busy(v) /\ attempt'[v] <= MaxRetries
    BY <1>1 DEF QInv, QAttempts, QIdle
  <1>3. QED BY <1>1, <1>2, HoldQInv

\* Clearing only takes requests away.
LEMMA ClearQInv ==
  ASSUME QInv, Clear
  PROVE  QInv'
  <1> USE DEF Clear
  <1>1. TypeOK'
    BY DEF QInv, TypeOK
  <1>2. \A v \in Workers : queue'[v] = <<>> /\ Len(queue'[v]) = 0
    OBVIOUS
  <1>3. QRouted' /\ QPlaced'
    BY <1>2 DEF QInv, QRouted, QPlaced, Routed, Busy
  <1>4. QWaiting' /\ QIdle' /\ QAttempts'
    BY <1>2 DEF QInv, QWaiting, QIdle, QAttempts, Busy
  <1>5. QED BY <1>1, <1>3, <1>4 DEF QInv

-----------------------------------------------------------------------------
\* Whatever is done with the queue, its variables keep their types, nobody is
\* held twice, whoever is held is waiting, and no attempt beyond maxRetries + 1
\* is made.
THEOREM QueueSafe == Spec => []QInv
  <1>1. Init => QInv
    BY InitQInv
  <1>2. QInv /\ [Next]_qvars => QInv'
    <2> SUFFICES ASSUME QInv, [Next]_qvars PROVE QInv'
      OBVIOUS
    <2>1. CASE \E r \in Requests : Saturated(r)
      BY <2>1, SaturatedQInv
    <2>2. CASE \E r \in Requests, w \in Workers : Enqueue(r, w)
      BY <2>2, EnqueueQInv
    <2>3. CASE \E w \in Workers, o \in Outcomes : AttemptReturns(w, o)
      BY <2>3, AttemptReturnsQInv
    <2>4. CASE \E w \in Workers : Wake(w)
      BY <2>4, WakeQInv
    <2>5. CASE Drain
      BY <2>5, DrainQInv
    <2>6. CASE UNCHANGED qvars
      BY <2>6, StutterQInv
    <2>7. QED
      BY <2>1, <2>2, <2>3, <2>4, <2>5, <2>6 DEF Next
  <1>3. QED
    BY <1>1, <1>2, PTL DEF Spec

\* A request that names a relayer stays with that relayer's worker.
THEOREM NamedRelayerSafe == Spec => []NamedRelayerKept
  <1>1. QInv => NamedRelayerKept
    <2> SUFFICES ASSUME QInv, NEW r \in Requests, Named[r] # NoWorker, NEW w \in Place(r)
                 PROVE  w = Named[r]
      BY DEF NamedRelayerKept
    <2>0. w \in Workers
      BY DEF Place
    <2>1. CASE current[w] = r
      <3>1. Busy(w)
        BY <2>1, QueueAssumption DEF Busy
      <3>2. QED BY <2>0, <2>1, <3>1 DEF QInv, QRouted, Routed
    <2>2. CASE \E i \in DOMAIN queue[w] : queue[w][i] = r
      <3>1. DOMAIN queue[w] = 1..Len(queue[w])
        BY <2>0 DEF QInv, TypeOK
      <3>2. QED BY <2>0, <2>2, <3>1 DEF QInv, QRouted, Routed
    <2>3. QED BY <2>1, <2>2 DEF Place
  <1>2. QED
    BY <1>1, QueueSafe, PTL

THEOREM QueueTypeSafe == Spec => []TypeOK
  <1>1. QInv => TypeOK
    BY DEF QInv
  <1>2. QED
    BY <1>1, QueueSafe, PTL

-----------------------------------------------------------------------------
(*                              THE SHUTDOWN                               *)
-----------------------------------------------------------------------------
\* Before the queue is cleared, whoever waits is held by a worker.
Held ==
  phase \in {"serving", "draining"} =>
    \A r \in Requests : call[r] = "waiting" => \E w \in Workers : w \in Place(r)

\* While drain() is outstanding, a call it must wait for is held by a worker
\* whose drainResolver has not been called.
OwedHeld ==
  phase = "draining" =>
    \A r \in owed : call[r] = "waiting" /\ \E w \in drainers : w \in Place(r)

DInv ==
  /\ QInv
  /\ phase \in Phases /\ owed \in SUBSET Requests
  /\ PendingAccounting
  /\ Held
  /\ OwedHeld

\* Membership in Place, without DOMAIN.
LEMMA PlaceDef ==
  ASSUME TypeOK, NEW r \in Requests, NEW w \in Workers
  PROVE  w \in Place(r) <=> current[w] = r \/ \E i \in 1..Len(queue[w]) : queue[w][i] = r
  <1>1. DOMAIN queue[w] = 1..Len(queue[w])
    BY DEF TypeOK
  <1>2. QED BY <1>1 DEF Place

LEMMA PlaceDefNext ==
  ASSUME TypeOK', NEW r \in Requests, NEW w \in Workers
  PROVE  w \in Place(r)' <=> current'[w] = r \/ \E i \in 1..Len(queue'[w]) : queue'[w][i] = r
  <1>1. DOMAIN queue'[w] = 1..Len(queue'[w])
    BY DEF TypeOK
  <1>2. QED BY <1>1 DEF Place

-----------------------------------------------------------------------------
\* Where requests are after a call is enqueued: where they were, and the new
\* one with its worker.
LEMMA EnqueuePlace ==
  ASSUME QInv, QInv', NEW r \in Requests, NEW w \in Workers, Enqueue(r, w)
  PROVE  /\ w \in Place(r)'
         /\ \A q \in Requests, v \in Workers : v \in Place(q) => v \in Place(q)'
  <1>a. TypeOK /\ TypeOK'
    BY DEF QInv
  <1>c. \A v \in Workers : Len(queue[v]) \in Nat
    BY <1>a DEF TypeOK
  <1>1. CASE Busy(w)
    <2>1. /\ queue' = [queue EXCEPT ![w] = Append(queue[w], r)]
          /\ UNCHANGED current
      BY <1>1 DEF Enqueue
    <2>2. /\ Len(queue'[w]) = Len(queue[w]) + 1
          /\ queue'[w][Len(queue[w]) + 1] = r
          /\ \A i \in 1..Len(queue[w]) : queue'[w][i] = queue[w][i]
          /\ \A v \in Workers : v # w => queue'[v] = queue[v]
      BY <2>1, <1>a DEF TypeOK
    <2>3. \A v \in Workers : \A i \in 1..Len(queue[v]) :
             i \in 1..Len(queue'[v]) /\ queue'[v][i] = queue[v][i]
      <3> TAKE v \in Workers
      <3> TAKE i \in 1..Len(queue[v])
      <3>1. CASE v = w
        BY <3>1, <2>2, <1>c
      <3>2. CASE v # w
        BY <3>2, <2>2
      <3>3. QED BY <3>1, <3>2
    <2>4. Len(queue[w]) + 1 \in 1..Len(queue'[w])
      BY <2>2, <1>c
    <2>5. w \in Place(r)'
      BY <2>4, <2>2, <1>a, PlaceDefNext
    <2>6. \A q \in Requests, v \in Workers : v \in Place(q) => v \in Place(q)'
      BY <2>1, <2>3, <1>a, PlaceDef, PlaceDefNext
    <2>7. QED BY <2>5, <2>6
  <1>2. CASE ~Busy(w)
    <2>1. /\ current' = [current EXCEPT ![w] = r]
          /\ UNCHANGED queue
      BY <1>2 DEF Enqueue
    <2>2. w \in Place(r)'
      <3>1. current'[w] = r
        BY <2>1, <1>a DEF TypeOK
      <3>2. QED BY <3>1, <1>a, PlaceDefNext
    <2>3. \A q \in Requests, v \in Workers : v \in Place(q) => v \in Place(q)'
      <3> SUFFICES ASSUME NEW q \in Requests, NEW v \in Workers, v \in Place(q)
                   PROVE  v \in Place(q)'
        OBVIOUS
      <3>1. CASE v # w
        <4>1. current'[v] = current[v]
          BY <3>1, <2>1, <1>a DEF TypeOK
        <4>2. QED BY <4>1, <2>1, <1>a, PlaceDef, PlaceDefNext
      <3>2. CASE v = w
        <4>1. current[w] = NoRequest /\ queue[w] = <<>>
          BY <1>2 DEF QInv, QIdle, Busy
        <4>2. ~(v \in Place(q))
          BY <4>1, <3>2, <1>a, PlaceDef, QueueAssumption
        <4>3. QED BY <4>2
      <3>3. QED BY <3>1, <3>2
    <2>4. QED BY <2>2, <2>3
  <1>3. QED BY <1>1, <1>2

\* Finishing takes the answered request away and leaves the others with their
\* workers.
LEMMA FinishPlace ==
  ASSUME QInv, QInv', NEW w \in Workers, Busy(w), NEW a, Finish(w, a),
         NEW q \in Requests, q # current[w], NEW v \in Workers, v \in Place(q)
  PROVE  v \in Place(q)'
  <1>a. TypeOK /\ TypeOK'
    BY DEF QInv
  <1>b. current[v] = q \/ \E i \in 1..Len(queue[v]) : queue[v][i] = q
    BY <1>a, PlaceDef
  <1>1. CASE v # w
    <2>1. current'[v] = current[v] /\ queue'[v] = queue[v]
      BY <1>1, <1>a DEF Finish, ProcessNext, TypeOK
    <2>2. QED BY <2>1, <1>a, <1>b, PlaceDefNext
  <1>2. CASE v = w
    <2>1. PICK i \in 1..Len(queue[w]) : queue[w][i] = q
      BY <1>2, <1>b
    <2>2. queue[w] \in Seq(Requests) /\ Len(queue[w]) \in Nat /\ queue[w] # <<>>
      BY <2>1, <1>a DEF TypeOK
    <2>3. current'[w] = Head(queue[w]) /\ queue'[w] = Tail(queue[w])
      BY <2>2, <1>a DEF Finish, ProcessNext, TypeOK
    <2>4. CASE i = 1
      <3>1. current'[w] = q
        BY <2>4, <2>1, <2>2, <2>3
      <3>2. QED BY <3>1, <1>2, <1>a, PlaceDefNext
    <2>5. CASE i # 1
      <3>1. i - 1 \in 1..(Len(queue[w]) - 1) /\ Len(queue'[w]) = Len(queue[w]) - 1
        BY <2>5, <2>1, <2>2, <2>3
      <3>2. queue'[w][i - 1] = queue[w][i]
        BY <3>1, <2>2, <2>3
      <3>3. QED BY <3>1, <3>2, <2>1, <1>2, <1>a, PlaceDefNext
    <2>6. QED BY <2>4, <2>5
  <1>3. QED BY <1>1, <1>2

-----------------------------------------------------------------------------
\* The load of a worker when it is idle, and how the queue's steps change it.
LEMMA LoadNat ==
  ASSUME TypeOK, NEW w \in Workers
  PROVE  Load(w) \in Nat /\ Len(queue[w]) \in Nat
  BY DEF TypeOK, Load, Busy

LEMMA EnqueueLoad ==
  ASSUME QInv, NEW r \in Requests, NEW w \in Workers, Enqueue(r, w)
  PROVE  \A v \in Workers : /\ Load(v)' = Load(v) + (IF v = w THEN 1 ELSE 0)
                            /\ pending'[v] = pending[v] + (IF v = w THEN 1 ELSE 0)
  <1>a. TypeOK
    BY DEF QInv
  <1> TAKE v \in Workers
  <1>1. pending'[v] = pending[v] + (IF v = w THEN 1 ELSE 0)
    BY <1>a DEF Enqueue, TypeOK
  <1>2. CASE v # w
    <2>1. current'[v] = current[v] /\ queue'[v] = queue[v]
      BY <1>2, <1>a DEF Enqueue, TypeOK
    <2>2. QED BY <2>1, <1>1, <1>2, <1>a, LoadNat DEF Load, Busy
  <1>3. CASE v = w /\ Busy(w)
    <2>1. current'[w] = current[w] /\ queue'[w] = Append(queue[w], r)
      BY <1>3, <1>a DEF Enqueue, TypeOK
    <2>2. Len(queue'[w]) = Len(queue[w]) + 1
      BY <2>1, <1>a DEF TypeOK
    <2>3. QED BY <2>1, <2>2, <1>1, <1>3, <1>a, LoadNat DEF Load, Busy
  <1>4. CASE v = w /\ ~Busy(w)
    <2>1. current'[w] = r /\ queue'[w] = queue[w] /\ r # NoRequest
      BY <1>4, <1>a, QueueAssumption DEF Enqueue, TypeOK
    <2>2. Load(w) = Len(queue[w]) /\ Load(w)' = Len(queue[w]) + 1
      BY <2>1, <1>4, <1>a, LoadNat DEF Load, Busy
    <2>3. QED BY <2>2, <1>1, <1>4
  <1>5. QED BY <1>2, <1>3, <1>4

LEMMA FinishLoad ==
  ASSUME QInv, NEW w \in Workers, Busy(w), NEW a, Finish(w, a)
  PROVE  \A v \in Workers :
           /\ Load(v)' = Load(v) - (IF v = w THEN 1 ELSE 0)
           /\ pending'[v] = IF v # w THEN pending[v]
                            ELSE IF pending[w] = 0 THEN 0 ELSE pending[w] - 1
  <1>a. TypeOK
    BY DEF QInv
  <1> TAKE v \in Workers
  <1>1. pending'[v] = IF v # w THEN pending[v]
                      ELSE IF pending[w] = 0 THEN 0 ELSE pending[w] - 1
    BY <1>a DEF Finish, TypeOK
  <1>2. CASE v # w
    <2>1. current'[v] = current[v] /\ queue'[v] = queue[v]
      BY <1>2, <1>a DEF Finish, ProcessNext, TypeOK
    <2>2. QED BY <2>1, <1>1, <1>2, <1>a, LoadNat DEF Load, Busy
  <1>3. CASE v = w /\ queue[w] # <<>>
    <2>1. current'[w] = Head(queue[w]) /\ queue'[w] = Tail(queue[w])
      BY <1>3, <1>a DEF Finish, ProcessNext, TypeOK
    <2>2. Len(queue'[w]) = Len(queue[w]) - 1 /\ Head(queue[w]) \in Requests
      BY <2>1, <1>3, <1>a DEF TypeOK
    <2>3. current'[w] # NoRequest
      BY <2>1, <2>2, QueueAssumption
    <2>4. QED BY <2>2, <2>3, <1>1, <1>3, <1>a, LoadNat DEF Load, Busy
  <1>4. CASE v = w /\ queue[w] = <<>>
    <2>1. current'[w] = NoRequest /\ queue'[w] = <<>>
      BY <1>4, <1>a DEF Finish, ProcessNext, TypeOK
    <2>2. Len(queue[w]) = 0 /\ Len(queue'[w]) = 0
      BY <2>1, <1>4
    <2>3. Load(w) = 1 /\ Load(w)' = 0
      BY <2>1, <2>2 DEF Load, Busy
    <2>4. QED BY <2>3, <1>1, <1>4
  <1>5. QED BY <1>2, <1>3, <1>4

LEMMA SameLoad ==
  ASSUME UNCHANGED <<queue, current>>
  PROVE  /\ \A v \in Workers : Load(v)' = Load(v)
         /\ \A q \in Requests : Place(q)' = Place(q)
  BY DEF Load, Place, Busy
-----------------------------------------------------------------------------
LEMMA InitDInv == DInit => DInv
  <1> SUFFICES ASSUME DInit PROVE DInv
    OBVIOUS
  <1>1. QInv /\ TypeOK
    BY InitQInv DEF DInit, QInv
  <1>2. PendingAccounting
    <2>1. \A w \in Workers : Load(w) = 0 /\ pending[w] = 0
      BY DEF DInit, Init, Load, Busy
    <2>2. QED BY <2>1 DEF PendingAccounting
  <1>3. Held /\ OwedHeld
    BY DEF DInit, Init, Held, OwedHeld
  <1>4. QED BY <1>1, <1>2, <1>3 DEF DInit, DInv, Phases

\* A call arrives: it is turned away, or a worker counts it and holds it.
LEMMA SubmitDInv ==
  ASSUME DInv, NEW r \in Requests, Submit(r)
  PROVE  DInv'
  <1>a. QInv /\ TypeOK /\ UNCHANGED <<phase, owed>>
    BY DEF DInv, QInv, Submit
  <1>1. CASE Saturated(r)
    <2>1. QInv' /\ UNCHANGED <<queue, current, pending, drainers>>
      BY <1>1, <1>a, SaturatedQInv DEF Saturated
    <2>2. /\ call[r] # "waiting"
          /\ \A q \in Requests : call'[q] = IF q = r THEN "saturated" ELSE call[q]
      BY <1>1, <1>a DEF Saturated, TypeOK
    <2>3. PendingAccounting'
      BY <2>1, <1>a, SameLoad DEF DInv, PendingAccounting
    <2>4. Held' /\ OwedHeld'
      BY <2>1, <2>2, <1>a, SameLoad DEF DInv, Held, OwedHeld
    <2>5. QED BY <2>1, <2>3, <2>4, <1>a DEF DInv
  <1>2. CASE \E w \in Workers : Enqueue(r, w)
    <2> PICK w \in Workers : Enqueue(r, w)
      BY <1>2
    <2>1. QInv'
      BY <1>a, EnqueueQInv
    <2>2. /\ w \in Place(r)'
          /\ \A q \in Requests, v \in Workers : v \in Place(q) => v \in Place(q)'
      BY <2>1, <1>a, EnqueuePlace
    <2>3. /\ call[r] # "waiting" /\ UNCHANGED drainers
          /\ \A q \in Requests : call'[q] = IF q = r THEN "waiting" ELSE call[q]
      BY <1>a DEF Enqueue, TypeOK
    <2>4. PendingAccounting'
      <3> SUFFICES ASSUME NEW v \in Workers
                   PROVE  /\ pending'[v] <= Load(v)' /\ Load(v)' <= pending'[v] + 1
                          /\ phase' \in {"serving", "draining"} => pending'[v] = Load(v)'
        BY DEF PendingAccounting
      <3>1. /\ Load(v)' = Load(v) + (IF v = w THEN 1 ELSE 0)
            /\ pending'[v] = pending[v] + (IF v = w THEN 1 ELSE 0)
        BY <1>a, EnqueueLoad
      <3>2. pending[v] \in Nat /\ Load(v) \in Nat
        BY <1>a, LoadNat DEF TypeOK
      <3>3. /\ pending[v] <= Load(v) /\ Load(v) <= pending[v] + 1
            /\ phase \in {"serving", "draining"} => pending[v] = Load(v)
        BY DEF DInv, PendingAccounting
      <3>4. QED BY <3>1, <3>2, <3>3, <1>a
    <2>5. Held'
      BY <2>2, <2>3, <1>a DEF DInv, Held
    <2>6. OwedHeld'
      <3> SUFFICES ASSUME phase = "draining", NEW q \in owed
                   PROVE  call'[q] = "waiting" /\ \E v \in drainers : v \in Place(q)'
        BY <2>3, <1>a DEF OwedHeld
      <3>1. q \in Requests /\ call[q] = "waiting" /\ q # r
        BY <2>3 DEF DInv, OwedHeld
      <3>2. PICK v \in drainers : v \in Place(q)
        BY DEF DInv, OwedHeld
      <3>3. v \in Workers
        BY <1>a DEF TypeOK
      <3>4. QED BY <3>1, <3>2, <3>3, <2>2, <2>3
    <2>7. QED BY <2>1, <2>4, <2>5, <2>6, <1>a DEF DInv
  <1>3. QED BY <1>1, <1>2 DEF Submit

\* A worker finishes: it uncounts what it answered; the other calls stay where
\* they are, and it lets drain() go only when it holds nothing.
LEMMA FinishDInv ==
  ASSUME DInv, NEW w \in Workers, Busy(w), NEW a \in {"ok", "failed"}, Finish(w, a),
         phase' = phase, owed' = {r \in owed : call'[r] = "waiting"}
  PROVE  DInv'
  <1> DEFINE r == current[w]
  <1>a. QInv /\ TypeOK
    BY DEF DInv, QInv
  <1>1. QInv' /\ TypeOK'
    BY <1>a, FinishQInv DEF QInv
  <1>2. r \in Requests /\ \A q \in Requests : call'[q] = IF q = r THEN a ELSE call[q]
    BY <1>a DEF Finish, TypeOK, Busy
  <1>3. \A q \in Requests, v \in Workers : q # r /\ v \in Place(q) => v \in Place(q)'
    BY <1>a, <1>1, FinishPlace
  <1>4. PendingAccounting'
    <2> SUFFICES ASSUME NEW v \in Workers
                 PROVE  /\ pending'[v] <= Load(v)' /\ Load(v)' <= pending'[v] + 1
                        /\ phase' \in {"serving", "draining"} => pending'[v] = Load(v)'
      BY DEF PendingAccounting
    <2>1. /\ Load(v)' = Load(v) - (IF v = w THEN 1 ELSE 0)
          /\ pending'[v] = IF v # w THEN pending[v]
                           ELSE IF pending[w] = 0 THEN 0 ELSE pending[w] - 1
      BY <1>a, FinishLoad
    <2>2. pending[v] \in Nat /\ Load(v) \in Nat
      BY <1>a, LoadNat DEF TypeOK
    <2>3. /\ pending[v] <= Load(v) /\ Load(v) <= pending[v] + 1
          /\ phase \in {"serving", "draining"} => pending[v] = Load(v)
      BY DEF DInv, PendingAccounting
    <2>4. Load(w) >= 1
      BY <1>a, LoadNat DEF Load
    <2>5. CASE v # w
      BY <2>5, <2>1, <2>2, <2>3
    <2>6. CASE v = w
      BY <2>6, <2>1, <2>2, <2>3, <2>4
    <2>7. QED BY <2>5, <2>6
  <1>5. Held'
    <2> SUFFICES ASSUME phase \in {"serving", "draining"}, NEW q \in Requests,
                        call'[q] = "waiting"
                 PROVE  \E v \in Workers : v \in Place(q)'
      BY DEF Held
    <2>1. q # r /\ call[q] = "waiting"
      BY <1>2
    <2>2. PICK v \in Workers : v \in Place(q)
      BY <2>1 DEF DInv, Held
    <2>3. QED BY <2>1, <2>2, <1>3
  <1>6. OwedHeld'
    <2> SUFFICES ASSUME phase = "draining", NEW q \in owed, call'[q] = "waiting"
                 PROVE  \E v \in drainers' : v \in Place(q)'
      BY DEF OwedHeld
    <2>1. q \in Requests /\ q # r /\ call[q] = "waiting"
      BY <1>2 DEF DInv, OwedHeld
    <2>2. PICK v \in drainers : v \in Place(q)
      BY DEF DInv, OwedHeld
    <2>3. v \in Workers
      BY <1>a DEF TypeOK
    <2>4. v \in Place(q)'
      BY <2>1, <2>2, <2>3, <1>3
    <2>5. v \in drainers'
      <3>1. CASE v # w \/ queue[w] # <<>>
        BY <3>1, <2>2 DEF Finish, ProcessNext
      <3>2. CASE v = w /\ queue[w] = <<>>
        <4>1. current[w] # q /\ Len(queue[w]) = 0
          BY <3>2, <2>1
        <4>2. ~(v \in Place(q))
          BY <4>1, <3>2, <2>1, <1>a, PlaceDef
        <4>3. QED BY <4>2, <2>2
      <3>3. QED BY <3>1, <3>2
    <2>6. QED BY <2>4, <2>5
  <1>7. QED BY <1>1, <1>4, <1>5, <1>6 DEF DInv

\* An attempt that does not finish, or the next one: nothing moves.
LEMMA SleepDInv ==
  ASSUME DInv, QInv', UNCHANGED <<queue, current, pending, drainers, call, phase, owed>>
  PROVE  DInv'
  <1>1. PendingAccounting'
    BY SameLoad DEF DInv, PendingAccounting
  <1>2. Held' /\ OwedHeld'
    BY SameLoad DEF DInv, Held, OwedHeld
  <1>3. QED BY <1>1, <1>2 DEF DInv

LEMMA WorkDInv ==
  ASSUME DInv, NEW w \in Workers, Work(w)
  PROVE  DInv'
  <1>a. QInv /\ phase' = phase /\ owed' = {r \in owed : call'[r] = "waiting"}
    BY DEF DInv, Work
  <1>b. owed \in SUBSET Requests
    BY DEF DInv
  \* Outside the drain nothing is claimed of owed; inside, all of it waits.
  <1>1. CASE \E o \in Outcomes : AttemptReturns(w, o)
    <2> PICK o \in Outcomes : AttemptReturns(w, o)
      BY <1>1
    <2>1. CASE GivesUp(w, o)
      <3> DEFINE a == IF o = "success" THEN "ok" ELSE "failed"
      <3>1. Finish(w, a) /\ Busy(w)
        BY <2>1 DEF AttemptReturns, Attempting
      <3>2. a \in {"ok", "failed"}
        OBVIOUS
      <3> HIDE DEF a
      <3>3. QED BY <3>1, <3>2, <1>a, FinishDInv
    <2>2. CASE ~GivesUp(w, o)
      <3>1. UNCHANGED <<queue, current, pending, drainers, call>>
        BY <2>2 DEF AttemptReturns
      <3>2. QInv'
        BY <1>a, AttemptReturnsQInv
      <3>3. PendingAccounting' /\ Held'
        BY <3>1, <1>a, SameLoad DEF DInv, PendingAccounting, Held
      <3>4. OwedHeld'
        BY <3>1, <1>a, SameLoad DEF DInv, OwedHeld
      <3>5. QED BY <3>2, <3>3, <3>4, <1>a, <1>b DEF DInv
    <2>3. QED BY <2>1, <2>2
  <1>2. CASE Wake(w)
    <2>1. UNCHANGED <<queue, current, pending, drainers, call>>
      BY <1>2 DEF Wake
    <2>2. QInv'
      BY <1>2, <1>a, WakeQInv
    <2>3. PendingAccounting' /\ Held'
      BY <2>1, <1>a, SameLoad DEF DInv, PendingAccounting, Held
    <2>4. OwedHeld'
      BY <2>1, <1>a, SameLoad DEF DInv, OwedHeld
    <2>5. QED BY <2>2, <2>3, <2>4, <1>a, <1>b DEF DInv
  <1>3. QED BY <1>1, <1>2 DEF Work

\* drain() takes a resolver from every worker that holds something, hence one
\* for every waiting call.
LEMMA TerminateDInv ==
  ASSUME DInv, Terminate
  PROVE  DInv'
  <1>a. QInv /\ TypeOK /\ phase = "serving" /\ phase' = "draining" /\ owed' = Waiting
    BY DEF DInv, QInv, Terminate
  <1>1. QInv' /\ UNCHANGED <<queue, current, pending, call>>
    BY <1>a, DrainQInv DEF Terminate, Drain
  <1>2. PendingAccounting' /\ Held'
    BY <1>a, <1>1, SameLoad DEF DInv, PendingAccounting, Held
  <1>3. OwedHeld'
    <2> SUFFICES ASSUME NEW q \in Requests, call[q] = "waiting"
                 PROVE  \E v \in drainers' : v \in Place(q)'
      BY <1>a, <1>1 DEF OwedHeld, Waiting
    <2>1. PICK v \in Workers : v \in Place(q)
      BY <1>a DEF DInv, Held
    <2>2. v \in Place(q)'
      BY <2>1, <1>1, SameLoad
    <2>3. current[v] = q \/ \E i \in 1..Len(queue[v]) : queue[v][i] = q
      BY <2>1, <1>a, PlaceDef
    <2>4. Busy(v) \/ queue[v] # <<>>
      BY <2>3, QueueAssumption DEF Busy
    <2>5. v \in drainers'
      BY <2>4 DEF Terminate, Drain
    <2>6. QED BY <2>2, <2>5
  <1>4. QED BY <1>a, <1>1, <1>2, <1>3 DEF DInv, Phases, Waiting

\* After clear() a worker has at most the request it was settling, uncounted.
LEMMA ClearDInv ==
  ASSUME DInv, ClearAndClose
  PROVE  DInv'
  <1>a. QInv /\ TypeOK /\ phase' = "closingFacilitator" /\ owed' = owed
    BY DEF DInv, QInv, ClearAndClose
  <1>1. QInv' /\ TypeOK'
    BY <1>a, ClearQInv DEF ClearAndClose, QInv
  <1>2. PendingAccounting'
    <2> SUFFICES ASSUME NEW v \in Workers
                 PROVE  pending'[v] <= Load(v)' /\ Load(v)' <= pending'[v] + 1
      BY <1>a DEF PendingAccounting
    <2>1. pending'[v] = 0 /\ queue'[v] = <<>>
      BY DEF ClearAndClose, Clear
    <2>2. Len(queue'[v]) = 0
      BY <2>1
    <2>3. Load(v)' = 0 \/ Load(v)' = 1
      BY <2>2 DEF Load
    <2>4. QED BY <2>1, <2>3
  <1>3. QED BY <1>a, <1>1, <1>2 DEF DInv, Held, OwedHeld, Phases

LEMMA CloseDInv ==
  ASSUME DInv, UNCHANGED <<qvars, owed>>,
         phase' = phase \/ phase' \in {"closingGateway", "exited"}
  PROVE  DInv'
  <1>1. QInv' /\ UNCHANGED <<queue, current, pending, drainers, call>>
    BY StutterQInv DEF DInv, qvars
  <1>2. CASE phase' = phase
    BY <1>1, <1>2, SleepDInv
  <1>3. CASE phase' \in {"closingGateway", "exited"}
    <2>1. PendingAccounting'
      BY <1>1, <1>3, SameLoad DEF DInv, PendingAccounting
    <2>2. QED BY <1>1, <1>3, <2>1 DEF DInv, Held, OwedHeld, Phases
  <1>4. QED BY <1>2, <1>3

-----------------------------------------------------------------------------
\* DInv is inductive.
THEOREM ShutdownInv == DSpec => []DInv
  <1>1. DInit => DInv
    BY InitDInv
  <1>2. DInv /\ [DNext]_dvars => DInv'
    <2> SUFFICES ASSUME DInv, [DNext]_dvars PROVE DInv'
      OBVIOUS
    <2>1. CASE \E r \in Requests : Submit(r)
      BY <2>1, SubmitDInv
    <2>2. CASE \E w \in Workers : Work(w)
      BY <2>2, WorkDInv
    <2>3. CASE Terminate
      BY <2>3, TerminateDInv
    <2>4. CASE ClearAndClose
      BY <2>4, ClearDInv
    <2>5. CASE FacilitatorClosed \/ GatewayClosed
      BY <2>5, CloseDInv DEF FacilitatorClosed, GatewayClosed
    <2>6. CASE UNCHANGED dvars
      BY <2>6, CloseDInv DEF dvars
    <2>7. QED
      BY <2>1, <2>2, <2>3, <2>4, <2>5, <2>6 DEF DNext
  <1>3. QED
    BY <1>1, <1>2, PTL DEF DSpec

\* The variables of the shutdown keep their types.
THEOREM ShutdownTypeSafe == DSpec => []DTypeOK
  <1>1. DInv => DTypeOK
    BY DEF DInv, QInv, DTypeOK
  <1>2. QED BY <1>1, ShutdownInv, PTL

\* pendingCount is what a worker has, up to the request in flight at clear().
THEOREM PendingSafe == DSpec => []PendingAccounting
  <1>1. DInv => PendingAccounting
    BY DEF DInv
  <1>2. QED BY <1>1, ShutdownInv, PTL

\* No waiting call is lost before the queue is cleared, and none is held twice.
THEOREM OneWorkerSafe == DSpec => []OneWorkerPerCall
  <1>1. DInv => OneWorkerPerCall
    <2> SUFFICES ASSUME DInv, NEW r \in Requests
                 PROVE  /\ Cardinality(Place(r)) <= 1
                        /\ Place(r) # {} => call[r] = "waiting"
                        /\ phase \in {"serving", "draining"} /\ call[r] = "waiting"
                             => Place(r) # {}
      BY DEF OneWorkerPerCall
    <2>a. QInv /\ TypeOK
      BY DEF DInv, QInv
    <2>1. \A v, w \in Place(r) : v = w
      <3> SUFFICES ASSUME NEW v \in Place(r), NEW w \in Place(r) PROVE v = w
        OBVIOUS
      <3>0. v \in Workers /\ w \in Workers /\ r # NoRequest
        BY QueueAssumption DEF Place
      <3>1. current[v] = r \/ \E i \in 1..Len(queue[v]) : queue[v][i] = r
        BY <3>0, <2>a, PlaceDef
      <3>2. current[w] = r \/ \E i \in 1..Len(queue[w]) : queue[w][i] = r
        BY <3>0, <2>a, PlaceDef
      <3>3. QPlaced
        BY DEF DInv, QInv
      <3>4. CASE current[v] = r /\ current[w] = r
        BY <3>0, <3>3, <3>4 DEF QPlaced, Busy
      <3>5. CASE current[v] = r /\ \E i \in 1..Len(queue[w]) : queue[w][i] = r
        BY <3>0, <3>3, <3>5 DEF QPlaced
      <3>6. CASE current[w] = r /\ \E i \in 1..Len(queue[v]) : queue[v][i] = r
        BY <3>0, <3>3, <3>6 DEF QPlaced
      <3>7. CASE /\ \E i \in 1..Len(queue[v]) : queue[v][i] = r
                 /\ \E i \in 1..Len(queue[w]) : queue[w][i] = r
        BY <3>0, <3>3, <3>7 DEF QPlaced
      <3>8. QED BY <3>1, <3>2, <3>4, <3>5, <3>6, <3>7
    <2>2. Cardinality(Place(r)) <= 1
      <3>1. CASE Place(r) = {}
        BY <3>1, FS_EmptySet
      <3>2. CASE \E w : w \in Place(r)
        <4>1. PICK w : w \in Place(r)
          BY <3>2
        <4>2. Place(r) = {w}
          BY <4>1, <2>1
        <4>3. Cardinality({w}) = 1
          BY FS_Singleton
        <4>4. QED BY <4>2, <4>3
      <3>3. QED BY <3>1, <3>2
    <2>3. Place(r) # {} => call[r] = "waiting"
      <3> SUFFICES ASSUME NEW w \in Place(r) PROVE call[r] = "waiting"
        OBVIOUS
      <3>1. w \in Workers /\ r # NoRequest
        BY QueueAssumption DEF Place
      <3>2. current[w] = r \/ \E i \in 1..Len(queue[w]) : queue[w][i] = r
        BY <3>1, <2>a, PlaceDef
      <3>3. QED BY <3>1, <3>2, <2>a DEF QInv, QWaiting, Busy
    <2>4. phase \in {"serving", "draining"} /\ call[r] = "waiting" => Place(r) # {}
      BY DEF DInv, Held
    <2>5. QED BY <2>2, <2>3, <2>4
  <1>2. QED BY <1>1, ShutdownInv, PTL

\* Backpressure, in the count that it looks at: no request is counted beyond
\* the limit (settlement_queue.ts:390-404).
PendingBounded == TotalPending <= MaxQueueSize

\* The folds of the model are the sums of SumProofs.
LEMMA TotalPendingIsSum ==
  /\ TypeOK => TotalPending = Sum(pending, Workers)
  /\ TypeOK' => TotalPending' = Sum(pending', Workers)
  <1>1. TypeOK => DOMAIN pending = Workers
    BY DEF TypeOK
  <1>2. TypeOK' => DOMAIN pending' = Workers
    BY DEF TypeOK
  <1> QED
    BY <1>1, <1>2, SumOfFunction DEF TotalPending

LEMMA TotalLoadIsSum ==
  SumFunction([w \in Workers |-> Load(w)]) = Sum([w \in Workers |-> Load(w)], Workers)
  <1> DEFINE load == [w \in Workers |-> Load(w)]
  <1>1. DOMAIN load = Workers
    OBVIOUS
  <1>2. SumFunction(load) = Sum(load, DOMAIN load)
    <2> HIDE DEF load
    <2> QED BY SumOfFunction
  <1> QED BY <1>1, <1>2

\* Only a call that is accepted raises a count.
LEMMA PendingFalls ==
  ASSUME TypeOK, TypeOK', \A w \in Workers : pending'[w] <= pending[w], PendingBounded
  PROVE  PendingBounded'
  <1>1. \A w \in Workers : pending[w] \in Nat /\ pending'[w] \in Nat
    BY DEF TypeOK
  <1> DEFINE old == Sum(pending, Workers)
             new == Sum(pending', Workers)
  <1>2. old \in Nat /\ new \in Nat /\ new <= old
    BY <1>1, SumType, SumMonotone, QueueAssumption
  <1>3. old <= MaxQueueSize /\ MaxQueueSize \in Nat
    BY TotalPendingIsSum, QueueAssumption DEF PendingBounded
  <1>4. new <= MaxQueueSize
    <2> HIDE DEF old, new
    <2> QED BY <1>2, <1>3
  <1> QED BY <1>4, TotalPendingIsSum, QueueAssumption DEF PendingBounded

LEMMA EnqueueBounded ==
  ASSUME TypeOK, TypeOK', NEW r \in Requests, NEW w \in Workers, Enqueue(r, w)
  PROVE  PendingBounded'
  <1>1. \A v \in Workers : pending[v] \in Nat /\ pending'[v] \in Nat
    BY DEF TypeOK
  <1>2. /\ pending'[w] = pending[w] + 1
        /\ \A v \in Workers \ {w} : pending'[v] = pending[v]
    BY DEF Enqueue, TypeOK
  <1> DEFINE old == Sum(pending, Workers)
             new == Sum(pending', Workers)
  <1>3. old \in Nat /\ new = old - pending[w] + pending'[w]
    <2>1. IsFiniteSet(Workers)
      BY QueueAssumption
    <2>2. old \in Nat
      BY <1>1, <2>1, SumType
    <2>3. ASSUME NEW f, NEW g, \A v \in Workers : f[v] \in Nat /\ g[v] \in Nat,
                 \A v \in Workers \ {w} : g[v] = f[v]
          PROVE  Sum(g, Workers) = Sum(f, Workers) - f[w] + g[w]
      BY <2>1, <2>3, SumChange
    <2>4. Sum(pending', Workers) = Sum(pending, Workers) - pending[w] + pending'[w]
      BY <1>1, <1>2, <2>3
    <2> QED BY <2>2, <2>4
  <1>4. old < MaxQueueSize /\ MaxQueueSize \in Nat
    BY TotalPendingIsSum, QueueAssumption DEF Enqueue
  <1>5. new <= MaxQueueSize
    <2> HIDE DEF old, new
    <2>1. new = old + 1
      BY <1>1, <1>2, <1>3
    <2> QED BY <2>1, <1>3, <1>4
  <1> QED BY <1>5, TotalPendingIsSum, QueueAssumption DEF PendingBounded

LEMMA PendingStep ==
  ASSUME TypeOK, TypeOK', [DNext]_dvars, PendingBounded
  PROVE  PendingBounded'
  <1>a. \A v \in Workers : pending[v] \in Nat
    BY DEF TypeOK
  <1>1. CASE UNCHANGED pending
    BY <1>1, <1>a, PendingFalls
  <1>2. ASSUME NEW r \in Requests, Submit(r) PROVE PendingBounded'
    <2>1. CASE Saturated(r)
      BY <2>1, <1>1 DEF Saturated
    <2>2. CASE \E w \in Workers : Enqueue(r, w)
      BY <2>2, EnqueueBounded
    <2> QED BY <1>2, <2>1, <2>2 DEF Submit
  <1>3. ASSUME NEW w \in Workers, Work(w) PROVE PendingBounded'
    <2>1. CASE Wake(w)
      BY <2>1, <1>1 DEF Wake
    <2>2. ASSUME NEW o \in Outcomes, AttemptReturns(w, o) PROVE PendingBounded'
      <3>1. CASE UNCHANGED pending
        BY <3>1, <1>1
      <3>2. CASE pending' = [pending EXCEPT ![w] = IF @ = 0 THEN 0 ELSE @ - 1]
        <4>1. \A v \in Workers : pending'[v] <= pending[v]
          BY <3>2, <1>a DEF TypeOK
        <4> QED BY <4>1, PendingFalls
      <3> QED BY <2>2, <3>1, <3>2 DEF AttemptReturns, Finish
    <2> QED BY <1>3, <2>1, <2>2 DEF Work
  <1>4. CASE ClearAndClose
    <2>1. \A v \in Workers : pending'[v] = 0
      BY <1>4 DEF ClearAndClose, Clear
    <2> QED BY <2>1, <1>a, PendingFalls
  <1>5. CASE Terminate \/ FacilitatorClosed \/ GatewayClosed \/ UNCHANGED dvars
    BY <1>5, <1>1 DEF Terminate, Drain, FacilitatorClosed, GatewayClosed, dvars, qvars
  <1> QED BY <1>2, <1>3, <1>4, <1>5 DEF DNext

LEMMA PendingInv == DSpec => []PendingBounded
  <1>1. TypeOK /\ DInit => PendingBounded
    <2> SUFFICES ASSUME TypeOK, DInit PROVE PendingBounded
      OBVIOUS
    <2>1. \A w \in Workers : pending[w] \in Nat /\ pending[w] <= 0
      BY DEF DInit, Init
    <2>2. Sum(pending, Workers) <= Cardinality(Workers) * 0
      BY <2>1, SumBounded, QueueAssumption
    <2>3. Cardinality(Workers) \in Nat
      BY FS_CardinalityType, QueueAssumption
    <2> DEFINE n == Cardinality(Workers)
               total == Sum(pending, Workers)
    <2>4. total \in Nat
      BY <2>1, SumType, QueueAssumption
    <2>5. total <= MaxQueueSize
      <3>1. n \in Nat /\ total <= n * 0
        BY <2>2, <2>3
      <3> HIDE DEF n, total
      <3> QED BY <3>1, <2>4, QueueAssumption
    <2> QED BY <2>5, TotalPendingIsSum DEF PendingBounded
  <1>2. DInv => TypeOK
    BY DEF DInv, QInv
  <1>3. TypeOK /\ TypeOK' /\ PendingBounded /\ [DNext]_dvars => PendingBounded'
    BY PendingStep
  <1> QED BY <1>1, <1>2, <1>3, ShutdownInv, PTL DEF DSpec

\* The queue never holds more than its limit, or, once it has been cleared, than
\* that and the request each worker was settling: what is held is counted, up
\* to one per worker, and the count is bounded.
THEOREM BackpressureSafe == DSpec => []LoadBounded
  <1>1. DInv /\ PendingBounded => LoadBounded
    <2> SUFFICES ASSUME DInv, PendingBounded PROVE LoadBounded
      OBVIOUS
    <2> DEFINE load == [w \in Workers |-> Load(w)]
               extra == [w \in Workers |-> IF phase \in {"serving", "draining"} THEN 0 ELSE 1]
               most == [w \in Workers |-> pending[w] + extra[w]]
               n == Cardinality(Workers)
               held == Sum(load, Workers)
               counted == Sum(pending, Workers)
               more == Sum(extra, Workers)
    <2>a. TypeOK /\ IsFiniteSet(Workers)
      BY QueueAssumption DEF DInv, QInv
    <2>b. n \in Nat /\ MaxQueueSize \in Nat
      BY FS_CardinalityType, QueueAssumption
    <2>1. \A w \in Workers : /\ pending[w] \in Nat /\ extra[w] \in Nat /\ load[w] \in Nat
                             /\ most[w] \in Nat /\ most[w] = pending[w] + extra[w]
      BY <2>a, LoadNat DEF TypeOK
    <2>2. \A w \in Workers : load[w] <= most[w]
      BY <2>1 DEF DInv, PendingAccounting
    <2>3. held <= Sum(most, Workers)
      BY <2>a, <2>1, <2>2, SumMonotone
    <2>4. Sum(most, Workers) = counted + more
      BY <2>a, <2>1, SumPlus
    <2>5. held \in Nat /\ counted \in Nat /\ more \in Nat
      BY <2>a, <2>1, SumType
    <2>6. more <= n * (IF phase \in {"serving", "draining"} THEN 0 ELSE 1)
      <3>1. (IF phase \in {"serving", "draining"} THEN 0 ELSE 1) \in Nat
        OBVIOUS
      <3>2. \A w \in Workers : extra[w] <= IF phase \in {"serving", "draining"} THEN 0 ELSE 1
        OBVIOUS
      <3> QED BY <2>a, <2>1, <3>1, <3>2, SumBounded
    <2>7. counted <= MaxQueueSize
      BY <2>a, TotalPendingIsSum DEF PendingBounded
    <2>8. held <= MaxQueueSize + IF phase \in {"serving", "draining"} THEN 0 ELSE n
      <3>1. held <= counted + more
        BY <2>3, <2>4
      <3> HIDE DEF held, counted, more, n
      <3> QED BY <3>1, <2>b, <2>5, <2>6, <2>7
    <2> QED BY <2>8, TotalLoadIsSum DEF LoadBounded
  <1> QED BY <1>1, ShutdownInv, PendingInv, PTL

\* drain() resolves only when every call it waited for has its answer.
THEOREM DrainSafe == DSpec => []DrainWaits
  <1>1. DInv => DrainWaits
    BY DEF DInv, OwedHeld, DrainWaits, DrainResolved
  <1>2. QED BY <1>1, ShutdownInv, PTL

-----------------------------------------------------------------------------
(*                               THE SETTLER                               *)
-----------------------------------------------------------------------------
\* A record id belongs to one payment: that of the worker that remembers it,
\* of the row, or of the orphan that carries it.
Owns(id, p) ==
  \/ \E w \in Workers : Busy(w) /\ rid[w] = id /\ PayOf(w) = p
  \/ row[p] # NoRow /\ row[p].id = id
  \/ \E o \in orphans : o.id = id /\ o.pay = p

OneOwner == \A id \in Ids : \A p, q \in Payments : Owns(id, p) /\ Owns(id, q) => p = q

\* A worker settles something exactly when it is busy; it knows its record's id
\* once it has saved it; and what it saw accepted is on the chain.
Linked ==
  \A w \in Workers : /\ stage[w] = "idle" <=> ~Busy(w)
                     /\ InFlight(w) => rid[w] \in Ids
                     /\ stage[w] = "accepted" => PayOf(w) \in chain

GInv == QInv /\ STypeOK /\ Linked /\ OneOwner /\ CompletedOnChain

-----------------------------------------------------------------------------
\* What the queue's invariant needs from every step.
LEMMA CrashQInv == ASSUME QInv, Crash PROVE QInv'
  <1> USE QueueAssumption DEF Crash, Reopened, Busy
  <1>1. TypeOK'
    BY DEF QInv, TypeOK, CallStates
  <1>2. QRouted' /\ QPlaced' /\ QWaiting' /\ QIdle' /\ QAttempts'
    BY DEF QRouted, QPlaced, QWaiting, QIdle, QAttempts
  <1>3. QED BY <1>1, <1>2 DEF QInv

LEMMA SettlerQueue ==
  ASSUME NEW w \in Workers, SettlerStep(w)
  PROVE  UNCHANGED qvars
  BY DEF SettlerStep, VerifyValid, VerifyInvalid, Sign, Signers, PrepareFails,
         NetworkAccepts, ReplyArrives, BroadcastFails, StorageThrows

LEMMA OutcomeType == \A w \in Workers : OutcomeOf(w) \in Outcomes
  BY DEF OutcomeOf, Outcomes, At

LEMMA StepQInv == QInv /\ [SNext]_vars => QInv'
  <1> SUFFICES ASSUME QInv, [SNext]_vars PROVE QInv'
    OBVIOUS
  <1>1. CASE \E r \in Requests : Arrive(r)
    BY <1>1, SaturatedQInv, EnqueueQInv DEF Arrive
  <1>2. CASE \E w \in Workers : SettlerStep(w)
    BY <1>2, SettlerQueue, StutterQInv
  <1>3. CASE \E w \in Workers : Return(w)
    BY <1>3, OutcomeType, AttemptReturnsQInv DEF Return
  <1>4. CASE \E w \in Workers : Retry(w)
    BY <1>4, WakeQInv DEF Retry
  <1>5. CASE Crash
    BY <1>5, CrashQInv
  <1>6. CASE UNCHANGED vars
    BY <1>6, StutterQInv DEF vars
  <1>7. QED BY <1>1, <1>2, <1>3, <1>4, <1>5, <1>6 DEF SNext

-----------------------------------------------------------------------------
\* What saving a record does to the books.
LEMMA SaveFacts ==
  ASSUME STypeOK, NEW p \in Payments, NEW id \in Ids, NEW st \in Statuses, Save(p, id, st)
  PROVE  /\ row' \in [Payments -> Rows \cup {NoRow}]
         /\ orphans' \in SUBSET Orphans
         /\ row'[p] = [id |-> id, status |-> st]
         /\ \A q \in Payments : q # p => row'[q] = row[q]
         /\ \A o \in orphans' :
              \/ o \in orphans
              \/ row[p] # NoRow /\ o = [pay |-> p, id |-> row[p].id, status |-> row[p].status]
  <1>1. /\ row' \in [Payments -> Rows \cup {NoRow}]
        /\ row'[p] = [id |-> id, status |-> st]
        /\ \A q \in Payments : q # p => row'[q] = row[q]
    BY DEF Save, STypeOK, Rows
  <1>2. \A o \in orphans' :
          \/ o \in orphans
          \/ row[p] # NoRow /\ o = [pay |-> p, id |-> row[p].id, status |-> row[p].status]
    <2>1. CASE Backend = "memory"
      BY <2>1 DEF Save
    <2>2. CASE Backend # "memory"
      BY <2>2 DEF Save
    <2>3. QED BY <2>1, <2>2
  <1>3. row[p] # NoRow => [pay |-> p, id |-> row[p].id, status |-> row[p].status] \in Orphans
    BY DEF STypeOK, Rows, Orphans
  <1>4. orphans' \in SUBSET Orphans
    BY <1>2, <1>3 DEF STypeOK
  <1>5. QED BY <1>1, <1>2, <1>4

\* What updating one does.
LEMMA UpdateFacts ==
  ASSUME STypeOK, NEW p \in Payments, NEW id \in Ids, NEW st \in Statuses,
         UpdateStatus(p, id, st)
  PROVE  /\ row' \in [Payments -> Rows \cup {NoRow}]
         /\ orphans' \in SUBSET Orphans
         /\ IF row[p] # NoRow /\ row[p].id = id
            THEN row'[p] = [id |-> id, status |-> st] ELSE row'[p] = row[p]
         /\ \A q \in Payments : q # p => row'[q] = row[q]
         /\ \A o \in orphans' : \E b \in orphans :
              /\ o.id = b.id /\ o.pay = b.pay
              /\ o.status = IF b.id = id THEN st ELSE b.status
  <1>1. \A o \in orphans : [o EXCEPT !.status = st] \in Orphans /\
                           [o EXCEPT !.status = st].id = o.id /\
                           [o EXCEPT !.status = st].pay = o.pay /\
                           [o EXCEPT !.status = st].status = st
    BY DEF STypeOK, Orphans
  <1>2. \A o \in orphans' : \E b \in orphans :
              o = IF b.id = id THEN [b EXCEPT !.status = st] ELSE b
    BY DEF UpdateStatus
  <1>3. \A o \in orphans' : \E b \in orphans :
              /\ o.id = b.id /\ o.pay = b.pay /\ o \in Orphans
              /\ o.status = IF b.id = id THEN st ELSE b.status
    <2> TAKE o \in orphans'
    <2>1. PICK b \in orphans : o = IF b.id = id THEN [b EXCEPT !.status = st] ELSE b
      BY <1>2
    <2>2. b \in Orphans
      BY DEF STypeOK
    <2>3. QED BY <2>1, <2>2, <1>1
  <1>4. CASE row[p] # NoRow /\ row[p].id = id
    <2>1. row[p] \in Rows
      BY <1>4 DEF STypeOK
    <2>2. [row[p] EXCEPT !.status = st] = [id |-> id, status |-> st]
      BY <2>1, <1>4 DEF Rows
    <2>3. row' = [row EXCEPT ![p] = [id |-> id, status |-> st]]
      BY <1>4, <2>2 DEF UpdateStatus, STypeOK
    <2>4. QED BY <2>3, <1>3, <1>4 DEF STypeOK, Rows
  <1>5. CASE ~(row[p] # NoRow /\ row[p].id = id)
    <2>1. row' = row
      BY <1>5 DEF UpdateStatus
    <2>2. QED BY <2>1, <1>3, <1>5 DEF STypeOK
  <1>6. QED BY <1>4, <1>5

\* The ids a worker may record under are its own or nobody's.
LEMMA RecordIdFacts ==
  ASSUME STypeOK, NEW w \in Workers, Busy(w), NEW id \in RecordIds(w)
  PROVE  /\ id \in Ids
         /\ \/ Owns(id, PayOf(w))
            \/ \A q \in Payments : ~Owns(id, q)
  <1>1. CASE rid[w] # NoId
    BY <1>1 DEF RecordIds, STypeOK, Owns
  <1>2. CASE rid[w] = NoId
    <2>1. id \in Ids /\ id \notin UsedIds
      BY <1>2 DEF RecordIds
    <2>2. \A q \in Payments : ~Owns(id, q)
      BY <2>1 DEF Owns, UsedIds
    <2>3. QED BY <2>1, <2>2
  <1>3. QED BY <1>1, <1>2

\* Ids change hands only by being taken fresh.
LEMMA OwnerStep ==
  ASSUME OneOwner, NEW id \in Ids, NEW p \in Payments,
         Owns(id, p) \/ \A q \in Payments : ~Owns(id, q),
         \A i \in Ids, q \in Payments : Owns(i, q)' => Owns(i, q) \/ (i = id /\ q = p)
  PROVE  OneOwner'
  <1> SUFFICES ASSUME NEW i \in Ids, NEW q \in Payments, NEW s \in Payments,
                      Owns(i, q)', Owns(i, s)'
               PROVE  q = s
    BY DEF OneOwner
  <1>1. /\ Owns(i, q) \/ (i = id /\ q = p)
        /\ Owns(i, s) \/ (i = id /\ s = p)
    OBVIOUS
  <1>2. QED BY <1>1 DEF OneOwner
-----------------------------------------------------------------------------
LEMMA InitGInv == SInit => GInv
  <1> SUFFICES ASSUME SInit PROVE GInv
    OBVIOUS
  <1> USE SettlementAssumption
  <1>1. QInv
    BY InitQInv DEF SInit
  <1>2. STypeOK
    BY DEF SInit, STypeOK, Stages
  <1>3. Linked
    BY DEF SInit, Init, Linked, Busy, InFlight
  <1>4. OneOwner
    BY DEF SInit, Init, OneOwner, Owns, Busy
  <1>5. CompletedOnChain
    BY DEF SInit, CompletedOnChain, Settled
  <1>6. QED BY <1>1, <1>2, <1>3, <1>4, <1>5 DEF GInv

\* A worker acts on its own stage, id and signer, and on the row of its payment.
LEMMA SettlerFrame ==
  ASSUME GInv, NEW w \in Workers, SettlerStep(w)
  PROVE  /\ Busy(w) /\ PayOf(w) \in Payments
         /\ \A v \in Workers : v # w =>
              stage'[v] = stage[v] /\ rid'[v] = rid[v] /\ signer'[v] = signer[v]
         /\ \A v \in Workers : Busy(v)' = Busy(v) /\ PayOf(v)' = PayOf(v)
  <1>1. stage[w] # "idle"
    BY DEF SettlerStep, VerifyValid, VerifyInvalid, Sign, Signers, PrepareFails,
           NetworkAccepts, ReplyArrives, BroadcastFails, StorageThrows, At
  <1>2. Busy(w)
    BY <1>1 DEF GInv, Linked
  <1>3. PayOf(w) \in Payments
    BY <1>2, SettlementAssumption DEF GInv, QInv, TypeOK, Busy, PayOf
  <1>4. \A v \in Workers : v # w =>
              stage'[v] = stage[v] /\ rid'[v] = rid[v] /\ signer'[v] = signer[v]
    BY DEF GInv, STypeOK, SettlerStep, VerifyValid, VerifyInvalid, Sign, Signers, PrepareFails,
           NetworkAccepts, ReplyArrives, BroadcastFails, StorageThrows, Goto
  <1>5. UNCHANGED current
    BY SettlerQueue DEF qvars
  <1>6. QED BY <1>2, <1>3, <1>4, <1>5 DEF Busy, PayOf

\* A record is saved: as pending or as failed.
LEMMA VerifyGInv ==
  ASSUME GInv, NEW w \in Workers, VerifyValid(w) \/ VerifyInvalid(w)
  PROVE  GInv'
  <1> DEFINE p == PayOf(w)
  <1>a. STypeOK /\ Linked /\ OneOwner /\ CompletedOnChain
    BY DEF GInv
  <1>b. SettlerStep(w)
    BY DEF SettlerStep
  <1>1. /\ Busy(w) /\ p \in Payments
        /\ \A v \in Workers : v # w =>
              stage'[v] = stage[v] /\ rid'[v] = rid[v] /\ signer'[v] = signer[v]
        /\ \A v \in Workers : Busy(v)' = Busy(v) /\ PayOf(v)' = PayOf(v)
    BY <1>b, SettlerFrame
  <1>2. PICK id \in RecordIds(w), st \in {"pending", "failed"}, g \in {"signing", "failed", "stale"} :
          /\ rid' = [rid EXCEPT ![w] = id]
          /\ Save(p, id, st)
          /\ stage' = [stage EXCEPT ![w] = g]
          /\ UNCHANGED <<signer, chain>>
    BY DEF VerifyValid, VerifyInvalid, Goto
  <1>3. id \in Ids /\ (Owns(id, p) \/ \A q \in Payments : ~Owns(id, q))
    BY <1>a, <1>1, RecordIdFacts
  <1>4. /\ row' \in [Payments -> Rows \cup {NoRow}]
        /\ orphans' \in SUBSET Orphans
        /\ row'[p] = [id |-> id, status |-> st]
        /\ \A q \in Payments : q # p => row'[q] = row[q]
        /\ \A o \in orphans' :
             \/ o \in orphans
             \/ row[p] # NoRow /\ o = [pay |-> p, id |-> row[p].id, status |-> row[p].status]
    <2>1. p \in Payments /\ id \in Ids /\ st \in Statuses /\ Save(p, id, st)
      BY <1>1, <1>2, <1>3 DEF Statuses
    <2> HIDE DEF p
    <2>2. QED BY <2>1, <1>a, SaveFacts
  <1>5. QInv'
    BY <1>b, SettlerQueue, StutterQInv DEF GInv
  <1>6. STypeOK'
    BY <1>a, <1>2, <1>3, <1>4 DEF STypeOK, Stages
  <1>7. Linked'
    <2> SUFFICES ASSUME NEW v \in Workers
                 PROVE  /\ stage'[v] = "idle" <=> ~Busy(v)'
                        /\ InFlight(v)' => rid'[v] \in Ids
                        /\ stage'[v] = "accepted" => PayOf(v)' \in chain'
      BY DEF Linked
    <2>1. CASE v = w
      <3>1. stage'[w] = g /\ rid'[w] = id
        BY <1>a, <1>2 DEF STypeOK
      <3>2. QED BY <2>1, <3>1, <1>1, <1>3
    <2>2. CASE v # w
      BY <2>2, <1>1, <1>2, <1>a DEF Linked, InFlight
    <2>3. QED BY <2>1, <2>2
  <1>8. OneOwner'
    <2>1. rid'[w] = id
      BY <1>a, <1>2 DEF STypeOK
    <2>2. SUFFICES ASSUME NEW i \in Ids, NEW q \in Payments, Owns(i, q)'
                   PROVE  Owns(i, q) \/ (i = id /\ q = p)
      BY <1>a, <1>1, <1>3, OwnerStep
    <2>3. CASE \E v \in Workers : Busy(v)' /\ rid'[v] = i /\ PayOf(v)' = q
      BY <2>1, <2>3, <1>1 DEF Owns
    <2>4. CASE row'[q] # NoRow /\ row'[q].id = i
      BY <2>4, <1>4 DEF Owns
    <2>5. CASE \E o \in orphans' : o.id = i /\ o.pay = q
      <3>1. PICK o \in orphans' : o.id = i /\ o.pay = q
        BY <2>5
      <3>2. CASE o \in orphans
        BY <3>1, <3>2 DEF Owns
      <3>3. CASE row[p] # NoRow /\ o = [pay |-> p, id |-> row[p].id, status |-> row[p].status]
        BY <3>1, <3>3 DEF Owns
      <3>4. QED BY <3>2, <3>3, <1>4
    <2>6. QED BY <2>2, <2>3, <2>4, <2>5 DEF Owns
  <1>9. CompletedOnChain'
    <2>1. \A q \in Payments : Settled(q)' => q \in chain'
      BY <1>2, <1>4, <1>a DEF CompletedOnChain, Settled
    <2>2. \A o \in orphans' : o.status = "completed" => o.pay \in chain'
      <3> SUFFICES ASSUME NEW o \in orphans', o.status = "completed" PROVE o.pay \in chain
        BY <1>2
      <3>1. CASE o \in orphans
        BY <3>1, <1>a DEF CompletedOnChain
      <3>2. CASE row[p] # NoRow /\ o = [pay |-> p, id |-> row[p].id, status |-> row[p].status]
        BY <3>2, <1>a, <1>1 DEF CompletedOnChain, Settled
      <3>3. QED BY <3>1, <3>2, <1>4
    <2>3. QED BY <2>1, <2>2 DEF CompletedOnChain
  <1>10. QED BY <1>5, <1>6, <1>7, <1>8, <1>9 DEF GInv

\* A record is updated: completed by the worker that saw its payment accepted,
\* failed by any.
LEMMA UpdateGInv ==
  ASSUME GInv, NEW w \in Workers, PrepareFails(w) \/ ReplyArrives(w) \/ BroadcastFails(w)
  PROVE  GInv'
  <1> DEFINE p == PayOf(w)
  <1>a. STypeOK /\ Linked /\ OneOwner /\ CompletedOnChain
    BY DEF GInv
  <1>b. SettlerStep(w)
    BY DEF SettlerStep
  <1>1. /\ Busy(w) /\ p \in Payments
        /\ \A v \in Workers : v # w =>
              stage'[v] = stage[v] /\ rid'[v] = rid[v] /\ signer'[v] = signer[v]
        /\ \A v \in Workers : Busy(v)' = Busy(v) /\ PayOf(v)' = PayOf(v)
    BY <1>b, SettlerFrame
  <1>2. PICK st \in {"completed", "failed"}, g \in {"settled", "failed"} :
          /\ UpdateStatus(p, rid[w], st)
          /\ stage' = [stage EXCEPT ![w] = g]
          /\ st = "completed" => stage[w] = "accepted"
          /\ UNCHANGED <<rid, signer, chain>>
    BY DEF PrepareFails, ReplyArrives, BroadcastFails, Goto, At
  <1>3. rid[w] \in Ids /\ (st = "completed" => p \in chain)
    BY <1>a, <1>2 DEF Linked, InFlight, PrepareFails, ReplyArrives, BroadcastFails, At
  <1>4. /\ row' \in [Payments -> Rows \cup {NoRow}]
        /\ orphans' \in SUBSET Orphans
        /\ IF row[p] # NoRow /\ row[p].id = rid[w]
           THEN row'[p] = [id |-> rid[w], status |-> st] ELSE row'[p] = row[p]
        /\ \A q \in Payments : q # p => row'[q] = row[q]
        /\ \A o \in orphans' : \E b \in orphans :
             /\ o.id = b.id /\ o.pay = b.pay
             /\ o.status = IF b.id = rid[w] THEN st ELSE b.status
    <2>1. /\ p \in Payments /\ rid[w] \in Ids /\ st \in Statuses
          /\ UpdateStatus(p, rid[w], st)
      BY <1>1, <1>2, <1>3 DEF Statuses
    <2> HIDE DEF p
    <2>2. QED BY <2>1, <1>a, UpdateFacts
  <1>5. QInv'
    BY <1>b, SettlerQueue, StutterQInv DEF GInv
  <1>6. STypeOK'
    BY <1>a, <1>2, <1>4 DEF STypeOK, Stages
  <1>7. Linked'
    <2> SUFFICES ASSUME NEW v \in Workers
                 PROVE  /\ stage'[v] = "idle" <=> ~Busy(v)'
                        /\ InFlight(v)' => rid'[v] \in Ids
                        /\ stage'[v] = "accepted" => PayOf(v)' \in chain'
      BY DEF Linked
    <2>1. CASE v = w
      <3>1. stage'[w] = g
        BY <1>a, <1>2 DEF STypeOK
      <3>2. QED BY <2>1, <3>1, <1>1, <1>2, <1>3
    <2>2. CASE v # w
      BY <2>2, <1>1, <1>2, <1>a DEF Linked, InFlight
    <2>3. QED BY <2>1, <2>2
  <1>8. OneOwner'
    <2>1. \A i \in Ids, q \in Payments : Owns(i, q)' => Owns(i, q)
      <3> SUFFICES ASSUME NEW i \in Ids, NEW q \in Payments, Owns(i, q)'
                   PROVE  Owns(i, q)
        OBVIOUS
      <3>1. CASE \E v \in Workers : Busy(v)' /\ rid'[v] = i /\ PayOf(v)' = q
        BY <3>1, <1>1, <1>2 DEF Owns
      <3>2. CASE row'[q] # NoRow /\ row'[q].id = i
        BY <3>2, <1>4 DEF Owns
      <3>3. CASE \E o \in orphans' : o.id = i /\ o.pay = q
        BY <3>3, <1>4 DEF Owns
      <3>4. QED BY <3>1, <3>2, <3>3 DEF Owns
    <2>2. QED BY <2>1, <1>a DEF OneOwner
  <1>9. CompletedOnChain'
    <2>1. \A q \in Payments : Settled(q)' => q \in chain'
      BY <1>2, <1>3, <1>4, <1>a DEF CompletedOnChain, Settled
    <2>2. \A o \in orphans' : o.status = "completed" => o.pay \in chain'
      <3> SUFFICES ASSUME NEW o \in orphans', o.status = "completed" PROVE o.pay \in chain
        BY <1>2
      <3>1. PICK b \in orphans : /\ o.id = b.id /\ o.pay = b.pay
                                /\ o.status = IF b.id = rid[w] THEN st ELSE b.status
        BY <1>4
      <3>2. CASE b.id # rid[w]
        BY <3>1, <3>2, <1>a DEF CompletedOnChain
      <3>3. CASE b.id = rid[w]
        <4>1. b.pay \in Payments
          BY <1>a DEF STypeOK, Orphans
        <4>2. Owns(rid[w], b.pay) /\ Owns(rid[w], p)
          BY <3>3, <1>1 DEF Owns
        <4>3. b.pay = p
          BY <4>1, <4>2, <1>1, <1>3, <1>a DEF OneOwner
        <4>4. QED BY <4>3, <3>1, <3>3, <1>3
      <3>4. QED BY <3>2, <3>3
    <2>3. QED BY <2>1, <2>2 DEF CompletedOnChain
  <1>10. QED BY <1>5, <1>6, <1>7, <1>8, <1>9 DEF GInv

\* Steps that leave the books alone.
LEMMA NetworkGInv ==
  ASSUME GInv, NEW w \in Workers, Sign(w) \/ NetworkAccepts(w) \/ StorageThrows(w)
  PROVE  GInv'
  <1>a. STypeOK /\ Linked /\ OneOwner /\ CompletedOnChain
    BY DEF GInv
  <1>b. SettlerStep(w)
    BY DEF SettlerStep
  <1>1. /\ Busy(w) /\ PayOf(w) \in Payments
        /\ \A v \in Workers : v # w =>
              stage'[v] = stage[v] /\ rid'[v] = rid[v] /\ signer'[v] = signer[v]
        /\ \A v \in Workers : Busy(v)' = Busy(v) /\ PayOf(v)' = PayOf(v)
    BY <1>b, SettlerFrame
  <1>2. PICK g \in {"sending", "accepted", "failed", "stale"} :
          /\ stage' = [stage EXCEPT ![w] = g]
          /\ g = "accepted" => PayOf(w) \in chain'
          /\ g \in {"sending", "accepted"} => InFlight(w)
          /\ chain' \in SUBSET Payments /\ chain \subseteq chain'
          /\ UNCHANGED <<rid, row, orphans>>
    BY <1>a, <1>1 DEF Sign, Signers, NetworkAccepts, StorageThrows, Goto, At, InFlight, STypeOK
  <1>3. QInv'
    BY <1>b, SettlerQueue, StutterQInv DEF GInv
  <1>4. signer' \in [Workers -> Workers \cup {NoWorker}]
    <2>1. CASE Sign(w)
      <3>1. current[w] \in Requests
        BY <1>1 DEF GInv, QInv, TypeOK, Busy
      <3>2. Pool[current[w]] \subseteq Workers /\ Named[current[w]] \in Workers \cup {NoWorker}
        BY <3>1, QueueAssumption
      <3>3. QED BY <2>1, <3>2, <1>a DEF Sign, Signers, STypeOK
    <2>2. CASE ~Sign(w)
      BY <2>2, <1>a DEF NetworkAccepts, StorageThrows, STypeOK
    <2>3. QED BY <2>1, <2>2
  <1>5. STypeOK'
    BY <1>2, <1>4, <1>a DEF STypeOK, Stages
  <1>6. Linked'
    <2> SUFFICES ASSUME NEW v \in Workers
                 PROVE  /\ stage'[v] = "idle" <=> ~Busy(v)'
                        /\ InFlight(v)' => rid'[v] \in Ids
                        /\ stage'[v] = "accepted" => PayOf(v)' \in chain'
      BY DEF Linked
    <2>1. CASE v = w
      <3>1. stage'[w] = g
        BY <1>a, <1>2 DEF STypeOK
      <3>2. QED BY <2>1, <3>1, <1>1, <1>2, <1>a DEF Linked, InFlight
    <2>2. CASE v # w
      BY <2>2, <1>1, <1>2, <1>a DEF Linked, InFlight
    <2>3. QED BY <2>1, <2>2
  <1>7. OneOwner'
    BY <1>1, <1>2, <1>a DEF OneOwner, Owns
  <1>8. CompletedOnChain'
    BY <1>2, <1>a DEF CompletedOnChain, Settled
  <1>9. QED BY <1>3, <1>5, <1>6, <1>7, <1>8 DEF GInv

-----------------------------------------------------------------------------
\* The queue gives worker w a request to settle, or none.
Moves(w) ==
  /\ \A v \in Workers : v # w => current'[v] = current[v]
  /\ \/ current'[w] \in Requests /\ Begin(w, current'[w])
     \/ current'[w] = NoRequest /\ Rest(w)

LEMMA MovesFacts ==
  ASSUME STypeOK, NEW w \in Workers, Moves(w)
  PROVE  /\ STypeOK' /\ UNCHANGED <<row, orphans, chain>>
         /\ \A v \in Workers : v # w =>
              /\ stage'[v] = stage[v] /\ rid'[v] = rid[v] /\ signer'[v] = signer[v]
              /\ current'[v] = current[v]
         /\ \/ /\ current'[w] \in Requests
               /\ stage'[w] = IF Settled(Pay[current'[w]]) THEN "settled" ELSE "verifying"
               /\ rid'[w] = IF row[Pay[current'[w]]] = NoRow THEN NoId
                            ELSE row[Pay[current'[w]]].id
            \/ current'[w] = NoRequest /\ stage'[w] = "idle" /\ rid'[w] = NoId
  <1>1. CASE current'[w] \in Requests /\ Begin(w, current'[w])
    <2> DEFINE p == Pay[current'[w]]
               s == IF Settled(p) THEN "settled" ELSE "verifying"
               i == IF row[p] = NoRow THEN NoId ELSE row[p].id
    <2>1. /\ stage' = [stage EXCEPT ![w] = s]
          /\ rid' = [rid EXCEPT ![w] = i]
          /\ signer' = [signer EXCEPT ![w] = NoWorker]
          /\ UNCHANGED <<row, orphans, chain>>
      BY <1>1 DEF Begin, Goto
    <2>2. s \in Stages
      BY DEF Stages
    <2>3. i \in Ids \cup {NoId}
      BY <1>1, SettlementAssumption DEF STypeOK, Rows
    <2> HIDE DEF s, i
    <2>4. STypeOK'
      BY <2>1, <2>2, <2>3 DEF STypeOK
    <2>5. stage'[w] = s /\ rid'[w] = i
      BY <2>1 DEF STypeOK
    <2>6. \A v \in Workers : v # w =>
              stage'[v] = stage[v] /\ rid'[v] = rid[v] /\ signer'[v] = signer[v]
      BY <2>1 DEF STypeOK
    <2>7. QED BY <1>1, <2>1, <2>4, <2>5, <2>6 DEF Moves, s, i
  <1>2. CASE current'[w] = NoRequest /\ Rest(w)
    <2>1. /\ stage' = [stage EXCEPT ![w] = "idle"]
          /\ rid' = [rid EXCEPT ![w] = NoId]
          /\ signer' = [signer EXCEPT ![w] = NoWorker]
          /\ UNCHANGED <<row, orphans, chain>>
      BY <1>2 DEF Rest, Goto
    <2>2. STypeOK'
      BY <2>1 DEF STypeOK, Stages
    <2>3. QED BY <1>2, <2>1, <2>2 DEF Moves, STypeOK
  <1>3. QED BY <1>1, <1>2 DEF Moves

LEMMA MovesGInv ==
  ASSUME GInv, QInv', NEW w \in Workers, Moves(w)
  PROVE  GInv'
  <1>a. STypeOK /\ Linked /\ OneOwner /\ CompletedOnChain
    BY DEF GInv
  <1>1. /\ STypeOK' /\ UNCHANGED <<row, orphans, chain>>
        /\ \A v \in Workers : v # w =>
              /\ stage'[v] = stage[v] /\ rid'[v] = rid[v] /\ signer'[v] = signer[v]
              /\ current'[v] = current[v]
        /\ \/ /\ current'[w] \in Requests
              /\ stage'[w] = IF Settled(Pay[current'[w]]) THEN "settled" ELSE "verifying"
              /\ rid'[w] = IF row[Pay[current'[w]]] = NoRow THEN NoId
                           ELSE row[Pay[current'[w]]].id
           \/ current'[w] = NoRequest /\ stage'[w] = "idle" /\ rid'[w] = NoId
    BY <1>a, MovesFacts
  <1>2. Linked'
    <2> SUFFICES ASSUME NEW v \in Workers
                 PROVE  /\ stage'[v] = "idle" <=> ~Busy(v)'
                        /\ InFlight(v)' => rid'[v] \in Ids
                        /\ stage'[v] = "accepted" => PayOf(v)' \in chain'
      BY DEF Linked
    <2>1. CASE v = w
      BY <2>1, <1>1, QueueAssumption DEF Busy, InFlight
    <2>2. CASE v # w
      BY <2>2, <1>1, <1>a DEF Linked, Busy, InFlight, PayOf
    <2>3. QED BY <2>1, <2>2
  <1>3. OneOwner'
    <2>1. \A i \in Ids, q \in Payments : Owns(i, q)' => Owns(i, q)
      <3> SUFFICES ASSUME NEW i \in Ids, NEW q \in Payments, Owns(i, q)'
                   PROVE  Owns(i, q)
        OBVIOUS
      <3>1. CASE \E v \in Workers : Busy(v)' /\ rid'[v] = i /\ PayOf(v)' = q
        <4>1. PICK v \in Workers : Busy(v)' /\ rid'[v] = i /\ PayOf(v)' = q
          BY <3>1
        <4>2. CASE v # w
          <5>1. current'[v] = current[v] /\ rid'[v] = rid[v]
            BY <4>2, <1>1
          <5>2. Busy(v) /\ rid[v] = i /\ PayOf(v) = q
            BY <4>1, <5>1 DEF Busy, PayOf
          <5>3. QED BY <5>2 DEF Owns
        <4>3. CASE v = w
          <5>1. Pay[current'[w]] = q /\ i # NoId
            BY <4>1, <4>3, SettlementAssumption DEF PayOf
          <5>2. row[q] # NoRow /\ row[q].id = i
            BY <4>1, <4>3, <5>1, <1>1
          <5>3. QED BY <5>2 DEF Owns
        <4>4. QED BY <4>2, <4>3
      <3>2. CASE \/ row'[q] # NoRow /\ row'[q].id = i
                 \/ \E o \in orphans' : o.id = i /\ o.pay = q
        BY <3>2, <1>1 DEF Owns
      <3>3. QED BY <3>1, <3>2 DEF Owns
    <2>2. QED BY <2>1, <1>a DEF OneOwner
  <1>4. CompletedOnChain'
    BY <1>1, <1>a DEF CompletedOnChain, Settled
  <1>5. QED BY <1>1, <1>2, <1>3, <1>4 DEF GInv

\* What the queue's steps are, seen from the settler.
LEMMA ArriveMoves ==
  ASSUME GInv, NEW r \in Requests, Arrive(r)
  PROVE  \/ /\ UNCHANGED <<svars, current>>
            /\ call[r] # "waiting" /\ call' = [call EXCEPT ![r] = "saturated"]
         \/ /\ call[r] # "waiting" /\ call' = [call EXCEPT ![r] = "waiting"]
            /\ \/ UNCHANGED <<svars, current>>
               \/ \E w \in Workers : Moves(w)
  <1>1. CASE Saturated(r) /\ UNCHANGED svars
    BY <1>1 DEF Saturated
  <1>2. CASE \E w \in Workers :
               Enqueue(r, w) /\ IF Busy(w) THEN UNCHANGED svars ELSE Begin(w, r)
    <2> PICK w \in Workers :
               Enqueue(r, w) /\ IF Busy(w) THEN UNCHANGED svars ELSE Begin(w, r)
      BY <1>2
    <2>1. call[r] # "waiting" /\ call' = [call EXCEPT ![r] = "waiting"]
      BY DEF Enqueue
    <2>2. CASE Busy(w)
      BY <2>1, <2>2 DEF Enqueue
    <2>3. CASE ~Busy(w)
      <3>1. current' = [current EXCEPT ![w] = r] /\ Begin(w, r)
        BY <2>3 DEF Enqueue
      <3>2. Moves(w)
        BY <3>1 DEF Moves, GInv, QInv, TypeOK
      <3>3. QED BY <2>1, <3>2
    <2>4. QED BY <2>2, <2>3
  <1>3. QED BY <1>1, <1>2 DEF Arrive

LEMMA ReturnMoves ==
  ASSUME GInv, NEW w \in Workers, Return(w)
  PROVE  /\ Busy(w)
         /\ \/ UNCHANGED <<svars, current, call>>
            \/ /\ Moves(w)
               /\ call' = [call EXCEPT ![current[w]] =
                            IF stage[w] = "settled" THEN "ok" ELSE "failed"]
  <1>a. TypeOK
    BY DEF GInv, QInv
  <1>1. Busy(w) /\ AttemptReturns(w, OutcomeOf(w))
    BY DEF Return, AttemptReturns, Attempting
  <1>2. CASE ~GivesUp(w, OutcomeOf(w))
    BY <1>1, <1>2 DEF Return, AttemptReturns
  <1>3. CASE GivesUp(w, OutcomeOf(w))
    <2>1. (OutcomeOf(w) = "success") <=> (stage[w] = "settled")
      BY DEF OutcomeOf, At, Return
    <2>2. Finish(w, IF stage[w] = "settled" THEN "ok" ELSE "failed")
      BY <1>1, <1>3, <2>1 DEF AttemptReturns
    <2>3. call' = [call EXCEPT ![current[w]] = IF stage[w] = "settled" THEN "ok" ELSE "failed"]
      BY <2>2 DEF Finish
    <2>4. CASE queue[w] # <<>>
      <3>1. current' = [current EXCEPT ![w] = Head(queue[w])] /\ Begin(w, Head(queue[w]))
        BY <2>2, <2>4, <1>3 DEF Finish, ProcessNext, Return
      <3>2. Head(queue[w]) \in Requests
        BY <2>4, <1>a DEF TypeOK
      <3>3. Moves(w)
        BY <3>1, <3>2, <1>a DEF Moves, TypeOK
      <3>4. QED BY <3>3, <2>3, <1>1
    <2>5. CASE queue[w] = <<>>
      <3>1. current' = [current EXCEPT ![w] = NoRequest] /\ Rest(w)
        BY <2>2, <2>5, <1>3 DEF Finish, ProcessNext, Return
      <3>2. Moves(w)
        BY <3>1, <1>a DEF Moves, TypeOK
      <3>3. QED BY <3>2, <2>3, <1>1
    <2>6. QED BY <2>4, <2>5
  <1>4. QED BY <1>2, <1>3

LEMMA RetryMoves ==
  ASSUME GInv, NEW w \in Workers, Retry(w)
  PROVE  Moves(w) /\ UNCHANGED <<current, call>>
  <1>1. asleep[w] /\ Begin(w, current[w]) /\ UNCHANGED <<current, call>>
    BY DEF Retry, Wake
  <1>2. current[w] \in Requests
    BY <1>1 DEF GInv, QInv, QIdle, TypeOK, Busy
  <1>3. QED BY <1>1, <1>2 DEF Moves

LEMMA SameGInv == ASSUME GInv, QInv', UNCHANGED <<svars, current>> PROVE GInv'
  <1> USE DEF svars
  <1>1. STypeOK' /\ Linked'
    BY DEF GInv, STypeOK, Linked, Busy, InFlight, PayOf
  <1>2. OneOwner'
    BY DEF GInv, OneOwner, Owns, Busy, PayOf
  <1>3. CompletedOnChain'
    BY DEF GInv, CompletedOnChain, Settled
  <1>4. QED BY <1>1, <1>2, <1>3 DEF GInv

LEMMA CrashGInv == ASSUME GInv, Crash PROVE GInv'
  <1>1. QInv'
    BY CrashQInv DEF GInv
  <1>2. /\ \A w \in Workers : stage'[w] = "idle" /\ rid'[w] = NoId /\ current'[w] = NoRequest
        /\ orphans' = {} /\ chain' = chain
        /\ \A p \in Payments : row'[p] \in {row[p], NoRow}
    BY DEF Crash, Reopened
  <1>3. STypeOK'
    BY DEF Crash, Reopened, GInv, STypeOK, Stages
  <1>4. Linked'
    BY <1>2 DEF Linked, Busy, InFlight
  <1>5. OneOwner'
    <2>1. \A i \in Ids, q \in Payments : Owns(i, q)' => Owns(i, q)
      BY <1>2 DEF Owns, Busy
    <2>2. QED BY <2>1 DEF GInv, OneOwner
  <1>6. CompletedOnChain'
    BY <1>2 DEF GInv, CompletedOnChain, Settled
  <1>7. QED BY <1>1, <1>3, <1>4, <1>5, <1>6 DEF GInv

-----------------------------------------------------------------------------
\* GInv is inductive, whatever the backend and the routing.
THEOREM SettlementInv == SSpec => []GInv
  <1>1. SInit => GInv
    BY InitGInv
  <1>2. GInv /\ [SNext]_vars => GInv'
    <2> SUFFICES ASSUME GInv, [SNext]_vars PROVE GInv'
      OBVIOUS
    <2>0. QInv'
      BY StepQInv DEF GInv
    <2>1. CASE \E r \in Requests : Arrive(r)
      BY <2>0, <2>1, ArriveMoves, MovesGInv, SameGInv
    <2>2. CASE \E w \in Workers : SettlerStep(w)
      BY <2>2, VerifyGInv, UpdateGInv, NetworkGInv DEF SettlerStep
    <2>3. CASE \E w \in Workers : Return(w)
      BY <2>0, <2>3, ReturnMoves, MovesGInv, SameGInv
    <2>4. CASE \E w \in Workers : Retry(w)
      BY <2>0, <2>4, RetryMoves, MovesGInv
    <2>5. CASE Crash
      BY <2>5, CrashGInv
    <2>6. CASE UNCHANGED vars
      BY <2>0, <2>6, SameGInv DEF vars, qvars
    <2>7. QED
      BY <2>1, <2>2, <2>3, <2>4, <2>5, <2>6 DEF SNext
  <1>3. QED
    BY <1>1, <1>2, PTL DEF SSpec

\* The variables of the settlement system keep their types.
THEOREM SettlementTypeSafe == SSpec => []STypeOK
  <1>1. GInv => STypeOK
    BY DEF GInv
  <1>2. QED BY <1>1, SettlementInv, PTL

\* A record, indexed or orphaned, says "completed" only for a payment the
\* network took, with either backend, however workers race, replies are lost or
\* the process restarts.
THEOREM CompletedSafe == SSpec => []CompletedOnChain
  <1>1. GInv => CompletedOnChain
    BY DEF GInv
  <1>2. QED BY <1>1, SettlementInv, PTL

-----------------------------------------------------------------------------
(* One worker per payment.                                                 *)

\* What worker w knows about its record and its signer at each stage.
WorkerOK(w) ==
  /\ stage[w] = "verifying" => ~Settled(PayOf(w))
  /\ InFlight(w) => row[PayOf(w)] = [id |-> rid[w], status |-> "pending"]
  /\ stage[w] = "settled" => Settled(PayOf(w))
  /\ stage[w] \in {"sending", "accepted"} => signer[w] \in {w, NoWorker}

PInv ==
  /\ \A w \in Workers : WorkerOK(w)
  /\ SuccessIsRecorded

\* Two busy workers never settle the same payment.
LEMMA OneWorkerPerPayment ==
  ASSUME Pinned, QInv, NEW v \in Workers, NEW w \in Workers, Busy(v), Busy(w), v # w
  PROVE  PayOf(v) # PayOf(w)
  <1> DEFINE r == current[v]
             s == current[w]
  <1>1. r \in Requests /\ s \in Requests
    BY DEF QInv, TypeOK, Busy
  <1>2. Routed(r, v) /\ Routed(s, w)
    BY DEF QInv, QRouted
  <1>3. SUFFICES ASSUME Pay[r] = Pay[s] PROVE FALSE
    BY DEF PayOf
  <1>4. Named[r] = Named[s] /\ Pool[r] = Pool[s]
    BY <1>1, <1>3 DEF Pinned
  <1>5. CASE Named[r] # NoWorker
    BY <1>2, <1>4, <1>5 DEF Routed
  <1>6. CASE Named[r] = NoWorker
    <2>1. PICK u \in Workers : Pool[r] = {u}
      BY <1>1, <1>6 DEF Pinned
    <2>2. QED BY <2>1, <1>2, <1>4 DEF Routed
  <1>7. QED BY <1>5, <1>6

\* What a step of one worker writes does not concern the others.
LEMMA OthersOK ==
  ASSUME Pinned, GInv, PInv, NEW w \in Workers, SettlerStep(w),
         \A q \in Payments : q # PayOf(w) => row'[q] = row[q]
  PROVE  \A v \in Workers : v # w => WorkerOK(v)'
  <1> SUFFICES ASSUME NEW v \in Workers, v # w PROVE WorkerOK(v)'
    OBVIOUS
  <1>1. /\ Busy(w) /\ stage'[v] = stage[v] /\ rid'[v] = rid[v] /\ signer'[v] = signer[v]
        /\ PayOf(v)' = PayOf(v)
    BY SettlerFrame
  <1>2. CASE ~Busy(v)
    BY <1>1, <1>2 DEF GInv, Linked, WorkerOK, InFlight
  <1>3. CASE Busy(v)
    <2>1. PayOf(v) # PayOf(w)
      BY <1>1, <1>3, OneWorkerPerPayment DEF GInv
    <2>2. PayOf(v) \in Payments
      BY <1>3, SettlementAssumption DEF GInv, QInv, TypeOK, Busy, PayOf
    <2>3. row'[PayOf(v)] = row[PayOf(v)]
      BY <2>1, <2>2
    <2>4. QED BY <1>1, <2>3 DEF PInv, WorkerOK, InFlight, Settled
  <1>4. QED BY <1>2, <1>3

\* What a step of the settler does to the row of its payment and to the chain,
\* when nobody else is settling it.
LEMMA SettlerRow ==
  ASSUME Pinned, GInv, PInv, NEW w \in Workers, SettlerStep(w),
         NEW p \in Payments, p = PayOf(w)
  PROVE  /\ \A q \in Payments : q # p => row'[q] = row[q]
         /\ WorkerOK(w)'
         /\ \/ /\ ReplyArrives(w) /\ ~Settled(p) /\ Settled(p)'
               /\ p \in chain /\ chain' = chain
            \/ NetworkAccepts(w) /\ row' = row
            \/ ~ReplyArrives(w) /\ chain' = chain /\ (Settled(p)' <=> Settled(p))
  <1>a. STypeOK /\ WorkerOK(w)
    BY DEF GInv, PInv
  <1>1. Busy(w) /\ p \in Payments /\ PayOf(w)' = p
    BY SettlerFrame
  <1>2. CASE VerifyValid(w) \/ VerifyInvalid(w)
    <2>1. PICK id \in RecordIds(w), st \in {"pending", "failed"},
               g \in {"signing", "failed", "stale"} :
            /\ rid' = [rid EXCEPT ![w] = id]
            /\ Save(p, id, st)
            /\ stage' = [stage EXCEPT ![w] = g]
            /\ g = "signing" => st = "pending"
            /\ stage[w] = "verifying"
            /\ UNCHANGED <<signer, chain>>
      BY <1>2 DEF VerifyValid, VerifyInvalid, Goto, At
    <2>2. id \in Ids /\ st \in Statuses
      BY <2>1, <1>1, <1>a, RecordIdFacts DEF Statuses
    <2>3. row'[p] = [id |-> id, status |-> st] /\ \A q \in Payments : q # p => row'[q] = row[q]
      BY <2>1, <2>2, <1>1, <1>a, SaveFacts
    <2>4. stage'[w] = g /\ rid'[w] = id
      BY <2>1, <1>a DEF STypeOK
    <2>5. ~Settled(p) /\ ~Settled(p)'
      BY <2>1, <2>3, <1>a, <1>1 DEF WorkerOK, Settled
    <2>6. WorkerOK(w)'
      BY <2>1, <2>3, <2>4, <2>5, <1>1 DEF WorkerOK, InFlight
    <2>7. ~ReplyArrives(w)
      BY <2>1 DEF ReplyArrives, At
    <2>8. QED BY <2>1, <2>3, <2>5, <2>6, <2>7, <1>1
  <1>3. CASE PrepareFails(w) \/ BroadcastFails(w) \/ ReplyArrives(w)
    <2>1. PICK st \in {"completed", "failed"} :
            /\ UpdateStatus(p, rid[w], st)
            /\ stage' = [stage EXCEPT ![w] = IF st = "completed" THEN "settled" ELSE "failed"]
            /\ st = "completed" <=> ReplyArrives(w)
            /\ InFlight(w)
            /\ UNCHANGED <<signer, rid, chain>>
      <3>1. CASE ReplyArrives(w)
        BY <3>1 DEF ReplyArrives, Goto, At, InFlight
      <3>2. CASE ~ReplyArrives(w)
        BY <1>3, <3>2 DEF PrepareFails, BroadcastFails, Goto, At, InFlight
      <3>3. QED BY <3>1, <3>2
    <2>2. rid[w] \in Ids /\ st \in Statuses
      BY <2>1 DEF GInv, Linked, Statuses
    <2>3. row[p] = [id |-> rid[w], status |-> "pending"] /\ row[p] # NoRow /\ row[p].id = rid[w]
      BY <2>1, <2>2, <1>a, SettlementAssumption DEF WorkerOK
    <2>4. row'[p] = [id |-> rid[w], status |-> st] /\ \A q \in Payments : q # p => row'[q] = row[q]
      BY <2>1, <2>2, <2>3, <1>1, <1>a, UpdateFacts
    <2>5. row'[p] # NoRow /\ row'[p].status = st
      BY <2>2, <2>4, SettlementAssumption DEF Statuses
    <2>6. ~Settled(p) /\ (Settled(p)' <=> st = "completed")
      BY <2>3, <2>5, <1>1 DEF Settled
    <2>7. stage'[w] = IF st = "completed" THEN "settled" ELSE "failed"
      BY <2>1, <1>a DEF STypeOK
    <2>8. WorkerOK(w)'
      BY <2>6, <2>7, <1>1 DEF WorkerOK, InFlight
    <2>9. ReplyArrives(w) => p \in chain
      BY DEF ReplyArrives, At, GInv, Linked
    <2>10. QED BY <2>1, <2>4, <2>6, <2>8, <2>9, <1>1
  <1>4. CASE NetworkAccepts(w)
    <2>1. row' = row /\ UNCHANGED <<rid, signer>> /\ stage[w] = "sending"
          /\ stage' = [stage EXCEPT ![w] = "accepted"]
      BY <1>4 DEF NetworkAccepts, At, Goto
    <2>2. stage'[w] = "accepted"
      BY <2>1, <1>a DEF STypeOK
    <2>3. WorkerOK(w)'
      BY <2>1, <2>2, <1>1, <1>a DEF WorkerOK, InFlight
    <2>4. QED BY <2>1, <2>3, <1>4
  <1>5. CASE Sign(w)
    <2>1. row' = row /\ chain' = chain /\ UNCHANGED rid /\ stage[w] = "signing"
          /\ stage' = [stage EXCEPT ![w] = "sending"]
      BY <1>5 DEF Sign, Signers, At, Goto
    <2>2. current[w] \in Requests /\ Routed(current[w], w)
      BY <1>1 DEF GInv, QInv, TypeOK, QRouted, Busy
    <2>3. PICK s \in (IF Named[current[w]] # NoWorker THEN {Named[current[w]]}
                     ELSE Pool[current[w]] \cup {NoWorker}) :
            signer' = [signer EXCEPT ![w] = s]
      BY <1>5 DEF Sign, Signers
    <2>4. s \in {w, NoWorker}
      BY <2>2, <2>3 DEF Routed, Pinned
    <2>5. stage'[w] = "sending" /\ signer'[w] = s
      BY <2>1, <2>3, <1>a DEF STypeOK
    <2>6. WorkerOK(w)'
      BY <2>1, <2>4, <2>5, <1>1, <1>a DEF WorkerOK, InFlight
    <2>7. ~ReplyArrives(w)
      BY <2>1 DEF ReplyArrives, At
    <2>8. QED BY <2>1, <2>6, <2>7, <1>1 DEF Settled
  <1>6. CASE StorageThrows(w)
    <2>1. PICK g \in {"failed", "stale"} :
            row' = row /\ chain' = chain /\ stage' = [stage EXCEPT ![w] = g]
      BY <1>6 DEF StorageThrows, Goto
    <2>2. stage'[w] = g
      BY <2>1, <1>a DEF STypeOK
    <2>3. WorkerOK(w)'
      BY <2>2 DEF WorkerOK, InFlight
    <2>4. ReplyArrives(w) => stage'[w] = "settled"
      BY <1>a DEF ReplyArrives, Goto, STypeOK
    <2>5. ~ReplyArrives(w)
      BY <2>2, <2>4
    <2>6. QED BY <2>1, <2>3, <2>5, <1>1 DEF Settled
  <1>7. QED BY <1>2, <1>3, <1>4, <1>5, <1>6 DEF SettlerStep

\* A recorded payment stays recorded, and success is told only of those.
LEMMA SettlerPInv ==
  ASSUME Pinned, GInv, PInv, NEW w \in Workers, SettlerStep(w)
  PROVE  /\ PInv'
         /\ \A q \in Payments : Settled(q) => Settled(q)'
  <1> PICK p \in Payments : p = PayOf(w)
    BY SettlerFrame
  <1>1. /\ \A q \in Payments : q # p => row'[q] = row[q]
        /\ WorkerOK(w)'
        /\ Settled(p) => Settled(p)'
    <2>1. row' = row => (Settled(p)' <=> Settled(p))
      BY DEF Settled
    <2>2. QED BY <2>1, SettlerRow
  <1>2. \A v \in Workers : WorkerOK(v)'
    BY <1>1, OthersOK
  <1>4. \A q \in Payments : Settled(q) => Settled(q)'
    BY <1>1 DEF Settled
  <1>5. UNCHANGED call
    BY SettlerQueue DEF qvars
  <1>6. SuccessIsRecorded'
    BY <1>4, <1>5, SettlementAssumption DEF PInv, SuccessIsRecorded
  <1>7. QED BY <1>2, <1>4, <1>6 DEF PInv

LEMMA MovesPInv ==
  ASSUME GInv, PInv, NEW w \in Workers, Moves(w)
  PROVE  \A v \in Workers : WorkerOK(v)'
  <1>1. /\ UNCHANGED <<row, orphans, chain>>
        /\ \A v \in Workers : v # w =>
              /\ stage'[v] = stage[v] /\ rid'[v] = rid[v] /\ signer'[v] = signer[v]
              /\ current'[v] = current[v]
        /\ \/ /\ current'[w] \in Requests
              /\ stage'[w] = IF Settled(Pay[current'[w]]) THEN "settled" ELSE "verifying"
           \/ current'[w] = NoRequest /\ stage'[w] = "idle"
    BY MovesFacts DEF GInv
  <1> TAKE v \in Workers
  <1>2. CASE v # w
    BY <1>1, <1>2 DEF PInv, WorkerOK, InFlight, PayOf, Settled
  <1>3. CASE v = w
    BY <1>1, <1>3 DEF WorkerOK, InFlight, PayOf, Settled
  <1>4. QED BY <1>2, <1>3

\* The steps that are not the settler's leave the rows alone, with SQLite.
LEMMA OtherPInv ==
  ASSUME Backend = "sqlite", GInv, PInv, [SNext]_vars,
         ~\E w \in Workers : SettlerStep(w)
  PROVE  PInv' /\ row' = row /\ chain' = chain
  <1>a. \A q \in Payments : row' = row => (Settled(q)' <=> Settled(q))
    BY DEF Settled
  <1>b. TypeOK /\ \A r \in Requests : Pay[r] \in Payments
    BY SettlementAssumption DEF GInv, QInv
  <1>c. UNCHANGED <<svars, current>> => \A v \in Workers : WorkerOK(v)'
    BY DEF svars, PInv, WorkerOK, InFlight, PayOf, Settled
  <1>d. \A w \in Workers : Moves(w) =>
           row' = row /\ chain' = chain /\ \A v \in Workers : WorkerOK(v)'
    BY MovesFacts, MovesPInv DEF GInv
  <1>1. CASE \E r \in Requests : Arrive(r)
    <2> PICK r \in Requests : Arrive(r)
      BY <1>1
    <2>1. row' = row /\ chain' = chain /\ \A v \in Workers : WorkerOK(v)'
      BY <1>c, <1>d, ArriveMoves DEF svars
    <2>2. \A q \in Requests : call'[q] = "ok" => call[q] = "ok"
      BY <1>b, ArriveMoves DEF TypeOK
    <2>3. SuccessIsRecorded'
      BY <1>a, <1>b, <2>1, <2>2 DEF PInv, SuccessIsRecorded
    <2>4. QED BY <2>1, <2>3 DEF PInv
  <1>2. CASE \E w \in Workers : Return(w)
    <2> PICK w \in Workers : Return(w)
      BY <1>2
    <2>1. row' = row /\ chain' = chain /\ \A v \in Workers : WorkerOK(v)'
      BY <1>c, <1>d, ReturnMoves DEF svars
    <2>2. \A q \in Requests : call'[q] = "ok" =>
             call[q] = "ok" \/ (q = current[w] /\ stage[w] = "settled")
      BY <1>b, ReturnMoves DEF TypeOK
    <2>3. stage[w] = "settled" => Settled(Pay[current[w]])
      BY DEF PInv, WorkerOK, PayOf
    <2>4. SuccessIsRecorded'
      BY <1>a, <1>b, <2>1, <2>2, <2>3 DEF PInv, SuccessIsRecorded
    <2>5. QED BY <2>1, <2>4 DEF PInv
  <1>3. CASE \E w \in Workers : Retry(w)
    <2>1. UNCHANGED call /\ row' = row /\ chain' = chain /\ \A v \in Workers : WorkerOK(v)'
      BY <1>3, <1>d, RetryMoves
    <2>2. SuccessIsRecorded'
      BY <1>a, <1>b, <2>1 DEF PInv, SuccessIsRecorded
    <2>3. QED BY <2>1, <2>2 DEF PInv
  <1>4. CASE Crash
    <2>1. /\ row' = row /\ chain' = chain
          /\ \A v \in Workers : stage'[v] = "idle"
          /\ \A q \in Requests : call'[q] = "ok" => call[q] = "ok"
      BY <1>4 DEF Crash, Reopened
    <2>2. \A v \in Workers : WorkerOK(v)'
      BY <2>1 DEF WorkerOK, InFlight
    <2>3. SuccessIsRecorded'
      BY <1>a, <1>b, <2>1 DEF PInv, SuccessIsRecorded
    <2>4. QED BY <2>1, <2>2, <2>3 DEF PInv
  <1>5. CASE UNCHANGED vars
    <2>1. UNCHANGED <<svars, current, call>> /\ row' = row /\ chain' = chain
      BY <1>5 DEF vars, qvars, svars
    <2>2. SuccessIsRecorded'
      BY <1>a, <1>b, <2>1 DEF PInv, SuccessIsRecorded
    <2>3. QED BY <2>1, <2>2, <1>c DEF PInv
  <1>6. QED BY <1>1, <1>2, <1>3, <1>4, <1>5 DEF SNext

-----------------------------------------------------------------------------
\* PInv is inductive relative to GInv.
THEOREM PinnedInv ==
  ASSUME Pinned, Backend = "sqlite"
  PROVE  SSpec => []PInv
  <1>1. SInit => PInv
    BY DEF SInit, Init, PInv, WorkerOK, InFlight, SuccessIsRecorded
  <1>2. GInv /\ PInv /\ [SNext]_vars => PInv'
    BY SettlerPInv, OtherPInv
  <1>3. QED
    BY <1>1, <1>2, SettlementInv, PTL DEF SSpec

\* When every request of a payment goes to one worker, that worker's pending
\* record is under its id and pending until it updates it.
THEOREM OwnRecordSafe ==
  ASSUME Pinned, Backend = "sqlite"
  PROVE  SSpec => []OwnRecord
  <1>1. PInv => OwnRecord
    BY DEF PInv, WorkerOK, OwnRecord
  <1>2. QED BY <1>1, PinnedInv, PTL

\* ... a caller that was told of success finds the payment recorded, for ever.
THEOREM SuccessSafe ==
  ASSUME Pinned, Backend = "sqlite"
  PROVE  SSpec => []SuccessIsRecorded
  <1>1. PInv => SuccessIsRecorded
    BY DEF PInv
  <1>2. QED BY <1>1, PinnedInv, PTL

\* ... no relayer signs two transactions that are on their way at once.
THEOREM RelayerSafe ==
  ASSUME Pinned, Backend = "sqlite"
  PROVE  SSpec => []OneSettlementPerRelayer
  <1>1. PInv => OneSettlementPerRelayer
    BY QueueAssumption DEF PInv, WorkerOK, OneSettlementPerRelayer
  <1>2. QED BY <1>1, PinnedInv, PTL

\* ... and a payment recorded as completed stays so.
THEOREM KeptSafe ==
  ASSUME Pinned, Backend = "sqlite"
  PROVE  SSpec => CompletedKept
  <1>1. GInv /\ PInv /\ [SNext]_vars => [\A p \in Payments : Settled(p) => Settled(p)']_vars
    <2> SUFFICES ASSUME GInv, PInv, [SNext]_vars
                 PROVE  \A p \in Payments : Settled(p) => Settled(p)'
      OBVIOUS
    <2>1. CASE \E w \in Workers : SettlerStep(w)
      BY <2>1, SettlerPInv
    <2>2. CASE ~\E w \in Workers : SettlerStep(w)
      BY <2>2, OtherPInv DEF Settled
    <2>3. QED BY <2>1, <2>2
  <1>2. QED
    BY <1>1, SettlementInv, PinnedInv, PTL DEF SSpec, CompletedKept

-----------------------------------------------------------------------------
(* One record per payment, with either backend.                            *)

\* A worker that waits for the verifier remembers the record its payment has.
Remembers(w) ==
  stage[w] = "verifying" =>
    rid[w] = IF row[PayOf(w)] = NoRow THEN NoId ELSE row[PayOf(w)].id

Filed == {p \in Payments : row[p] # NoRow}

BooksInv ==
  /\ \A w \in Workers : Remembers(w)
  /\ orphans = {}
  /\ IsFiniteSet(Filed) /\ IsFiniteSet(chain)

\* The record of the worker's payment is replaced under its own id or made.
LEMMA SavesItsOwn ==
  ASSUME STypeOK, BooksInv, NEW w \in Workers, stage[w] = "verifying", PayOf(w) \in Payments,
         NEW id \in RecordIds(w), NEW st, Save(PayOf(w), id, st)
  PROVE  orphans' = {}
  <1>1. PICK p \in Payments : p = PayOf(w)
    OBVIOUS
  <1>2. row[p] \in Rows \cup {NoRow}
    BY DEF STypeOK
  <1>3. rid[w] = IF row[p] = NoRow THEN NoId ELSE row[p].id
    BY <1>1 DEF BooksInv, Remembers
  <1>4. row[p] = NoRow \/ row[p].id = id
    <2>1. SUFFICES ASSUME row[p] # NoRow PROVE row[p].id = id
      OBVIOUS
    <2>2. rid[w] = row[p].id /\ row[p].id \in Ids
      BY <1>2, <1>3, <2>1 DEF Rows
    <2>3. rid[w] # NoId
      BY <2>2, SettlementAssumption
    <2>4. id = rid[w]
      BY <2>3 DEF RecordIds
    <2>5. QED BY <2>2, <2>4
  <1>5. {y \in {row[p]} : y # NoRow /\ y.id # id} = {}
    BY <1>4
  <1>6. {[pay |-> p, id |-> row[p].id, status |-> row[p].status] :
           x \in {y \in {row[p]} : y # NoRow /\ y.id # id}} = {}
    BY <1>5
  <1>7. {o \in orphans : o.id # id} = {}
    BY DEF BooksInv
  <1>8. QED BY <1>1, <1>6, <1>7 DEF Save

\* A step of the settler files at most the payment of its worker.
LEMMA SettlerBooks ==
  ASSUME Pinned, GInv, BooksInv, NEW w \in Workers, SettlerStep(w)
  PROVE  BooksInv'
  <1>a. STypeOK /\ QInv
    BY DEF GInv
  <1>1. /\ Busy(w) /\ PayOf(w) \in Payments
        /\ \A v \in Workers : v # w => stage'[v] = stage[v] /\ rid'[v] = rid[v]
        /\ \A v \in Workers : Busy(v)' = Busy(v) /\ PayOf(v)' = PayOf(v)
    BY SettlerFrame
  <1>2. PICK p \in Payments : p = PayOf(w)
    BY <1>1
  <1>3. /\ orphans' = {} /\ stage'[w] # "verifying"
        /\ \A q \in Payments : q # p => row'[q] = row[q]
        /\ chain' \subseteq chain \cup {p}
    <2>1. CASE VerifyValid(w) \/ VerifyInvalid(w)
      <3>1. PICK id \in RecordIds(w), st \in {"pending", "failed"},
                 g \in {"signing", "failed", "stale"} :
              /\ Save(p, id, st) /\ stage' = [stage EXCEPT ![w] = g]
              /\ stage[w] = "verifying" /\ chain' = chain
        BY <1>2, <2>1 DEF VerifyValid, VerifyInvalid, Goto, At
      <3>2. id \in Ids /\ st \in Statuses
        BY <1>1, <1>a, <3>1, RecordIdFacts DEF Statuses
      <3>3. \A q \in Payments : q # p => row'[q] = row[q]
        BY <1>a, <3>1, <3>2, SaveFacts
      <3>4. orphans' = {}
        BY <1>a, <1>2, <3>1, SavesItsOwn
      <3>5. stage'[w] = g
        BY <1>a, <3>1 DEF STypeOK
      <3>6. QED BY <3>1, <3>3, <3>4, <3>5
    <2>2. CASE PrepareFails(w) \/ BroadcastFails(w) \/ ReplyArrives(w)
      <3>1. PICK st \in {"completed", "failed"}, g \in {"settled", "failed"} :
              /\ UpdateStatus(p, rid[w], st) /\ stage' = [stage EXCEPT ![w] = g]
              /\ chain' = chain
        BY <1>2, <2>2 DEF PrepareFails, BroadcastFails, ReplyArrives, Goto
      <3>2. orphans' = {}
        BY <3>1 DEF UpdateStatus, BooksInv
      <3>3. \A q \in Payments : q # p => row'[q] = row[q]
        BY <1>a, <3>1 DEF UpdateStatus, STypeOK
      <3>4. stage'[w] = g
        BY <1>a, <3>1 DEF STypeOK
      <3>5. QED BY <3>1, <3>2, <3>3, <3>4
    <2>3. CASE Sign(w) \/ NetworkAccepts(w) \/ StorageThrows(w)
      <3>1. PICK g \in {"sending", "accepted", "failed", "stale"} :
              stage' = [stage EXCEPT ![w] = g] /\ UNCHANGED <<row, orphans>>
        BY <2>3 DEF Sign, NetworkAccepts, StorageThrows, Goto
      <3>2. chain' \subseteq chain \cup {p}
        BY <1>2, <2>3 DEF Sign, NetworkAccepts, StorageThrows
      <3>3. stage'[w] = g
        BY <1>a, <3>1 DEF STypeOK
      <3>4. QED BY <3>1, <3>2, <3>3 DEF BooksInv
    <2>4. QED BY <2>1, <2>2, <2>3 DEF SettlerStep
  <1>4. ASSUME NEW v \in Workers PROVE Remembers(v)'
    <2>1. CASE v = w
      BY <1>3, <2>1 DEF Remembers
    <2>2. CASE v # w /\ stage[v] = "verifying"
      <3>1. Busy(v)
        BY <2>2 DEF GInv, Linked
      <3>2. PayOf(v) # p
        BY <1>a, <1>1, <1>2, <2>2, <3>1, OneWorkerPerPayment
      <3>3. PayOf(v) \in Payments
        BY <1>a, <3>1, SettlementAssumption DEF QInv, TypeOK, Busy, PayOf
      <3>4. row'[PayOf(v)] = row[PayOf(v)] /\ rid'[v] = rid[v] /\ PayOf(v)' = PayOf(v)
        BY <1>1, <1>3, <2>2, <3>2, <3>3
      <3>5. QED BY <2>2, <3>4 DEF BooksInv, Remembers
    <2>3. CASE v # w /\ stage[v] # "verifying"
      BY <1>1, <2>3 DEF Remembers
    <2>4. QED BY <2>1, <2>2, <2>3
  <1>5. IsFiniteSet(Filed')
    <2>1. Filed' \subseteq Filed \cup {p}
      BY <1>3 DEF Filed
    <2>2. IsFiniteSet(Filed \cup {p})
      BY FS_AddElement DEF BooksInv
    <2>3. QED BY <2>1, <2>2, FS_Subset
  <1>6. IsFiniteSet(chain')
    <2>1. IsFiniteSet(chain \cup {p})
      BY FS_AddElement DEF BooksInv
    <2>2. QED BY <1>3, <2>1, FS_Subset
  <1>7. QED BY <1>3, <1>4, <1>5, <1>6 DEF BooksInv

LEMMA MovesBooks ==
  ASSUME GInv, BooksInv, NEW w \in Workers, Moves(w)
  PROVE  BooksInv'
  <1>1. /\ UNCHANGED <<row, orphans, chain>>
        /\ \A v \in Workers : v # w =>
              stage'[v] = stage[v] /\ rid'[v] = rid[v] /\ current'[v] = current[v]
        /\ \/ rid'[w] = IF row[Pay[current'[w]]] = NoRow THEN NoId ELSE row[Pay[current'[w]]].id
           \/ stage'[w] = "idle"
    BY MovesFacts DEF GInv
  <1>2. ASSUME NEW v \in Workers PROVE Remembers(v)'
    <2>1. CASE v = w
      BY <1>1, <2>1 DEF Remembers, PayOf
    <2>2. CASE v # w
      BY <1>1, <2>2 DEF BooksInv, Remembers, PayOf
    <2>3. QED BY <2>1, <2>2
  <1>3. Filed' = Filed
    BY <1>1 DEF Filed
  <1>4. QED BY <1>1, <1>2, <1>3 DEF BooksInv

LEMMA SameBooks == BooksInv /\ UNCHANGED <<svars, current>> => BooksInv'
  <1>1. SUFFICES ASSUME BooksInv, UNCHANGED <<svars, current>> PROVE BooksInv'
    OBVIOUS
  <1>2. UNCHANGED <<stage, rid, row, orphans, chain, current>>
    BY <1>1 DEF svars
  <1>3. \A w \in Workers : Remembers(w)'
    BY <1>1, <1>2 DEF BooksInv, Remembers, PayOf
  <1>4. Filed' = Filed
    BY <1>2 DEF Filed
  <1>5. QED BY <1>1, <1>2, <1>3, <1>4 DEF BooksInv

LEMMA NextBooks == Pinned /\ GInv /\ BooksInv /\ [SNext]_vars => BooksInv'
  <1>1. SUFFICES ASSUME Pinned, GInv, BooksInv, [SNext]_vars PROVE BooksInv'
    OBVIOUS
  <1>2. CASE \E r \in Requests : Arrive(r)
    BY <1>1, <1>2, ArriveMoves, MovesBooks, SameBooks
  <1>3. CASE \E w \in Workers : SettlerStep(w)
    BY <1>1, <1>3, SettlerBooks
  <1>4. CASE \E w \in Workers : Return(w)
    BY <1>1, <1>4, ReturnMoves, MovesBooks, SameBooks
  <1>5. CASE \E w \in Workers : Retry(w)
    BY <1>1, <1>5, RetryMoves, MovesBooks
  <1>6. CASE Crash
    <2>1. /\ \A w \in Workers : stage'[w] = "idle"
          /\ orphans' = {} /\ chain' = chain
          /\ \A p \in Payments : row'[p] \in {row[p], NoRow}
      BY <1>6 DEF Crash, Reopened
    <2>2. Filed' \subseteq Filed
      BY <2>1 DEF Filed
    <2>3. IsFiniteSet(Filed')
      BY <1>1, <2>2, FS_Subset DEF BooksInv
    <2>4. QED BY <1>1, <2>1, <2>3 DEF BooksInv, Remembers
  <1>7. CASE UNCHANGED vars
    BY <1>1, <1>7, SameBooks DEF vars, qvars
  <1>8. QED BY <1>1, <1>2, <1>3, <1>4, <1>5, <1>6, <1>7 DEF SNext

LEMMA InitBooks == SInit => BooksInv
  <1>1. SUFFICES ASSUME SInit PROVE BooksInv
    OBVIOUS
  <1>2. Filed = {} /\ chain = {} /\ orphans = {}
    BY <1>1 DEF SInit, Filed
  <1>3. \A w \in Workers : Remembers(w)
    BY <1>1 DEF SInit, Remembers
  <1>4. QED BY <1>2, <1>3, FS_EmptySet DEF BooksInv

\* What is listed are the rows, one for each payment.
LEMMA SingleOfBooks ==
  ASSUME STypeOK, BooksInv, CompletedOnChain
  PROVE  SingleRecord
  <1> DEFINE rec(p) == [pay |-> p, id |-> row[p].id, status |-> row[p].status]
             done == {p \in Filed : row[p].status = "completed"}
  <1>1. Listed = {rec(p) : p \in Filed}
    BY DEF Listed, Filed, BooksInv
  <1>2. IsFiniteSet(Filed) /\ IsFiniteSet(chain)
    BY DEF BooksInv
  <1>3. Cardinality(Listed) <= Cardinality({x.pay : x \in Listed})
    <2> DEFINE f == [p \in Filed |-> rec(p)]
    <2>1. f \in Surjection(Filed, Listed)
      BY <1>1 DEF Surjection
    <2>2. Cardinality(Listed) <= Cardinality(Filed)
      BY <1>2, <2>1, FS_Surjection
    <2>3. {x.pay : x \in Listed} = Filed
      <3>1. \A p \in Filed : rec(p).pay = p /\ rec(p) \in Listed
        BY <1>1
      <3>2. \A x \in Listed : \E p \in Filed : x = rec(p)
        BY <1>1
      <3> HIDE DEF rec
      <3>3. QED BY <3>1, <3>2, Zenon
    <2>4. QED BY <2>2, <2>3
  <1>4. Cardinality({x \in Listed : x.status = "completed"}) <= Cardinality(chain)
    <2> DEFINE f == [p \in done |-> rec(p)]
               completed == {x \in Listed : x.status = "completed"}
    <2>1. f \in Surjection(done, completed)
      BY <1>1 DEF Surjection
    <2>2. done \subseteq chain
      BY DEF CompletedOnChain, Settled, Filed
    <2>3. IsFiniteSet(done) /\ Cardinality(done) <= Cardinality(chain)
      BY <1>2, <2>2, FS_Subset
    <2> HIDE DEF f, done, completed
    <2>4. IsFiniteSet(completed) /\ Cardinality(completed) <= Cardinality(done)
      BY <2>1, <2>3, FS_Surjection
    <2>5. Cardinality(completed) \in Nat /\ Cardinality(done) \in Nat /\ Cardinality(chain) \in Nat
      BY <1>2, <2>3, <2>4, FS_CardinalityType
    <2>6. Cardinality(completed) <= Cardinality(chain)
      BY <2>3, <2>4, <2>5
    <2>7. QED BY <2>6 DEF completed
  <1>5. Summary["completed"] = Cardinality({x \in Listed : x.status = "completed"})
    BY DEF Summary, Statuses
  <1>6. QED BY <1>3, <1>4, <1>5 DEF SingleRecord

\* With one worker per payment a storage never holds two records of one
\* signature, the memory backend included, which would list both; so a payment
\* counts once, and as completed only when the network took it
\* (memory_storage.ts:18-22, 95-128).
THEOREM SingleSafe ==
  ASSUME Pinned
  PROVE  SSpec => []SingleRecord
  <1>1. SSpec => []BooksInv
    BY InitBooks, NextBooks, SettlementInv, PTL DEF SSpec
  <1>2. GInv /\ BooksInv => SingleRecord
    BY SingleOfBooks DEF GInv
  <1>3. QED BY <1>1, <1>2, SettlementInv, PTL

-----------------------------------------------------------------------------
(* The refinement of the payment ledger.                                   *)

Recorded == {p \in Payments : Settled(p)}

\* A step of the settler accepts a payment, records one that was accepted, or
\* is none of the ledger's business.
LEMMA SettlerLedger ==
  ASSUME Pinned, GInv, PInv, NEW w \in Workers, SettlerStep(w)
  PROVE  \/ \E p \in Payments : Ledger!Accept(p) \/ Ledger!Record(p)
         \/ UNCHANGED Ledger!lvars
  <1> PICK p \in Payments : p = PayOf(w)
    BY SettlerFrame
  <1>1. UNCHANGED call
    BY SettlerQueue DEF qvars
  <1>2. /\ \A q \in Payments : q # p => row'[q] = row[q]
        /\ \/ /\ ~Settled(p) /\ Settled(p)'
              /\ p \in chain /\ chain' = chain
           \/ NetworkAccepts(w) /\ row' = row
           \/ chain' = chain /\ (Settled(p)' <=> Settled(p))
    BY SettlerRow
  <1>3. \A q \in Payments : q # p => (Settled(q)' <=> Settled(q))
    BY <1>2 DEF Settled
  <1>4. CASE ~Settled(p) /\ Settled(p)' /\ p \in chain /\ chain' = chain
    <2>1. Recorded' = Recorded \cup {p}
      BY <1>3, <1>4 DEF Recorded
    <2>2. Ledger!Record(p)
      BY <2>1, <1>1, <1>4 DEF Ledger!Record, Recorded
    <2>3. QED BY <2>2
  <1>5. CASE NetworkAccepts(w) /\ row' = row
    <2>1. chain' = chain \cup {p}
      BY <1>5 DEF NetworkAccepts
    <2>2. Recorded' = Recorded
      BY <1>5 DEF Recorded, Settled
    <2>3. Ledger!Accept(p)
      BY <2>1, <2>2, <1>1 DEF Ledger!Accept, Recorded
    <2>4. QED BY <2>3
  <1>6. CASE chain' = chain /\ (Settled(p)' <=> Settled(p))
    <2>1. Recorded' = Recorded
      BY <1>3, <1>6 DEF Recorded
    <2>2. QED BY <2>1, <1>1, <1>6 DEF Ledger!lvars, Recorded
  <1>7. QED BY <1>2, <1>4, <1>5, <1>6

\* A step that is not the settler's asks, answers, restarts or stutters.
LEMMA OtherLedger ==
  ASSUME Backend = "sqlite", GInv, PInv, [SNext]_vars,
         ~\E w \in Workers : SettlerStep(w)
  PROVE  Ledger!Next \/ UNCHANGED Ledger!lvars
  <1>0. row' = row /\ chain' = chain
    BY OtherPInv
  <1>1. Recorded' = Recorded /\ chain' = chain
    BY <1>0 DEF Recorded, Settled
  <1>2. CASE UNCHANGED call
    BY <1>1, <1>2 DEF Ledger!lvars, Recorded
  <1>3. CASE \E r \in Requests : Arrive(r)
    <2> PICK r \in Requests : Arrive(r)
      BY <1>3
    <2>1. /\ call[r] # "waiting"
          /\ \E c \in {"waiting", "saturated"} : call' = [call EXCEPT ![r] = c]
      BY ArriveMoves
    <2>2. Ledger!Ask(r)
      BY <2>1, <1>1 DEF Ledger!Ask, Recorded
    <2>3. QED BY <2>2 DEF Ledger!Next
  <1>4. CASE \E w \in Workers : Return(w)
    <2> PICK w \in Workers : Return(w)
      BY <1>4
    <2>1. \/ UNCHANGED call
          \/ call' = [call EXCEPT ![current[w]] =
                        IF stage[w] = "settled" THEN "ok" ELSE "failed"]
      BY ReturnMoves
    <2>2. CASE call' = [call EXCEPT ![current[w]] =
                          IF stage[w] = "settled" THEN "ok" ELSE "failed"]
      <3>1. Busy(w)
        BY ReturnMoves
      <3>2. current[w] \in Requests /\ call[current[w]] = "waiting"
        BY <3>1 DEF GInv, QInv, QWaiting, TypeOK, Busy
      <3>3. stage[w] = "settled" => Pay[current[w]] \in Recorded
        BY <3>2, SettlementAssumption DEF PInv, WorkerOK, PayOf, Recorded
      <3>4. \E c \in {"ok", "failed"} :
              /\ c = "ok" => Pay[current[w]] \in Recorded
              /\ call' = [call EXCEPT ![current[w]] = c]
        BY <2>2, <3>3
      <3>5. Ledger!Answer(current[w])
        BY <3>2, <3>4, <1>1 DEF Ledger!Answer, Recorded
      <3>6. QED BY <3>2, <3>5 DEF Ledger!Next
    <2>3. QED BY <2>1, <2>2, <1>2
  <1>5. CASE \E w \in Workers : Retry(w)
    BY <1>5, <1>2, RetryMoves
  <1>6. CASE Crash
    <2>1. Ledger!Restart
      BY <1>6, <1>1 DEF Crash, Reopened, Ledger!Restart, Recorded
    <2>2. QED BY <2>1 DEF Ledger!Next
  <1>7. CASE UNCHANGED vars
    BY <1>7, <1>2 DEF vars, qvars
  <1>8. QED BY <1>3, <1>4, <1>5, <1>6, <1>7 DEF SNext

\* When every request of a payment goes to one worker, the settlement system
\* implements the payment ledger, restarts, lost replies and failing storage
\* included.
THEOREM ImplementsLedger ==
  ASSUME Pinned, Backend = "sqlite"
  PROVE  SSpec => LedgerSpec
  <1>1. SInit => Ledger!Init
    BY DEF SInit, Init, Ledger!Init, Settled
  <1>2. GInv /\ PInv /\ [SNext]_vars => [Ledger!Next]_(Ledger!lvars)
    <2> SUFFICES ASSUME GInv, PInv, [SNext]_vars
                 PROVE  Ledger!Next \/ UNCHANGED Ledger!lvars
      OBVIOUS
    <2>1. CASE \E w \in Workers : SettlerStep(w)
      BY <2>1, SettlerLedger DEF Ledger!Next
    <2>2. CASE ~\E w \in Workers : SettlerStep(w)
      BY <2>2, OtherLedger
    <2>3. QED BY <2>1, <2>2
  <1>3. QED
    BY <1>1, <1>2, SettlementInv, PinnedInv, PTL DEF SSpec, LedgerSpec, Ledger!Spec
=============================================================================
