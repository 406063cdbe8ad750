----------------------- MODULE MessageTransportProofs -----------------------
(***************************************************************************)
(* Proofs about MessageTransport, for any set of calls and of threads and  *)
(* any bounds: its type invariant, the order in which signaling-service    *)
(* sees what arrives, that a callback runs at most once, and that the      *)
(* transport implements RequestReply.                                      *)
(***************************************************************************)
EXTENDS MessageTransport, TLAPS

(***************************************************************************)
(* The inductive invariant.  InOrder needs the tasks to be indices of what *)
(* has arrived.  CallbackOnce needs to know that a call is in at most one  *)
(* of the places it passes through (the thread that sends it, the map, the *)
(* queue of signaling-service) and in none before it has a transaction.    *)
(***************************************************************************)

\* Every task is about something that has arrived.
TasksArrived ==
    /\ \A j \in 1..Len(mtQueue) : mtQueue[j] \in 1..Len(inbox)
    /\ \A i \in 1..Len(ssQueue) : ssQueue[i].n \in 1..Len(inbox)
    /\ last <= Len(inbox)

\* Only a reply carries a call, and only one that was asked.
ArrivalsAsked ==
    /\ \A r \in Calls : sentOn[r] # 0 => transaction[r] # 0
    /\ \A n \in 1..Len(inbox) :
          IF inbox[n].kind = "reply"
          THEN inbox[n].call \in Calls /\ transaction[inbox[n].call] # 0
          ELSE inbox[n].call = NoCall

\* A call that no thread has begun has left no trace.
Untouched ==
    \A r \in Calls : transaction[r] = 0 => runs[r] = 0 /\ ~Queued(r)

\* A call is sent by one thread, and is not in the map meanwhile.
SendersApart ==
    \A t \in Threads : sending[t] # NoCall =>
        /\ transaction[sending[t]] # 0
        /\ \A u \in Threads : sending[u] = sending[t] => u = t
        /\ \A x \in Ticks : callbacks[x] # sending[t]

\* The map files each call under its own transaction.
FiledByTransaction ==
    \A x \in Ticks : callbacks[x] # NoCall => transaction[callbacks[x]] = x

\* No callback is queued twice.
QueuedOnce ==
    \A i, j \in 1..Len(ssQueue) :
        ssQueue[i].call # NoCall /\ ssQueue[i].call = ssQueue[j].call => i = j

\* A task runs a callback exactly if it is about a reply, and then one of a
\* call with the transaction of that reply.
TasksMatch ==
    \A i \in 1..Len(ssQueue) :
        IF ssQueue[i].call = NoCall
        THEN inbox[ssQueue[i].n].kind # "reply"
        ELSE /\ inbox[ssQueue[i].n].kind = "reply"
             /\ transaction[inbox[ssQueue[i].n].call] = transaction[ssQueue[i].call]

IInv ==
    /\ TypeOK
    /\ TasksArrived
    /\ InOrder
    /\ ArrivalsAsked
    /\ Untouched
    /\ SendersApart
    /\ FiledByTransaction
    /\ QueuedOnce
    /\ TasksMatch
    /\ CallbackOnce

-----------------------------------------------------------------------------
(* Sequences: what Append and Tail leave where.                            *)

LEMMA AppendFacts ==
    ASSUME NEW S, NEW q \in Seq(S), NEW e \in S
    PROVE  /\ Append(q, e) \in Seq(S)
           /\ Len(Append(q, e)) = Len(q) + 1
           /\ \A i \in 1..Len(q) : Append(q, e)[i] = q[i]
           /\ Append(q, e)[Len(q) + 1] = e
  OBVIOUS

LEMMA TailFacts ==
    ASSUME NEW S, NEW q \in Seq(S), q # <<>>
    PROVE  /\ Tail(q) \in Seq(S)
           /\ Len(q) \in Nat \ {0}
           /\ Len(Tail(q)) = Len(q) - 1
           /\ \A i \in 1..Len(Tail(q)) : Tail(q)[i] = q[i + 1] /\ i + 1 \in 1..Len(q)
           /\ Head(q) = q[1]
           /\ 1 \in 1..Len(q)
           /\ Head(q) \in S
  OBVIOUS

-----------------------------------------------------------------------------
(* The invariant holds initially and is kept by every step.  Each step has *)
(* one part per conjunct it can disturb.                                   *)

LEMMA InitInv == Init => IInv
  <1> SUFFICES ASSUME Init PROVE IInv
    OBVIOUS
  <1>1. TypeOK
    BY CallsAssumption, ThreadAssumption, BoundAssumption
       DEF Init, TypeOK, Ticks, Connections, Statuses
  <1>2. /\ Len(inbox) = 0 /\ Len(mtQueue) = 0 /\ Len(ssQueue) = 0
        /\ \A r \in Calls : transaction[r] = 0 /\ runs[r] = 0 /\ sentOn[r] = 0
        /\ \A t \in Threads : sending[t] = NoCall
        /\ \A x \in Ticks : callbacks[x] = NoCall
        /\ last = 0
    BY DEF Init
  <1>3. \A r \in Calls : ~Queued(r)
    <2>1. \A i \in 1..Len(ssQueue) : FALSE
      BY <1>2
    <2>2. QED
      BY <2>1, Zenon DEF Queued
  <1>4. TasksArrived /\ ArrivalsAsked /\ TasksMatch /\ QueuedOnce
    BY <1>2 DEF TasksArrived, ArrivalsAsked, TasksMatch, QueuedOnce
  <1>5. InOrder
    BY <1>2 DEF InOrder, MtOrdered, SsOrdered, SsBeforeMt, SeenBefore
  <1>6. Untouched /\ SendersApart /\ FiledByTransaction /\ CallbackOnce
    BY <1>2, <1>3 DEF Untouched, SendersApart, FiledByTransaction, CallbackOnce
  <1>7. QED
    BY <1>1, <1>4, <1>5, <1>6 DEF IInv

\* Steps that touch neither a call nor a queue.
LEMMA ConnectInv ==
    ASSUME IInv, Tick \/ ConnectBegin \/ ConnectEnd \/ ConnectRejected
    PROVE  IInv'
  <1> USE BoundAssumption DEF IInv, TypeOK, connectionVars, callVars, observedVars
  <1>1. TypeOK'
    <2>1. CASE Tick
      BY <2>1 DEF Tick, Ticks
    <2>2. CASE ConnectBegin
      BY <2>2 DEF ConnectBegin, Connections, Statuses
    <2>3. CASE ConnectEnd
      BY <2>3 DEF ConnectEnd
    <2>4. CASE ConnectRejected
      BY <2>4 DEF ConnectRejected
    <2>5. QED
      BY <2>1, <2>2, <2>3, <2>4
  <1>2. UNCHANGED <<callVars, callbacks, inbox, mtQueue, ssQueue, observedVars>>
    BY DEF Tick, ConnectBegin, ConnectEnd, ConnectRejected
  <1>3. QED
    BY <1>1, <1>2 DEF TasksArrived, ArrivalsAsked, TasksMatch,
       QueuedOnce, InOrder, MtOrdered, SsOrdered, SsBeforeMt, SeenBefore, Untouched, Queued,
       SendersApart, FiledByTransaction, CallbackOnce

\* A call that draws its transaction is not on its way anywhere yet.
LEMMA DrawFresh ==
    ASSUME IInv, NEW t \in Threads, NEW r \in Calls, Draw(t, r)
    PROVE  /\ runs[r] = 0
           /\ ~Queued(r)
           /\ \A u \in Threads : sending[u] # r
           /\ \A x \in Ticks : callbacks[x] # r
           /\ sentOn[r] = 0
           /\ clock \in 1..MaxTick
           /\ transaction' = [transaction EXCEPT ![r] = clock]
           /\ transaction' \in [Calls -> 0..MaxTick]
           /\ transaction'[r] = clock
           /\ \A q \in Calls : q # r => transaction'[q] = transaction[q]
           /\ \A q \in Calls : transaction[q] # 0 => transaction'[q] = transaction[q]
  <1>1. transaction[r] = 0 /\ transaction' = [transaction EXCEPT ![r] = clock]
    BY DEF Draw
  <1>2. transaction \in [Calls -> 0..MaxTick] /\ clock \in 1..MaxTick
    BY DEF IInv, TypeOK, Ticks
  <1>3. runs[r] = 0 /\ ~Queued(r)
    BY <1>1 DEF IInv, Untouched
  <1>4. \A u \in Threads : sending[u] # r
    BY <1>1, CallsAssumption DEF IInv, SendersApart
  <1>5. \A x \in Ticks : callbacks[x] # r
    BY <1>1, CallsAssumption DEF IInv, FiledByTransaction, Ticks
  <1>6. sentOn[r] = 0
    BY <1>1 DEF IInv, ArrivalsAsked
  <1>7. QED
    BY <1>1, <1>2, <1>3, <1>4, <1>5, <1>6, BoundAssumption

\* A task that runs a callback runs one of a call that was asked, because of a
\* reply to one that was asked.
LEMMA TasksDrawn ==
    ASSUME IInv, NEW i \in 1..Len(ssQueue)
    PROVE  /\ ssQueue[i].n \in 1..Len(inbox)
           /\ ssQueue[i].call \in Calls \cup {NoCall}
           /\ ssQueue[i].call # NoCall =>
                /\ transaction[ssQueue[i].call] # 0
                /\ inbox[ssQueue[i].n].call \in Calls
                /\ transaction[inbox[ssQueue[i].n].call] # 0
  <1>1. ssQueue[i].n \in 1..Len(inbox)
    BY DEF IInv, TasksArrived
  <1>2. ssQueue[i].call \in Calls \cup {NoCall}
    <2>1. ssQueue[i] \in SsTasks
      BY DEF IInv, TypeOK
    <2>2. QED
      BY <2>1 DEF SsTasks
  <1>3. ASSUME ssQueue[i].call # NoCall
        PROVE  transaction[ssQueue[i].call] # 0
    BY <1>2, <1>3 DEF IInv, Untouched, Queued
  <1>4. ASSUME ssQueue[i].call # NoCall
        PROVE  /\ inbox[ssQueue[i].n].call \in Calls
               /\ transaction[inbox[ssQueue[i].n].call] # 0
    <2>1. inbox[ssQueue[i].n].kind = "reply"
      BY <1>4 DEF IInv, TasksMatch
    <2>2. QED
      BY <1>1, <2>1 DEF IInv, ArrivalsAsked
  <1>5. QED
    BY <1>1, <1>2, <1>3, <1>4

LEMMA SendDroppedInv ==
    ASSUME IInv, NEW t \in Threads, NEW r \in Calls, SendDropped(t, r)
    PROVE  IInv'
  <1> USE DrawFresh DEF SendDropped
  <1>1. UNCHANGED <<status, nextId, connecting, connectionId, clock, sending, sentOn, callbacks,
                    inbox, mtQueue, ssQueue, runs, last>>
    BY DEF connectionVars, observedVars
  <1>2. TypeOK'
    BY <1>1 DEF IInv, TypeOK
  <1>3. TasksArrived' /\ InOrder' /\ QueuedOnce' /\ CallbackOnce'
    BY <1>1 DEF IInv, TasksArrived, InOrder, MtOrdered, SsOrdered, SsBeforeMt, SeenBefore,
       QueuedOnce, CallbackOnce, Queued
  <1>4. ArrivalsAsked' /\ Untouched'
    <2>1. transaction'[r] # 0
      BY BoundAssumption
    <2>2. \A q \in Calls : sentOn[q] # 0 => transaction'[q] # 0
      BY <2>1 DEF IInv, ArrivalsAsked
    <2>3. ArrivalsAsked'
      BY <1>1, <2>2 DEF IInv, ArrivalsAsked
    <2>4. Untouched'
      BY <1>1, <2>1 DEF IInv, Untouched, Queued
    <2>5. QED
      BY <2>3, <2>4
  <1>5. SendersApart' /\ FiledByTransaction'
    <2>0. \A u \in Threads : sending[u] # NoCall => transaction'[sending[u]] # 0
      <3>1. \A u \in Threads : sending[u] \in Calls \cup {NoCall}
        BY DEF IInv, TypeOK
      <3>2. QED
        BY <3>1 DEF IInv, SendersApart
    <2>1. SendersApart'
      BY <1>1, <2>0 DEF IInv, SendersApart
    <2>2. FiledByTransaction'
      BY <1>1, CallsAssumption DEF IInv, TypeOK, FiledByTransaction
    <2>3. QED
      BY <2>1, <2>2
  <1>6. TasksMatch'
    BY <1>1, TasksDrawn DEF IInv, TasksMatch
  <1>7. QED
    BY <1>2, <1>3, <1>4, <1>5, <1>6 DEF IInv

LEMMA SendTextInv ==
    ASSUME IInv, NEW t \in Threads, NEW r \in Calls, SendText(t, r)
    PROVE  IInv'
  <1> USE DrawFresh DEF SendText
  <1>1. UNCHANGED <<status, nextId, connecting, connectionId, clock, callbacks,
                    inbox, mtQueue, ssQueue, runs, last>>
    BY DEF connectionVars, observedVars
  <1>2. /\ sending' \in [Threads -> Calls \cup {NoCall}]
        /\ sending'[t] = r
        /\ \A u \in Threads : u # t => sending'[u] = sending[u]
        /\ sentOn' \in [Calls -> 0..MaxConn]
        /\ \A q \in Calls : q # r => sentOn'[q] = sentOn[q]
    BY BoundAssumption DEF IInv, TypeOK
  <1>3. TypeOK'
    BY <1>1, <1>2 DEF IInv, TypeOK
  <1>4. TasksArrived' /\ InOrder' /\ QueuedOnce'
    BY <1>1 DEF IInv, TasksArrived, InOrder, MtOrdered, SsOrdered, SsBeforeMt, SeenBefore,
       QueuedOnce
  <1>5. ArrivalsAsked' /\ Untouched'
    <2>1. transaction'[r] # 0
      BY BoundAssumption
    <2>2. \A q \in Calls : sentOn'[q] # 0 => transaction'[q] # 0
      BY <1>2, <2>1 DEF IInv, ArrivalsAsked
    <2>3. ArrivalsAsked'
      BY <1>1, <2>2 DEF IInv, ArrivalsAsked
    <2>4. Untouched'
      BY <1>1, <2>1 DEF IInv, Untouched, Queued
    <2>5. QED
      BY <2>3, <2>4
  <1>6. SendersApart' /\ FiledByTransaction'
    <2>0. \A u \in Threads : sending'[u] # NoCall => transaction'[sending'[u]] # 0
      <3>1. \A u \in Threads : sending[u] \in Calls \cup {NoCall}
        BY DEF IInv, TypeOK
      <3>2. transaction'[r] # 0
        BY BoundAssumption
      <3>3. QED
        BY <1>2, <3>1, <3>2 DEF IInv, SendersApart
    <2>a. ASSUME NEW u \in Threads, NEW v \in Threads,
                 sending'[u] # NoCall, sending'[v] = sending'[u]
          PROVE  v = u
      BY <1>2, <2>a DEF IInv, SendersApart
    <2>b. ASSUME NEW u \in Threads, sending'[u] # NoCall, NEW x \in Ticks
          PROVE  callbacks[x] # sending'[u]
      BY <1>2, <2>b DEF IInv, SendersApart
    <2>1. SendersApart'
      BY <1>1, <2>0, <2>a, <2>b DEF SendersApart
    <2>2. FiledByTransaction'
      BY <1>1, <1>2, CallsAssumption DEF IInv, TypeOK, FiledByTransaction
    <2>3. QED
      BY <2>1, <2>2
  <1>7. TasksMatch'
    BY <1>1, TasksDrawn DEF IInv, TasksMatch
  <1>8. CallbackOnce'
    BY <1>1, <1>2 DEF IInv, CallbackOnce, Queued
  <1>9. QED
    BY <1>3, <1>4, <1>5, <1>6, <1>7, <1>8 DEF IInv

LEMMA RegisterInv ==
    ASSUME IInv, NEW t \in Threads, Register(t)
    PROVE  IInv'
  <1> DEFINE r == sending[t]
             x == transaction[r]
  <1>1. UNCHANGED <<status, nextId, connecting, connectionId, clock, transaction, sentOn,
                    inbox, mtQueue, ssQueue, runs, last>>
    BY DEF Register, connectionVars, observedVars
  <1>2. /\ r \in Calls
        /\ x \in Ticks
        /\ \A u \in Threads : sending[u] = r => u = t
        /\ \A y \in Ticks : callbacks[y] # r
    BY BoundAssumption DEF Register, IInv, TypeOK, SendersApart, Ticks
  <1>3. /\ callbacks' = [callbacks EXCEPT ![x] = r]
        /\ callbacks' \in [Ticks -> Calls \cup {NoCall}]
        /\ callbacks'[x] = r
        /\ \A y \in Ticks : y # x => callbacks'[y] = callbacks[y]
    BY <1>2 DEF Register, IInv, TypeOK
  <1>4. /\ sending' = [sending EXCEPT ![t] = NoCall]
        /\ sending' \in [Threads -> Calls \cup {NoCall}]
        /\ sending'[t] = NoCall
        /\ \A u \in Threads : u # t => sending'[u] = sending[u]
    BY <1>2 DEF Register, IInv, TypeOK
  <1> HIDE DEF r, x
  <1>5. TypeOK'
    BY <1>1, <1>3, <1>4 DEF IInv, TypeOK
  <1>6. TasksArrived' /\ InOrder' /\ QueuedOnce' /\ ArrivalsAsked' /\ Untouched' /\ TasksMatch'
    BY <1>1 DEF IInv, TasksArrived, InOrder, MtOrdered, SsOrdered, SsBeforeMt, SeenBefore,
       QueuedOnce, ArrivalsAsked, Untouched, TasksMatch, Queued
  <1>7. FiledByTransaction'
    BY <1>1, <1>2, <1>3 DEF IInv, FiledByTransaction, x
  <1>8. SendersApart'
    BY <1>1, <1>2, <1>3, <1>4 DEF IInv, SendersApart
  <1>9. CallbackOnce'
    <2>1. runs[r] # 1 /\ ~Queued(r)
      BY <1>2 DEF IInv, CallbackOnce, r
    <2>2. QED
      BY <1>1, <1>2, <1>3, <1>4, <2>1, CallsAssumption DEF IInv, CallbackOnce, Queued
  <1>10. QED
    BY <1>5, <1>6, <1>7, <1>8, <1>9 DEF IInv

\* What every handler of the websocket thread does.
LEMMA ArriveInv ==
    ASSUME IInv, NEW kind \in Kinds, NEW r \in Calls \cup {NoCall}, Arrive(kind, r),
           status' \in [Connections -> Statuses],
           IF kind = "reply" THEN r \in Calls /\ transaction[r] # 0 ELSE r = NoCall
    PROVE  IInv'
  <1> DEFINE m == [kind |-> kind, call |-> r]
             n == Len(inbox) + 1
  <1>1. UNCHANGED <<nextId, connecting, connectionId, transaction, sending, sentOn, callbacks,
                    ssQueue, runs, last>>
    BY DEF Arrive, callVars, observedVars
  <1>2. clock' \in Ticks
    BY BoundAssumption DEF Arrive, IInv, TypeOK, Ticks
  <1>3. /\ inbox' \in Seq(Arrivals)
        /\ Len(inbox') = n
        /\ Len(inbox) \in Nat
        /\ \A i \in 1..Len(inbox) : inbox'[i] = inbox[i]
        /\ inbox'[n] = m
    <2>1. m \in Arrivals /\ inbox \in Seq(Arrivals) /\ inbox' = Append(inbox, m)
      BY DEF Arrive, Arrivals, IInv, TypeOK
    <2>2. QED
      BY <2>1, AppendFacts
  <1>4. /\ mtQueue' \in Seq(Nat)
        /\ Len(mtQueue') = Len(mtQueue) + 1
        /\ Len(mtQueue) \in Nat
        /\ \A j \in 1..Len(mtQueue) : mtQueue'[j] = mtQueue[j]
        /\ mtQueue'[Len(mtQueue) + 1] = n
    <2>1. n \in Nat /\ mtQueue \in Seq(Nat) /\ mtQueue' = Append(mtQueue, n)
      BY <1>3 DEF Arrive, Post, IInv, TypeOK
    <2>2. QED
      BY <2>1, AppendFacts
  <1>0. \A j \in 1..Len(mtQueue') :
            \/ j \in 1..Len(mtQueue) /\ mtQueue'[j] = mtQueue[j]
            \/ j = Len(mtQueue) + 1 /\ mtQueue'[j] = n
    BY <1>4
  <1> HIDE DEF m
  <1>5. TypeOK'
    BY <1>1, <1>2, <1>3, <1>4 DEF IInv, TypeOK
  <1>6. TasksArrived'
    <2>1. \A k \in 1..Len(inbox) : k \in 1..Len(inbox')
      BY <1>3
    <2>2. n \in 1..Len(inbox')
      BY <1>3
    <2>3. \A j \in 1..Len(mtQueue') : mtQueue'[j] \in 1..Len(inbox')
      BY <1>0, <2>1, <2>2 DEF IInv, TasksArrived
    <2>4. \A i \in 1..Len(ssQueue') : ssQueue'[i].n \in 1..Len(inbox')
      BY <1>1, <2>1 DEF IInv, TasksArrived
    <2>5. last' <= Len(inbox')
      BY <1>1, <1>3 DEF IInv, TypeOK, TasksArrived
    <2>6. QED
      BY <2>3, <2>4, <2>5 DEF TasksArrived
  <1>7. InOrder'
    <2>1. \A j \in 1..Len(mtQueue) : mtQueue[j] < n
      BY <1>3 DEF IInv, TasksArrived
    <2>2. \A i \in 1..Len(ssQueue) : ssQueue[i].n < n
      BY <1>3 DEF IInv, TasksArrived
    <2>3. last < n
      BY <1>3 DEF IInv, TypeOK, TasksArrived
    <2>4. MtOrdered'
      BY <1>0, <1>4, <2>1 DEF IInv, InOrder, MtOrdered
    <2>5. SsOrdered' /\ SsBeforeMt' /\ SeenBefore'
      BY <1>0, <1>1, <2>2, <2>3 DEF IInv, InOrder, SsOrdered, SsBeforeMt, SeenBefore
    <2>6. QED
      BY <2>4, <2>5 DEF InOrder
  <1>8. ArrivalsAsked'
    BY <1>1, <1>3 DEF IInv, ArrivalsAsked, m
  <1>9. TasksMatch'
    BY <1>1, <1>3, TasksDrawn DEF IInv, TasksMatch
  <1>10. Untouched' /\ SendersApart' /\ FiledByTransaction' /\ QueuedOnce' /\ CallbackOnce'
    BY <1>1 DEF IInv, Untouched, SendersApart, FiledByTransaction, QueuedOnce, CallbackOnce, Queued
  <1>11. QED
    BY <1>5, <1>6, <1>7, <1>8, <1>9, <1>10 DEF IInv

LEMMA WebsocketInv ==
    ASSUME IInv, Websocket
    PROVE  IInv'
  <1>1. PICK c \in Connections :
            \/ OnOpen(c) \/ OnFail(c) \/ OnClose(c) \/ OnEvent(c)
            \/ \E r \in Calls : OnReply(c, r)
    BY DEF Websocket
  <1>2. status \in [Connections -> Statuses]
    BY DEF IInv, TypeOK
  <1>3. CASE OnOpen(c)
    BY <1>2, <1>3, ArriveInv DEF OnOpen, Statuses, Kinds
  <1>4. CASE OnFail(c)
    BY <1>2, <1>4, ArriveInv DEF OnFail, Statuses, Kinds
  <1>5. CASE OnClose(c)
    BY <1>2, <1>5, ArriveInv DEF OnClose, Statuses, Kinds
  <1>6. CASE OnEvent(c)
    BY <1>2, <1>6, ArriveInv DEF OnEvent, Kinds
  <1>7. ASSUME NEW r \in Calls, OnReply(c, r)
        PROVE  IInv'
    <2>1. transaction[r] # 0
      BY <1>7 DEF OnReply, IInv, ArrivalsAsked, Connections
    <2>2. QED
      BY <1>2, <1>7, <2>1, ArriveInv DEF OnReply, Kinds
  <1>8. QED
    BY <1>1, <1>3, <1>4, <1>5, <1>6, <1>7

\* What remains of the queue of message-transport when its first task is taken.
LEMMA MtTail ==
    ASSUME IInv, mtQueue # <<>>, mtQueue' = Tail(mtQueue), UNCHANGED inbox
    PROVE  /\ mtQueue' \in Seq(Nat)
           /\ Head(mtQueue) \in 1..Len(inbox)
           /\ \A j \in 1..Len(mtQueue') : /\ mtQueue'[j] \in 1..Len(inbox')
                                         /\ Head(mtQueue) < mtQueue'[j]
                                         /\ last < mtQueue'[j]
                                         /\ \A i \in 1..Len(ssQueue) : ssQueue[i].n < mtQueue'[j]
           /\ \A i \in 1..Len(ssQueue) : ssQueue[i].n < Head(mtQueue)
           /\ last < Head(mtQueue)
           /\ MtOrdered'
  <1>1. mtQueue \in Seq(Nat)
    BY DEF IInv, TypeOK
  <1>2. /\ mtQueue' \in Seq(Nat)
        /\ Len(mtQueue') = Len(mtQueue) - 1
        /\ Len(mtQueue) \in Nat
        /\ \A j \in 1..Len(mtQueue') : mtQueue'[j] = mtQueue[j + 1] /\ j + 1 \in 1..Len(mtQueue)
        /\ Head(mtQueue) = mtQueue[1]
        /\ 1 \in 1..Len(mtQueue)
    BY <1>1, TailFacts
  <1>3. MtOrdered'
    BY <1>2 DEF IInv, InOrder, MtOrdered
  <1>4. ASSUME NEW j \in 1..Len(mtQueue')
        PROVE  Head(mtQueue) < mtQueue'[j]
    <2>1. 1 < j + 1
      OBVIOUS
    <2>2. QED
      BY <1>2, <2>1 DEF IInv, InOrder, MtOrdered
  <1>5. \A i \in 1..Len(ssQueue) : ssQueue[i].n < Head(mtQueue)
    BY <1>2 DEF IInv, InOrder, SsBeforeMt
  <1>6. QED
    BY <1>2, <1>3, <1>4, <1>5 DEF IInv, InOrder, SsBeforeMt, SeenBefore, TasksArrived

\* A task moved from the front of one queue to the back of the other.
LEMMA PostToSs ==
    ASSUME IInv, mtQueue # <<>>, mtQueue' = Tail(mtQueue), UNCHANGED <<inbox, last>>,
           NEW r \in Calls \cup {NoCall},
           ssQueue' = Append(ssQueue, [n |-> Head(mtQueue), call |-> r])
    PROVE  /\ ssQueue' \in Seq(SsTasks)
           /\ Len(ssQueue) \in Nat
           /\ Len(ssQueue') = Len(ssQueue) + 1
           /\ \A i \in 1..Len(ssQueue') :
                \/ i \in 1..Len(ssQueue) /\ ssQueue'[i] = ssQueue[i]
                \/ i = Len(ssQueue) + 1 /\ ssQueue'[i] = [n |-> Head(mtQueue), call |-> r]
           /\ \A i \in 1..Len(ssQueue) : ssQueue'[i] = ssQueue[i]
           /\ TasksArrived'
           /\ InOrder'
  <1> DEFINE e == [n |-> Head(mtQueue), call |-> r]
  <1>0. Head(mtQueue) \in 1..Len(inbox) /\ Len(inbox) \in Nat
    <2>1. inbox \in Seq(Arrivals)
      BY DEF IInv, TypeOK
    <2>2. QED
      BY <2>1, MtTail
  <1>1. e \in SsTasks /\ ssQueue \in Seq(SsTasks)
    <2>1. e \in SsTasks
      BY <1>0 DEF SsTasks
    <2>2. QED
      BY <2>1 DEF IInv, TypeOK
  <1>2. /\ ssQueue' \in Seq(SsTasks)
        /\ Len(ssQueue') = Len(ssQueue) + 1
        /\ Len(ssQueue) \in Nat
        /\ \A i \in 1..Len(ssQueue) : ssQueue'[i] = ssQueue[i]
        /\ ssQueue'[Len(ssQueue) + 1] = e
    BY <1>1, AppendFacts
  <1>3. e.n = Head(mtQueue)
    OBVIOUS
  <1> HIDE DEF e
  <1>4. \A i \in 1..Len(ssQueue') :
            \/ i \in 1..Len(ssQueue) /\ ssQueue'[i] = ssQueue[i]
            \/ i = Len(ssQueue) + 1 /\ ssQueue'[i] = e
    BY <1>2
  <1>5. TasksArrived'
    BY <1>3, <1>4, MtTail DEF IInv, TasksArrived
  <1>6. SsOrdered'
    BY <1>2, <1>3, <1>4, MtTail DEF IInv, InOrder, SsOrdered
  <1>7. SsBeforeMt' /\ SeenBefore'
    BY <1>3, <1>4, MtTail DEF IInv, InOrder, SsBeforeMt, SeenBefore
  <1>8. QED
    BY <1>2, <1>4, <1>5, <1>6, <1>7, MtTail DEF InOrder, e

LEMMA PostKeepsQueued ==
    ASSUME IInv, mtQueue # <<>>, mtQueue' = Tail(mtQueue), UNCHANGED <<inbox, last>>,
           NEW r \in Calls \cup {NoCall},
           ssQueue' = Append(ssQueue, [n |-> Head(mtQueue), call |-> r])
    PROVE  \A p \in Calls : Queued(p) => Queued(p)'
  <1>1. /\ Len(ssQueue) \in Nat /\ Len(ssQueue') = Len(ssQueue) + 1
        /\ \A i \in 1..Len(ssQueue) : ssQueue'[i] = ssQueue[i]
    BY PostToSs
  <1>2. \A i \in 1..Len(ssQueue) : i \in 1..Len(ssQueue')
    BY <1>1
  <1>3. QED
    BY <1>1, <1>2 DEF Queued

LEMMA MtNotifyInv ==
    ASSUME IInv, MtNotify
    PROVE  IInv'
  <1>1. UNCHANGED <<status, nextId, connecting, connectionId, clock, transaction, sending, sentOn,
                    callbacks, inbox, runs, last>>
    BY DEF MtNotify, connectionVars, callVars, observedVars
  <1>2. /\ mtQueue # <<>> /\ mtQueue' = Tail(mtQueue)
        /\ inbox[Head(mtQueue)].kind # "reply"
        /\ ssQueue' = Append(ssQueue, [n |-> Head(mtQueue), call |-> NoCall])
    BY DEF MtNotify
  <1>3. /\ ssQueue' \in Seq(SsTasks)
        /\ \A i \in 1..Len(ssQueue') :
              \/ i \in 1..Len(ssQueue) /\ ssQueue'[i] = ssQueue[i]
              \/ ssQueue'[i].call = NoCall /\ ssQueue'[i].n = Head(mtQueue)
        /\ TasksArrived'
        /\ InOrder'
    BY <1>1, <1>2, PostToSs
  <1>4. TypeOK'
    BY <1>1, <1>2, <1>3, MtTail DEF IInv, TypeOK
  <1>5. ArrivalsAsked' /\ SendersApart' /\ FiledByTransaction'
    BY <1>1 DEF IInv, ArrivalsAsked, SendersApart, FiledByTransaction
  <1>6. \A r \in Calls : Queued(r)' => Queued(r)
    BY <1>3, CallsAssumption DEF Queued
  <1>7. Untouched' /\ CallbackOnce'
    BY <1>1, <1>6 DEF IInv, Untouched, CallbackOnce
  <1>8. QueuedOnce'
    BY <1>3 DEF IInv, QueuedOnce
  <1>9. TasksMatch'
    BY <1>1, <1>2, <1>3 DEF IInv, TasksMatch
  <1>10. QED
    BY <1>3, <1>4, <1>5, <1>7, <1>8, <1>9 DEF IInv

LEMMA MtReplyInv ==
    ASSUME IInv, MtReply
    PROVE  IInv'
  <1> DEFINE n == Head(mtQueue)
             q == inbox[n].call
             x == transaction[q]
             r == callbacks[x]
  <1>1. UNCHANGED <<status, nextId, connecting, connectionId, clock, transaction, sending, sentOn,
                    inbox, runs, last>>
    BY DEF MtReply, connectionVars, callVars, observedVars
  <1>2. /\ mtQueue # <<>> /\ mtQueue' = Tail(mtQueue)
        /\ inbox[n].kind = "reply"
        /\ ssQueue' = IF r = NoCall THEN ssQueue ELSE Append(ssQueue, [n |-> n, call |-> r])
        /\ callbacks' = [callbacks EXCEPT ![x] = NoCall]
    BY DEF MtReply, Forget, CallbackFor
  <1>3. n \in 1..Len(inbox)
    BY <1>1, <1>2, MtTail
  <1>4. q \in Calls /\ x # 0
    BY <1>2, <1>3 DEF IInv, ArrivalsAsked
  <1>5. x \in Ticks
    <2>1. transaction[q] \in 0..MaxTick
      BY <1>4 DEF IInv, TypeOK
    <2>2. QED
      BY <1>4, <2>1, BoundAssumption DEF Ticks
  <1>6. r \in Calls \cup {NoCall}
    BY <1>5 DEF IInv, TypeOK
  <1>7. /\ callbacks' \in [Ticks -> Calls \cup {NoCall}]
        /\ callbacks'[x] = NoCall
        /\ \A y \in Ticks : y # x => callbacks'[y] = callbacks[y]
    BY <1>2, <1>5 DEF IInv, TypeOK
  <1>8. transaction[inbox[n].call] = x
    OBVIOUS
  <1>9. r # NoCall => transaction[r] = x /\ \A t \in Threads : sending[t] # r
    <2>1. ASSUME r # NoCall PROVE transaction[r] = x
      BY <1>5, <2>1 DEF IInv, FiledByTransaction
    <2>2. ASSUME r # NoCall, NEW t \in Threads PROVE sending[t] # r
      BY <1>5, <2>2 DEF IInv, SendersApart
    <2>3. QED
      BY <2>1, <2>2
  <1>10. ASSUME r # NoCall, NEW y \in Ticks
         PROVE  callbacks'[y] # r
    <2>1. CASE y = x
      BY <1>7, <1>10, <2>1
    <2>2. CASE y # x
      <3>1. callbacks'[y] = callbacks[y]
        BY <1>7, <2>2
      <3>2. callbacks[y] # NoCall => transaction[callbacks[y]] = y
        BY DEF IInv, FiledByTransaction
      <3>3. transaction[r] = x
        BY <1>9, <1>10
      <3> HIDE DEF r, x
      <3>4. QED
        BY <1>10, <2>2, <3>1, <3>2, <3>3
    <2>3. QED
      BY <2>1, <2>2
  <1>11. r # NoCall => runs[r] # 1 /\ ~Queued(r)
    BY <1>5, <1>6 DEF IInv, CallbackOnce
  <1>12. r # NoCall => x # 0
    BY <1>4
  <1> HIDE DEF n, q, x, r
  <1>13. ArrivalsAsked' /\ SendersApart' /\ FiledByTransaction'
    <2>1. ArrivalsAsked'
      BY <1>1 DEF IInv, ArrivalsAsked
    <2>2. SendersApart'
      BY <1>1, <1>7 DEF IInv, SendersApart
    <2>3. FiledByTransaction'
      BY <1>1, <1>7 DEF IInv, FiledByTransaction
    <2>4. QED
      BY <2>1, <2>2, <2>3
  <1>14. CASE r = NoCall
    <2>1. ssQueue' = ssQueue
      BY <1>2, <1>14
    <2>2. TypeOK'
      BY <1>1, <1>2, <1>7, <2>1, MtTail DEF IInv, TypeOK
    <2>3. TasksArrived' /\ InOrder'
      BY <1>1, <1>2, <2>1, MtTail DEF IInv, TasksArrived, InOrder, SsOrdered, SsBeforeMt, SeenBefore
    <2>4. Untouched' /\ QueuedOnce' /\ TasksMatch'
      BY <1>1, <2>1 DEF IInv, Untouched, Queued, QueuedOnce, TasksMatch
    <2>5. CallbackOnce'
      BY <1>1, <1>7, <2>1, CallsAssumption DEF IInv, CallbackOnce, Queued
    <2>6. QED
      BY <1>13, <2>2, <2>3, <2>4, <2>5 DEF IInv
  <1>15. CASE r # NoCall
    <2>1. /\ ssQueue' = Append(ssQueue, [n |-> Head(mtQueue), call |-> r])
          /\ r \in Calls
      BY <1>2, <1>6, <1>15 DEF n
    <2>2. /\ ssQueue' \in Seq(SsTasks)
          /\ \A i \in 1..Len(ssQueue') :
                \/ i \in 1..Len(ssQueue) /\ ssQueue'[i] = ssQueue[i]
                \/ /\ i = Len(ssQueue) + 1
                   /\ ssQueue'[i].call = r /\ ssQueue'[i].n = n
          /\ TasksArrived'
          /\ InOrder'
      BY <1>1, <1>2, <2>1, PostToSs DEF n
    <2>3. TypeOK'
      BY <1>1, <1>2, <1>7, <2>2, MtTail DEF IInv, TypeOK
    <2>4. \A p \in Calls : Queued(p)' => Queued(p) \/ p = r
      BY <2>2 DEF Queued
    <2>5. Untouched'
      BY <1>1, <1>9, <1>12, <1>15, <2>4 DEF IInv, Untouched
    <2>6. QueuedOnce'
      <3>1. \A i \in 1..Len(ssQueue) : ssQueue[i].call # r
        BY <1>11, <1>15 DEF Queued
      <3>2. QED
        BY <2>2, <3>1 DEF IInv, QueuedOnce
    <2>7. TasksMatch'
      BY <1>1, <1>2, <1>8, <1>9, <1>15, <2>2 DEF IInv, TasksMatch
    <2>8. CallbackOnce'
      <3>1. ASSUME NEW p \in Calls, p # r
            PROVE  /\ runs'[p] <= 1
                   /\ (runs'[p] = 1 \/ Queued(p)') => /\ \A y \in Ticks : callbacks'[y] # p
                                                      /\ \A t \in Threads : sending'[t] # p
                   /\ runs'[p] = 1 => ~Queued(p)'
        BY <1>1, <1>7, <2>4, <3>1, CallsAssumption DEF IInv, CallbackOnce
      <3>2. runs'[r] <= 1 /\ runs'[r] # 1
        BY <1>1, <1>11, <1>15, <2>1 DEF IInv, CallbackOnce
      <3>3. /\ \A y \in Ticks : callbacks'[y] # r
            /\ \A t \in Threads : sending'[t] # r
        BY <1>1, <1>9, <1>10, <1>15
      <3>4. ASSUME NEW p \in Calls
            PROVE  /\ runs'[p] <= 1
                   /\ (runs'[p] = 1 \/ Queued(p)') => /\ \A y \in Ticks : callbacks'[y] # p
                                                      /\ \A t \in Threads : sending'[t] # p
                   /\ runs'[p] = 1 => ~Queued(p)'
        BY <3>1, <3>2, <3>3
      <3>5. QED
        BY <3>4 DEF CallbackOnce
    <2>9. QED
      BY <1>13, <2>2, <2>3, <2>5, <2>6, <2>7, <2>8 DEF IInv
  <1>16. QED
    BY <1>14, <1>15

LEMMA SsStepInv ==
    ASSUME IInv, SsStep
    PROVE  IInv'
  <1>3. ssQueue \in Seq(SsTasks) /\ ssQueue # <<>>
    BY DEF SsStep, SsCallback, SsNotify, SsTake, IInv, TypeOK
  <1>0. PICK e \in SsTasks : e = Head(ssQueue)
    BY <1>3, TailFacts
  <1>1. UNCHANGED <<status, nextId, connecting, connectionId, clock, transaction, sending, sentOn,
                    callbacks, inbox, mtQueue>>
    BY DEF SsStep, SsCallback, SsNotify, SsTake, connectionVars, callVars
  <1>2. /\ ssQueue # <<>> /\ ssQueue' = Tail(ssQueue) /\ last' = e.n
        /\ \/ e.call # NoCall /\ runs' = [runs EXCEPT ![e.call] = @ + 1]
           \/ e.call = NoCall /\ runs' = runs
    BY <1>0 DEF SsStep, SsCallback, SsNotify, SsTake
  <1>4. /\ ssQueue' \in Seq(SsTasks)
        /\ Len(ssQueue) \in Nat
        /\ Len(ssQueue') = Len(ssQueue) - 1
        /\ \A i \in 1..Len(ssQueue') : ssQueue'[i] = ssQueue[i + 1] /\ i + 1 \in 1..Len(ssQueue)
        /\ e = ssQueue[1]
        /\ 1 \in 1..Len(ssQueue)
        /\ e \in SsTasks
    BY <1>0, <1>2, <1>3, TailFacts
  <1>5. e.n \in Nat /\ e.call \in Calls \cup {NoCall}
    BY DEF SsTasks
  <1>6. TypeOK'
    <2>1. runs' \in [Calls -> Nat]
      <3>1. runs \in [Calls -> Nat]
        BY DEF IInv, TypeOK
      <3>2. CASE e.call # NoCall
        <4>1. e.call \in Calls /\ runs[e.call] + 1 \in Nat
          BY <1>5, <3>1, <3>2
        <4>2. QED
          BY <1>2, <3>1, <3>2, <4>1
      <3>3. CASE e.call = NoCall
        BY <1>2, <3>1, <3>3
      <3>4. QED
        BY <3>2, <3>3
    <2>2. last' \in Nat
      BY <1>2, <1>5
    <2>3. QED
      BY <1>1, <1>4, <2>1, <2>2 DEF IInv, TypeOK
  <1>7. TasksArrived'
    BY <1>1, <1>2, <1>4 DEF IInv, TasksArrived
  <1>8. InOrder'
    <2>1. MtOrdered' /\ SsOrdered' /\ SsBeforeMt'
      <3>1. MtOrdered'
        BY <1>1 DEF IInv, InOrder, MtOrdered
      <3>2. SsOrdered'
        BY <1>4 DEF IInv, InOrder, SsOrdered
      <3>3. SsBeforeMt'
        BY <1>1, <1>4 DEF IInv, InOrder, SsBeforeMt
      <3>4. QED
        BY <3>1, <3>2, <3>3
    <2>2. ASSUME NEW i \in 1..Len(ssQueue') PROVE e.n < ssQueue'[i].n
      <3>1. 1 < i + 1
        OBVIOUS
      <3>2. QED
        BY <1>4, <3>1 DEF IInv, InOrder, SsOrdered
    <2>3. SeenBefore'
      BY <1>1, <1>2, <1>4, <2>2 DEF IInv, InOrder, SsBeforeMt, SeenBefore
    <2>4. QED
      BY <2>1, <2>3 DEF InOrder
  <1>9. ArrivalsAsked' /\ SendersApart' /\ FiledByTransaction'
    BY <1>1 DEF IInv, ArrivalsAsked, SendersApart, FiledByTransaction
  <1>10. QueuedOnce'
    BY <1>4 DEF IInv, QueuedOnce
  <1>11. TasksMatch'
    BY <1>1, <1>4 DEF IInv, TasksMatch
  <1>12. \A r \in Calls : Queued(r)' => Queued(r)
    BY <1>4 DEF Queued
  <1>13. CASE e.call = NoCall
    BY <1>1, <1>2, <1>6, <1>7, <1>8, <1>9, <1>10, <1>11, <1>12, <1>13
       DEF IInv, Untouched, CallbackOnce
  <1>14. CASE e.call # NoCall
    <2>1. /\ e.call \in Calls /\ Queued(e.call)
          /\ runs'[e.call] = runs[e.call] + 1
          /\ \A r \in Calls : r # e.call => runs'[r] = runs[r]
      BY <1>2, <1>4, <1>5, <1>14 DEF IInv, TypeOK, Queued
    <2>2. runs[e.call] = 0
      BY <2>1 DEF IInv, TypeOK, CallbackOnce
    <2>3. ~Queued(e.call)'
      <3>1. ASSUME NEW i \in 1..Len(ssQueue'), ssQueue'[i].call = e.call
            PROVE  FALSE
        <4>1. i + 1 = 1
          BY <1>4, <1>14, <3>1 DEF IInv, QueuedOnce
        <4>2. QED
          BY <4>1
      <3>2. QED
        BY <3>1 DEF Queued
    <2>4. Untouched'
      BY <1>1, <1>12, <2>1 DEF IInv, Untouched
    <2>5. CallbackOnce'
      <3>1. ASSUME NEW r \in Calls
            PROVE  /\ runs'[r] <= 1
                   /\ (runs'[r] = 1 \/ Queued(r)') => /\ \A x \in Ticks : callbacks'[x] # r
                                                      /\ \A t \in Threads : sending'[t] # r
                   /\ runs'[r] = 1 => ~Queued(r)'
        <4>1. CASE r = e.call
          BY <1>1, <2>1, <2>2, <2>3, <4>1 DEF IInv, CallbackOnce
        <4>2. CASE r # e.call
          BY <1>1, <1>12, <2>1, <4>2 DEF IInv, CallbackOnce
        <4>3. QED
          BY <4>1, <4>2
      <3>2. QED
        BY <3>1 DEF CallbackOnce
    <2>6. QED
      BY <1>6, <1>7, <1>8, <1>9, <1>10, <1>11, <2>4, <2>5 DEF IInv
  <1>15. QED
    BY <1>13, <1>14

LEMMA NextInv == IInv /\ [Next]_vars => IInv'
  <1> SUFFICES ASSUME IInv, [Next]_vars PROVE IInv'
    OBVIOUS
  <1>1. CASE Tick \/ ConnectBegin \/ ConnectEnd \/ ConnectRejected
    BY <1>1, ConnectInv
  <1>2. ASSUME NEW t \in Threads, Register(t) PROVE IInv'
    BY <1>2, RegisterInv
  <1>3. ASSUME NEW t \in Threads, NEW r \in Calls, SendText(t, r) PROVE IInv'
    BY <1>3, SendTextInv
  <1>4. ASSUME NEW t \in Threads, NEW r \in Calls, SendDropped(t, r) PROVE IInv'
    BY <1>4, SendDroppedInv
  <1>5. CASE Websocket
    BY <1>5, WebsocketInv
  <1>6. CASE MtStep
    BY <1>6, MtReplyInv, MtNotifyInv DEF MtStep
  <1>7. CASE SsStep
    BY <1>7, SsStepInv
  <1>8. CASE UNCHANGED vars
    BY <1>8 DEF vars, connectionVars, callVars, observedVars, IInv, TypeOK, TasksArrived, InOrder,
       MtOrdered, SsOrdered, SsBeforeMt, SeenBefore, ArrivalsAsked, Untouched, Queued, SendersApart,
       FiledByTransaction, QueuedOnce, TasksMatch, CallbackOnce
  <1>9. QED
    BY <1>1, <1>2, <1>3, <1>4, <1>5, <1>6, <1>7, <1>8 DEF Next

-----------------------------------------------------------------------------
(* The theorems.                                                           *)

\* Every reachable state satisfies the inductive invariant.
THEOREM Invariance == Spec => []IInv
  <1>1. QED
    BY InitInv, NextInv, PTL DEF Spec

\* Type correctness of the transport: ids, transactions and queues stay in
\* their types (message_transport.h, websocket_endpoint.h).
THEOREM TypeCorrect == Spec => []TypeOK
  <1>1. IInv => TypeOK
    BY DEF IInv
  <1>2. QED
    BY <1>1, Invariance, PTL

\* Replies and notifications reach signaling-service in the order in which the
\* websocket thread received them, whatever the calls and the connections
\* (message_transport.cpp:134-195).
THEOREM OrderPreserved == Spec => []InOrder
  <1>1. IInv => InOrder
    BY DEF IInv
  <1>2. QED
    BY <1>1, Invariance, PTL

\* No callback runs twice, nor is it left where it could be run again
\* (message_transport.cpp:71-81 and 172-183).
THEOREM AtMostOnce == Spec => []CallbackOnce
  <1>1. IInv => CallbackOnce
    BY DEF IInv
  <1>2. QED
    BY <1>1, Invariance, PTL

\* Each step of the transport is a step of RequestReply or leaves all that
\* RequestReply speaks of unchanged.
LEMMA StepKeepsPromise ==
    ASSUME IInv, [Next]_vars
    PROVE  [Promise!Next]_(Promise!vars)
  <1> USE DEF Promise!vars
  <1>1. CASE Tick \/ ConnectBegin \/ ConnectEnd \/ ConnectRejected \/ MtStep \/ UNCHANGED vars
    BY <1>1 DEF Tick, ConnectBegin, ConnectEnd, ConnectRejected, MtStep, MtReply, MtNotify, vars,
       connectionVars, callVars, observedVars
  <1>2. ASSUME NEW t \in Threads, Register(t)
        PROVE  UNCHANGED Promise!vars
    BY <1>2 DEF Register, connectionVars, observedVars
  <1>3. ASSUME NEW t \in Threads, NEW r \in Calls, SendText(t, r) \/ SendDropped(t, r)
        PROVE  Promise!Next
    <2>1. /\ clock \in 1..MaxTick /\ transaction[r] = 0
          /\ transaction' = [transaction EXCEPT ![r] = clock]
          /\ UNCHANGED <<inbox, runs, last>>
      BY <1>3 DEF SendText, SendDropped, Draw, IInv, TypeOK, Ticks, observedVars
    <2>2. Promise!Ask(r)
      BY <2>1 DEF Promise!Ask
    <2>3. QED
      BY <2>2 DEF Promise!Next
  <1>4. ASSUME NEW kind \in Kinds, NEW r \in Calls \cup {NoCall}, Arrive(kind, r),
               IF kind = "reply" THEN r \in Calls /\ transaction[r] # 0 /\ ~Replied(r)
                                 ELSE r = NoCall
        PROVE  Promise!Next
    <2> DEFINE m == [kind |-> kind, call |-> r]
    <2>1. m \in Promise!Arrivals
      BY <1>4 DEF Kinds, Promise!Arrivals, Promise!Notifications, Promise!Replies
    <2>2. m.kind = "reply" => transaction[m.call] # 0 /\ \A n \in 1..Len(inbox) : inbox[n] # m
      BY <1>4 DEF Replied
    <2>3. inbox' = Append(inbox, m) /\ UNCHANGED <<transaction, runs, last>>
      BY <1>4 DEF Arrive, callVars, observedVars
    <2>4. Promise!Arrive(m)
      BY <2>2, <2>3 DEF Promise!Arrive
    <2>5. QED
      BY <2>1, <2>4 DEF Promise!Next
  <1>5. CASE Websocket
    <2>1. PICK c \in Connections :
              \/ OnOpen(c) \/ OnFail(c) \/ OnClose(c) \/ OnEvent(c)
              \/ \E r \in Calls : OnReply(c, r)
      BY <1>5 DEF Websocket
    <2>2. CASE OnOpen(c) \/ OnFail(c) \/ OnClose(c) \/ OnEvent(c)
      BY <1>4, <2>2 DEF OnOpen, OnFail, OnClose, OnEvent, Kinds
    <2>3. ASSUME NEW r \in Calls, OnReply(c, r) PROVE Promise!Next
      <3>1. transaction[r] # 0
        BY <2>3 DEF OnReply, IInv, ArrivalsAsked, Connections
      <3>2. QED
        BY <1>4, <2>3, <3>1 DEF OnReply, Kinds
    <2>4. QED
      BY <2>1, <2>2, <2>3
  <1>6. CASE SsStep
    <2>1. /\ ssQueue # <<>>
          /\ UNCHANGED <<transaction, inbox>>
          /\ last' = Head(ssQueue).n
      BY <1>6 DEF SsStep, SsCallback, SsNotify, SsTake, callVars
    <2>2. Head(ssQueue) = ssQueue[1] /\ 1 \in 1..Len(ssQueue)
      BY <2>1, TailFacts DEF IInv, TypeOK
    <2>3. PICK e \in SsTasks : e = ssQueue[1]
      BY <2>2 DEF IInv, TypeOK
    <2>4. e.n \in 1..Len(inbox) /\ last < e.n /\ last' = e.n
      BY <2>1, <2>2, <2>3 DEF IInv, TasksArrived, InOrder, SeenBefore
    <2>5. CASE SsCallback
      <3>1. e.call # NoCall /\ runs' = [runs EXCEPT ![e.call] = @ + 1]
        BY <2>2, <2>3, <2>5 DEF SsCallback
      <3>2. e.call \in Calls /\ Queued(e.call)
        BY <2>2, <2>3, <3>1 DEF SsTasks, Queued
      <3>3. runs[e.call] = 0
        <4>1. runs[e.call] \in Nat
          BY <3>2 DEF IInv, TypeOK
        <4>2. runs[e.call] <= 1 /\ runs[e.call] # 1
          BY <3>2 DEF IInv, CallbackOnce
        <4>3. QED
          BY <4>1, <4>2
      <3>4. inbox[e.n].kind = "reply" /\ transaction[inbox[e.n].call] = transaction[e.call]
        BY <2>2, <2>3, <3>1 DEF IInv, TasksMatch
      <3>5. Promise!Complete(e.call, e.n)
        BY <2>1, <2>4, <3>1, <3>2, <3>3, <3>4 DEF Promise!Complete, Promise!Consume
      <3>6. QED
        BY <2>4, <3>2, <3>5 DEF Promise!Next
    <2>6. CASE SsNotify
      <3>1. e.call = NoCall /\ UNCHANGED runs
        BY <2>2, <2>3, <2>6 DEF SsNotify
      <3>2. inbox[e.n].kind # "reply"
        BY <2>2, <2>3, <3>1 DEF IInv, TasksMatch
      <3>3. Promise!Observe(e.n)
        BY <2>1, <2>4, <3>1, <3>2 DEF Promise!Observe, Promise!Consume
      <3>4. QED
        BY <2>4, <3>3 DEF Promise!Next
    <2>7. QED
      BY <1>6, <2>5, <2>6 DEF SsStep
  <1>7. QED
    BY <1>1, <1>2, <1>3, <1>5, <1>6 DEF Next

\* The transport, with its threads, its two queues and its map, implements
\* RequestReply: arrivals are consumed in order and at most once, and a reply
\* completes, at most once, a call asked under its transaction.
THEOREM TransportImplementsPromise == Spec => PromiseKept
  <1>1. Init => Promise!Init
    BY DEF Init, Promise!Init
  <1>2. IInv /\ [Next]_vars => [Promise!Next]_(Promise!vars)
    BY StepKeepsPromise
  <1>3. QED
    BY <1>1, <1>2, Invariance, PTL DEF Spec, PromiseKept, Promise!Spec

-----------------------------------------------------------------------------
(* Where a call whose text went out can be: with the thread that sends it, *)
(* in the map, on its way to signaling-service, or done.  It gets lost     *)
(* only through another call with its transaction, which replaces it in    *)
(* the map or whose reply takes it from there.                             *)

Located(r) ==
    \/ runs[r] = 1
    \/ Queued(r)
    \/ \E t \in Threads : sending[t] = r
    \/ callbacks[transaction[r]] = r

SentLocated == \A r \in Calls : sentOn[r] # 0 /\ Alone(r) => Located(r)

RepliesSent == \A n \in 1..Len(inbox) : inbox[n].kind = "reply" => sentOn[inbox[n].call] # 0

LInv == SentLocated /\ RepliesSent

\* A call that draws: it is in the hands of its thread if it was sent, and
\* leaves the others where they were.
LEMMA DrawLocated ==
    ASSUME IInv, LInv, NEW t \in Threads, NEW r \in Calls, SendText(t, r) \/ SendDropped(t, r)
    PROVE  LInv'
  <1> USE DrawFresh DEF SendText, SendDropped
  <1>1. UNCHANGED <<callbacks, inbox, ssQueue, runs>>
    BY DEF observedVars
  <1>2. /\ \A u \in Threads : u # t => sending'[u] = sending[u]
        /\ \A q \in Calls : q # r => sentOn'[q] = sentOn[q]
        /\ sentOn'[r] # 0 => sending'[t] = r
        /\ sending[t] = NoCall
    BY DEF IInv, TypeOK, Draw
  <1>3. RepliesSent'
    BY <1>1, <1>2 DEF IInv, ArrivalsAsked, LInv, RepliesSent
  <1>4. ASSUME NEW q \in Calls, q # r, sentOn'[q] # 0, Alone(q)'
        PROVE  Located(q)'
    <2>1. sentOn[q] # 0 /\ transaction[q] # 0 /\ transaction'[q] = transaction[q]
      BY <1>2, <1>4 DEF IInv, ArrivalsAsked
    <2>2. transaction[r] = 0
      BY DEF Draw
    <2>3. Alone(q)
      BY <1>4, <2>1, <2>2 DEF Alone
    <2>4. Located(q)
      BY <2>1, <2>3 DEF LInv, SentLocated
    <2>5. \A u \in Threads : sending[u] = q => sending'[u] = q
      BY <1>2, CallsAssumption
    <2>6. QED
      BY <1>1, <2>1, <2>4, <2>5 DEF Located, Queued
  <1>5. sentOn'[r] # 0 => Located(r)'
    BY <1>2 DEF Located
  <1>6. SentLocated'
    BY <1>4, <1>5 DEF SentLocated
  <1>7. QED
    BY <1>3, <1>6 DEF LInv

LEMMA RegisterLocated ==
    ASSUME IInv, LInv, NEW t \in Threads, Register(t)
    PROVE  LInv'
  <1>1. UNCHANGED <<transaction, sentOn, inbox, ssQueue, runs>>
    BY DEF Register, observedVars
  <1>2. PICK r \in Calls : sending[t] = r
    BY DEF Register, IInv, TypeOK
  <1>3. PICK x \in Ticks : transaction[r] = x
    BY <1>2, CallsAssumption, BoundAssumption DEF IInv, TypeOK, SendersApart, Ticks
  <1>4. /\ callbacks'[x] = r
        /\ \A y \in Ticks : y # x => callbacks'[y] = callbacks[y]
        /\ \A u \in Threads : u # t => sending'[u] = sending[u]
    BY <1>2, <1>3 DEF Register, IInv, TypeOK
  <1>5. ASSUME NEW q \in Calls, sentOn[q] # 0, Alone(q)
        PROVE  Located(q)'
    <2>1. CASE q = r
      BY <1>1, <1>3, <1>4, <2>1 DEF Located
    <2>2. CASE q # r
      <3>1. transaction[q] # x /\ transaction[q] \in Ticks
        BY <1>3, <1>5, <2>2, BoundAssumption DEF Alone, IInv, TypeOK, ArrivalsAsked, Ticks
      <3>2. Located(q)
        BY <1>5 DEF LInv, SentLocated
      <3>3. callbacks[transaction[q]] = q => callbacks'[transaction'[q]] = q
        BY <1>1, <1>4, <3>1
      <3>4. \A u \in Threads : sending[u] = q => sending'[u] = q
        BY <1>2, <1>4, <2>2
      <3>5. QED
        BY <1>1, <3>2, <3>3, <3>4 DEF Located, Queued
    <2>3. QED
      BY <2>1, <2>2
  <1>6. QED
    BY <1>1, <1>5 DEF LInv, SentLocated, RepliesSent, Alone

\* A reply takes from the map only its own call or one that is not alone.
LEMMA MtReplyLocated ==
    ASSUME IInv, LInv, MtReply
    PROVE  LInv'
  <1>1. UNCHANGED <<transaction, sending, sentOn, inbox, runs, last>>
    BY DEF MtReply, callVars, observedVars
  <1>2. PICK n \in 1..Len(inbox) : n = Head(mtQueue)
    BY <1>1, MtTail DEF MtReply
  <1>3. PICK q \in Calls : q = inbox[n].call /\ transaction[q] # 0
    BY <1>2 DEF MtReply, IInv, ArrivalsAsked
  <1>4. PICK x \in Ticks : x = transaction[q]
    BY <1>3, BoundAssumption DEF IInv, TypeOK, Ticks
  <1>5. PICK r \in Calls \cup {NoCall} : r = callbacks[x]
    BY DEF IInv, TypeOK
  <1>6. /\ ssQueue' = IF r = NoCall THEN ssQueue ELSE Append(ssQueue, [n |-> n, call |-> r])
        /\ callbacks' = [callbacks EXCEPT ![x] = NoCall]
        /\ mtQueue # <<>> /\ mtQueue' = Tail(mtQueue)
    BY <1>2, <1>3, <1>4, <1>5 DEF MtReply, CallbackFor, Forget
  <1>7. \A y \in Ticks : y # x => callbacks'[y] = callbacks[y]
    BY <1>6 DEF IInv, TypeOK
  <1>8. \A p \in Calls : Queued(p) => Queued(p)'
    <2>1. CASE r = NoCall
      BY <1>6, <2>1 DEF Queued
    <2>2. CASE r # NoCall
      BY <1>1, <1>2, <1>6, <2>2, PostKeepsQueued
    <2>3. QED
      BY <2>1, <2>2
  <1>9. r # NoCall => Queued(r)'
    <2>1. SUFFICES ASSUME r # NoCall PROVE Queued(r)'
      OBVIOUS
    <2>2. /\ Len(ssQueue) \in Nat /\ Len(ssQueue') = Len(ssQueue) + 1
          /\ \A i \in 1..Len(ssQueue') :
                \/ i \in 1..Len(ssQueue) /\ ssQueue'[i] = ssQueue[i]
                \/ i = Len(ssQueue) + 1 /\ ssQueue'[i] = [n |-> Head(mtQueue), call |-> r]
      BY <1>1, <1>2, <1>6, <2>1, PostToSs
    <2>3. Len(ssQueue) + 1 \in 1..Len(ssQueue') /\ ssQueue'[Len(ssQueue) + 1].call = r
      BY <2>2
    <2>4. QED
      BY <2>3 DEF Queued
  <1>10. ASSUME NEW p \in Calls, sentOn[p] # 0, Alone(p)
         PROVE  Located(p)'
    <2>1. Located(p) /\ transaction[p] \in Ticks
      BY <1>10, BoundAssumption DEF LInv, SentLocated, IInv, TypeOK, ArrivalsAsked, Ticks
    <2>2. CASE callbacks[transaction[p]] = p
      <3>1. CASE transaction[p] = x
        BY <1>5, <1>9, <2>2, <3>1, CallsAssumption DEF Located
      <3>2. CASE transaction[p] # x
        BY <1>1, <1>7, <2>1, <2>2, <3>2 DEF Located
      <3>3. QED
        BY <3>1, <3>2
    <2>3. CASE callbacks[transaction[p]] # p
      BY <1>1, <1>8, <2>1, <2>3 DEF Located
    <2>4. QED
      BY <2>2, <2>3
  <1>11. QED
    BY <1>1, <1>10 DEF LInv, SentLocated, RepliesSent, Alone

LEMMA MtNotifyLocated ==
    ASSUME IInv, LInv, MtNotify
    PROVE  LInv'
  <1>1. UNCHANGED <<transaction, sending, sentOn, callbacks, inbox, runs, last>>
    BY DEF MtNotify, callVars, observedVars
  <1>2. \A p \in Calls : Queued(p) => Queued(p)'
    BY <1>1, PostKeepsQueued DEF MtNotify
  <1>3. \A p \in Calls : Located(p) => Located(p)'
    BY <1>1, <1>2 DEF Located
  <1>4. QED
    BY <1>1, <1>3 DEF LInv, SentLocated, RepliesSent, Alone

LEMMA WebsocketLocated ==
    ASSUME IInv, LInv, Websocket
    PROVE  LInv'
  <1>1. PICK kind \in Kinds, r \in Calls \cup {NoCall} :
            Arrive(kind, r) /\ (kind = "reply" => sentOn[r] # 0)
    <2>1. PICK c \in Connections :
              \/ OnOpen(c) \/ OnFail(c) \/ OnClose(c) \/ OnEvent(c)
              \/ \E r \in Calls : OnReply(c, r)
      BY DEF Websocket
    <2>2. CASE OnOpen(c) \/ OnFail(c) \/ OnClose(c) \/ OnEvent(c)
      BY <2>2 DEF OnOpen, OnFail, OnClose, OnEvent, Kinds
    <2>3. CASE \E r \in Calls : OnReply(c, r)
      BY <2>3 DEF OnReply, Kinds, Connections
    <2>4. QED
      BY <2>1, <2>2, <2>3
  <1>2. UNCHANGED <<transaction, sending, sentOn, callbacks, ssQueue, runs>>
    BY <1>1 DEF Arrive, callVars, observedVars
  <1>3. RepliesSent'
    <2> DEFINE m == [kind |-> kind, call |-> r]
    <2>1. m \in Arrivals /\ inbox \in Seq(Arrivals) /\ inbox' = Append(inbox, m)
      BY <1>1 DEF Arrive, Arrivals, IInv, TypeOK
    <2>2. /\ Len(inbox') = Len(inbox) + 1 /\ Len(inbox) \in Nat
          /\ \A i \in 1..Len(inbox) : inbox'[i] = inbox[i]
          /\ inbox'[Len(inbox) + 1] = m
      BY <2>1, AppendFacts
    <2>3. QED
      BY <1>1, <1>2, <2>2 DEF LInv, RepliesSent
  <1>4. SentLocated'
    BY <1>2 DEF LInv, SentLocated, Alone, Located, Queued
  <1>5. QED
    BY <1>3, <1>4 DEF LInv

LEMMA SsStepLocated ==
    ASSUME IInv, LInv, SsStep
    PROVE  LInv'
  <1>1. UNCHANGED <<transaction, sending, sentOn, callbacks, inbox>>
    BY DEF SsStep, SsCallback, SsNotify, SsTake, callVars
  <1>2. ssQueue \in Seq(SsTasks) /\ ssQueue # <<>>
    BY DEF SsStep, SsCallback, SsNotify, SsTake, IInv, TypeOK
  <1>3. PICK e \in SsTasks : e = Head(ssQueue)
    BY <1>2, TailFacts
  <1>4. /\ Len(ssQueue) \in Nat
        /\ Len(ssQueue') = Len(ssQueue) - 1
        /\ \A i \in 1..Len(ssQueue') : ssQueue'[i] = ssQueue[i + 1] /\ i + 1 \in 1..Len(ssQueue)
        /\ e = ssQueue[1]
        /\ 1 \in 1..Len(ssQueue)
    BY <1>2, <1>3, TailFacts DEF SsStep, SsCallback, SsNotify, SsTake
  <1>5. ASSUME NEW p \in Calls, Queued(p), p # e.call
        PROVE  Queued(p)'
    <2>1. PICK i \in 1..Len(ssQueue) : ssQueue[i].call = p
      BY <1>5 DEF Queued
    <2>2. i # 1
      BY <1>4, <1>5, <2>1
    <2>3. i - 1 \in 1..Len(ssQueue') /\ (i - 1) + 1 = i
      BY <1>4, <2>2
    <2>4. ssQueue'[i - 1].call = p
      BY <1>4, <2>1, <2>3
    <2>5. QED
      BY <2>3, <2>4 DEF Queued
  <1>6. ASSUME NEW p \in Calls
        PROVE  runs[p] = 1 => runs'[p] = 1
    <2>1. p = e.call => Queued(p)
      BY <1>4 DEF Queued
    <2>2. runs[p] = 1 => p # e.call
      BY <2>1 DEF IInv, CallbackOnce
    <2>3. QED
      BY <1>3, <2>2 DEF SsStep, SsCallback, SsNotify, IInv, TypeOK
  <1>7. ASSUME NEW p \in Calls, p = e.call
        PROVE  runs'[p] = 1
    <2>1. Queued(p) /\ e.call # NoCall
      BY <1>4, <1>7, CallsAssumption DEF Queued
    <2>2. runs[p] \in Nat /\ runs[p] <= 1 /\ runs[p] # 1
      BY <2>1 DEF IInv, TypeOK, CallbackOnce
    <2>3. runs'[p] = runs[p] + 1
      BY <1>3, <1>7, <2>1 DEF SsStep, SsCallback, SsNotify, IInv, TypeOK
    <2>4. QED
      BY <2>2, <2>3
  <1>8. \A p \in Calls : Located(p) => Located(p)'
    BY <1>1, <1>5, <1>6, <1>7 DEF Located
  <1>9. QED
    BY <1>1, <1>8 DEF LInv, SentLocated, RepliesSent, Alone

LEMMA NextLocated == IInv /\ LInv /\ [Next]_vars => LInv'
  <1> SUFFICES ASSUME IInv, LInv, [Next]_vars PROVE LInv'
    OBVIOUS
  <1>1. CASE Tick \/ ConnectBegin \/ ConnectEnd \/ ConnectRejected \/ UNCHANGED vars
    BY <1>1 DEF Tick, ConnectBegin, ConnectEnd, ConnectRejected, vars, connectionVars, callVars,
       observedVars, LInv, SentLocated, RepliesSent, Alone, Located, Queued
  <1>2. ASSUME NEW t \in Threads, Register(t) PROVE LInv'
    BY <1>2, RegisterLocated
  <1>3. ASSUME NEW t \in Threads, NEW r \in Calls, SendText(t, r) \/ SendDropped(t, r) PROVE LInv'
    BY <1>3, DrawLocated
  <1>4. CASE Websocket
    BY <1>4, WebsocketLocated
  <1>5. CASE MtStep
    BY <1>5, MtReplyLocated, MtNotifyLocated DEF MtStep
  <1>6. CASE SsStep
    BY <1>6, SsStepLocated
  <1>7. QED
    BY <1>1, <1>2, <1>3, <1>4, <1>5, <1>6 DEF Next

\* A processed reply leaves its call unanswered only because it came before the
\* registration, or because another call has the same transaction
\* (message_transport.cpp:71-81 and 167-186).
THEOREM RaceOrClashOnly == Spec => []LostOnlyByRace
  <1>1. Init => LInv
    <2>1. ASSUME Init PROVE Len(inbox) = 0 /\ \A r \in Calls : sentOn[r] = 0
      BY <2>1 DEF Init
    <2>2. QED
      BY <2>1 DEF LInv, SentLocated, RepliesSent
  <1>2. IInv /\ LInv => LostOnlyByRace
    <2> SUFFICES ASSUME LInv, NEW r \in Calls, Processed(r), Alone(r)
                 PROVE  Located(r)
      BY DEF LostOnlyByRace, Located
    <2>1. sentOn[r] # 0
      BY DEF Processed, LInv, RepliesSent
    <2>2. QED
      BY <2>1 DEF LInv, SentLocated
  <1>3. QED
    BY <1>1, <1>2, NextLocated, Invariance, PTL DEF Spec
=============================================================================
