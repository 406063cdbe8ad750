--------------------- MODULE UniversalObservableProofs ---------------------
(***************************************************************************)
(* Proofs about UniversalObservable, for any observers, threads and number *)
(* of events: its type invariant, that an observer is called at most once  *)
(* with an event and only with one raised while it was registered, and     *)
(* that the events of one thread reach it in their order.                  *)
(***************************************************************************)
EXTENDS UniversalObservable, TLAPS

-----------------------------------------------------------------------------
(* The inductive invariant.  An event goes from the copy of the thread that *)
(* raised it to the observer, at once or through the queue of the           *)
(* observer's thread.  What thread t has still to hand out is later than    *)
(* what it posted, and that is later than what was seen of it.              *)

Distinct(s) == \A i, j \in 1..Len(s) : s[i] = s[j] => i = j

\* The list holds each registered observer once.
ListExact == Distinct(observers) /\ Elements(observers) = wanted

\* A thread goes once through observers listed at an event of its own.
RestListed ==
    \A t \in Threads : notifying[t].rest # <<>> =>
        /\ notifying[t].event \in 1..raised
        /\ raisedBy[notifying[t].event] = t
        /\ Distinct(notifying[t].rest)
        /\ Elements(notifying[t].rest) \subseteq listed[notifying[t].event]

\* What is posted to a thread was raised on another, for a listed observer.
QueueListed ==
    \A t \in Threads : \A i \in 1..Len(queue[t]) :
        /\ queue[t][i].event \in 1..raised
        /\ queue[t][i].o \in listed[queue[t][i].event]
        /\ raisedBy[queue[t][i].event] # t

SeenListed ==
    \A o \in Observers : \A i \in 1..Len(seen[o]) :
        seen[o][i] \in 1..raised /\ o \in listed[seen[o][i]]

\* Of the events of one thread for one observer: those posted are in order,
QueueInOrder ==
    \A t \in Threads : \A i, j \in 1..Len(queue[t]) :
        /\ i < j
        /\ queue[t][i].o = queue[t][j].o
        /\ raisedBy[queue[t][i].event] = raisedBy[queue[t][j].event]
        => queue[t][i].event < queue[t][j].event

\* those seen come before those posted,
SeenBeforePosted ==
    \A t \in Threads : \A j \in 1..Len(queue[t]) :
        \A i \in 1..Len(seen[queue[t][j].o]) :
            raisedBy[seen[queue[t][j].o][i]] = raisedBy[queue[t][j].event]
            => seen[queue[t][j].o][i] < queue[t][j].event

\* and what the thread has still to hand out comes after both.
SeenBeforeRest ==
    \A t \in Threads : \A k \in 1..Len(notifying[t].rest) :
        \A i \in 1..Len(seen[notifying[t].rest[k]]) :
            raisedBy[seen[notifying[t].rest[k]][i]] = t
            => seen[notifying[t].rest[k]][i] < notifying[t].event

PostedBeforeRest ==
    \A t, u \in Threads : \A k \in 1..Len(notifying[t].rest) :
        \A j \in 1..Len(queue[u]) :
            /\ queue[u][j].o = notifying[t].rest[k]
            /\ raisedBy[queue[u][j].event] = t
            => queue[u][j].event < notifying[t].event

Listed == ListExact /\ RestListed /\ QueueListed /\ SeenListed

Ordered ==
    /\ CalledInOrder
    /\ QueueInOrder
    /\ SeenBeforePosted
    /\ SeenBeforeRest
    /\ PostedBeforeRest

IInv == TypeOK /\ Listed /\ Ordered

-----------------------------------------------------------------------------
(* Sequences.                                                              *)

LEMMA EntryType == ASSUME NEW S, NEW s \in Seq(S), NEW i \in 1..Len(s) PROVE s[i] \in S
  OBVIOUS

LEMMA AppendFacts ==
    ASSUME NEW S, NEW s \in Seq(S), NEW e \in S
    PROVE  /\ Append(s, e) \in Seq(S)
           /\ Len(Append(s, e)) = Len(s) + 1
           /\ \A i \in 1..Len(s) : Append(s, e)[i] = s[i]
           /\ Append(s, e)[Len(s) + 1] = e
  OBVIOUS

LEMMA TailFacts ==
    ASSUME NEW S, NEW s \in Seq(S), s # <<>>
    PROVE  /\ Tail(s) \in Seq(S) /\ Head(s) \in S
           /\ Len(s) \in Nat /\ Len(s) > 0 /\ Len(Tail(s)) = Len(s) - 1
           /\ Head(s) = s[1]
           /\ \A i \in 1..Len(Tail(s)) : i + 1 \in 1..Len(s) /\ Tail(s)[i] = s[i + 1]
  OBVIOUS

\* What is left of a copy without repetition does not hold its head.
LEMMA TailDistinct ==
    ASSUME NEW S, NEW s \in Seq(S), s # <<>>, Distinct(s)
    PROVE  /\ Distinct(Tail(s))
           /\ Elements(Tail(s)) \subseteq Elements(s)
           /\ Head(s) \in Elements(s)
           /\ Head(s) \notin Elements(Tail(s))
  BY TailFacts DEF Distinct, Elements

\* Erasing the first entry that is o leaves a list without repetition, and
\* without o.
LEMMA RemovesFacts ==
    ASSUME observers \in Seq(Observers), Distinct(observers),
           NEW o \in Observers, o \in Elements(observers)
    PROVE  /\ Removes(o) \in Seq(Observers)
           /\ Distinct(Removes(o))
           /\ Elements(Removes(o)) = Elements(observers) \ {o}
<1> DEFINE n == Len(observers)
           at == CHOOSE i \in 1..n : observers[i] = o /\ \A j \in 1..(i - 1) : observers[j] # o
           r == [j \in 1..(n - 1) |-> observers[IF j < at THEN j ELSE j + 1]]
<1>1. n \in Nat /\ \A i \in 1..n : observers[i] \in Observers
  OBVIOUS
<1>2. PICK k \in 1..n : observers[k] = o
  BY DEF Elements
<1>3. \A j \in 1..(k - 1) : observers[j] # o
  BY <1>1, <1>2 DEF Distinct
<1>4. at \in 1..n /\ observers[at] = o
  BY <1>2, <1>3
<1>5. n \in Nat \ {0} /\ n - 1 \in Nat
  BY <1>1, <1>2
<1>6. Removes(o) = r
  BY DEF Removes
<1> HIDE DEF at, n
<1>7. \A j \in 1..(n - 1) : (IF j < at THEN j ELSE j + 1) \in (1..n) \ {at}
  BY <1>4, <1>5
<1>8. r \in Seq(Observers) /\ Len(r) = n - 1
  BY <1>1, <1>5, <1>7
<1>9. \A j \in 1..(n - 1) : r[j] = observers[IF j < at THEN j ELSE j + 1]
  OBVIOUS
<1> HIDE DEF r
<1>10. \A i, j \in 1..n : observers[i] = observers[j] => i = j
  BY DEF Distinct, n
<1>11. Distinct(r)
  <2> SUFFICES ASSUME NEW i \in 1..(n - 1), NEW j \in 1..(n - 1), r[i] = r[j]
               PROVE  i = j
    BY <1>8 DEF Distinct
  <2>1. (IF i < at THEN i ELSE i + 1) = (IF j < at THEN j ELSE j + 1)
    BY <1>7, <1>9, <1>10
  <2> QED
    BY <1>4, <1>5, <2>1
<1>12. Elements(r) \subseteq Elements(observers) \ {o}
  BY <1>4, <1>7, <1>8, <1>9, <1>10 DEF Elements, n
<1>13. ASSUME NEW p \in Elements(observers) \ {o}
       PROVE  p \in Elements(r)
  <2>1. PICK i \in 1..n : observers[i] = p
    BY DEF Elements, n
  <2>2. i # at
    BY <1>4, <2>1
  <2>3. CASE i < at
    <3>1. i \in 1..(n - 1)
      BY <1>4, <1>5, <2>1, <2>3
    <3>2. r[i] = p
      BY <1>9, <2>1, <2>3, <3>1
    <3> QED
      BY <1>8, <3>1, <3>2 DEF Elements
  <2>4. CASE i > at
    <3>1. i - 1 \in 1..(n - 1) /\ ~(i - 1 < at) /\ (i - 1) + 1 = i
      BY <1>4, <1>5, <2>1, <2>4
    <3>2. r[i - 1] = p
      BY <1>9, <2>1, <3>1
    <3> QED
      BY <1>8, <3>1, <3>2 DEF Elements
  <2> QED
    BY <1>4, <2>1, <2>2, <2>3, <2>4
<1> QED
  BY <1>6, <1>8, <1>11, <1>12, <1>13

-----------------------------------------------------------------------------
(* Types.                                                                  *)

\* Each task names an observer, which is at home on the thread.
LEMMA QueueType ==
    ASSUME TypeOK, NEW u \in Threads, NEW i \in 1..Len(queue[u])
    PROVE  queue[u][i].o \in Observers /\ Home[queue[u][i].o] = u
<1>1. queue[u] \in Seq([o : Observers, event : Events])
  BY DEF TypeOK
<1>2. queue[u][i] \in [o : Observers, event : Events]
  BY <1>1, EntryType
<1> QED
  BY <1>2 DEF TypeOK

LEMMA InitType == ASSUME Init PROVE TypeOK
<1>1. (CHOOSE t \in Threads : TRUE) \in Threads
  BY ThreadsAssumption
<1>2. raisedBy \in [Events -> Threads]
  BY <1>1 DEF Init
<1>3. notifying \in [Threads -> [event : 0..MaxEvents, rest : Seq(Observers)]]
  BY BoundAssumption DEF Init
<1>4. /\ queue \in [Threads -> Seq([o : Observers, event : Events])]
      /\ \A t \in Threads : Len(queue[t]) = 0
  BY DEF Init
<1>5. /\ observers \in Seq(Observers) /\ alive \in [Observers -> BOOLEAN]
      /\ added \in Nat /\ wanted \subseteq Observers /\ raised \in 0..MaxEvents
      /\ listed \in [Events -> SUBSET Observers] /\ seen \in [Observers -> Seq(Events)]
  BY BoundAssumption DEF Init
<1> QED
  BY <1>2, <1>3, <1>4, <1>5 DEF TypeOK

\* A round starts: the event is the next number, for whoever is registered.
LEMMA NotifyType == ASSUME TypeOK, NEW t \in Threads, Notify(t) PROVE TypeOK'
<1>1. raised' \in 0..MaxEvents /\ raised + 1 \in Events
  BY BoundAssumption DEF Notify, TypeOK, Events
<1>2. notifying' \in [Threads -> [event : 0..MaxEvents, rest : Seq(Observers)]]
  BY <1>1, BoundAssumption DEF Notify, TypeOK, Events
<1> QED
  BY <1>1, <1>2 DEF Notify, TypeOK

\* The event and the observer that a thread hands out next.
LEMMA NextOfRest ==
    ASSUME TypeOK, Listed, NEW t \in Threads, ~Idle(t)
    PROVE  /\ Head(notifying[t].rest) \in Observers
           /\ notifying[t].event \in Events /\ notifying[t].event \in 1..raised
           /\ Head(notifying[t].rest) \in listed[notifying[t].event]
<1>1. notifying[t].rest \in Seq(Observers) /\ notifying[t].rest # <<>>
  BY DEF TypeOK, Idle
<1>2. Head(notifying[t].rest) \in listed[notifying[t].event]
  BY <1>1, TailDistinct DEF Listed, RestListed
<1>3. notifying[t].event \in 1..raised /\ 1..raised \subseteq Events
  BY <1>1, BoundAssumption DEF Listed, RestListed, TypeOK, Events
<1> QED
  BY <1>1, <1>2, <1>3, TailFacts

LEMMA NotifyNextType ==
    ASSUME TypeOK, Listed, NEW t \in Threads, NotifyNext(t)
    PROVE  TypeOK'
<1> DEFINE o == Head(notifying[t].rest)
           e == notifying[t].event
<1>1. o \in Observers /\ e \in Events
  BY NextOfRest DEF NotifyNext
<1>2. notifying' \in [Threads -> [event : 0..MaxEvents, rest : Seq(Observers)]]
  <2>1. notifying[t] \in [event : 0..MaxEvents, rest : Seq(Observers)]
    BY DEF TypeOK
  <2>2. Tail(notifying[t].rest) \in Seq(Observers)
    BY <2>1 DEF NotifyNext, Idle
  <2>3. notifying' = [notifying EXCEPT ![t].rest = Tail(notifying[t].rest)]
    BY DEF NotifyNext, Goes, TypeOK
  <2> QED
    BY <2>1, <2>2, <2>3 DEF TypeOK
<1>3. Home[o] \in Threads
  BY <1>1, HomeAssumption
<1>4. /\ queue' \in [Threads -> Seq([o : Observers, event : Events])]
      /\ seen' \in [Observers -> Seq(Events)]
      /\ \A u \in Threads : \A i \in 1..Len(queue'[u]) : Home[queue'[u][i].o] = u
  <2>1. CASE UNCHANGED queue /\ (UNCHANGED seen \/ Sees(o, e))
    <3>1. Append(seen[o], e) \in Seq(Events)
      BY <1>1, AppendFacts DEF TypeOK
    <3>2. Sees(o, e) => seen' = [seen EXCEPT ![o] = Append(seen[o], e)]
      BY DEF Sees
    <3>3. seen' \in [Observers -> Seq(Events)]
      BY <1>1, <2>1, <3>1, <3>2 DEF TypeOK
    <3> QED
      BY <2>1, <3>3 DEF TypeOK
  <2>2. CASE queue' = Posted(Home[o], o, e) /\ UNCHANGED seen
    <3> DEFINE x == [o |-> o, event |-> e]
    <3>1. x \in [o : Observers, event : Events] /\ x.o = o
      BY <1>1
    <3>a. queue' = [queue EXCEPT ![Home[o]] = Append(queue[Home[o]], x)]
      BY <2>2 DEF Posted
    <3> HIDE DEF x, o, e
    <3>b. Append(queue[Home[o]], x) \in Seq([o : Observers, event : Events])
      BY <1>3, <3>1, AppendFacts DEF TypeOK
    <3>2. /\ queue' \in [Threads -> Seq([o : Observers, event : Events])]
          /\ queue'[Home[o]] = Append(queue[Home[o]], x)
          /\ \A u \in Threads \ {Home[o]} : queue'[u] = queue[u]
      BY <1>3, <3>a, <3>b DEF TypeOK
    <3>3. ASSUME NEW u \in Threads, NEW i \in 1..Len(queue'[u])
          PROVE  Home[queue'[u][i].o] = u
      <4>1. CASE u # Home[o]
        BY <3>2, <4>1 DEF TypeOK
      <4>2. CASE u = Home[o]
        <5>1. queue[u] \in Seq([o : Observers, event : Events])
          BY DEF TypeOK
        <5>2. queue'[u][i] = IF i \in 1..Len(queue[u]) THEN queue[u][i] ELSE x
          <6>0. queue'[u] = Append(queue[u], x)
            BY <3>2, <4>2
          <6>a. /\ Len(queue[u]) \in Nat
                /\ Len(Append(queue[u], x)) = Len(queue[u]) + 1
                /\ \A k \in 1..Len(queue[u]) : Append(queue[u], x)[k] = queue[u][k]
                /\ Append(queue[u], x)[Len(queue[u]) + 1] = x
            BY <3>1, <5>1, AppendFacts
          <6>1. i \in 1..(Len(queue[u]) + 1)
            BY <6>0, <6>a
          <6>2. CASE i \in 1..Len(queue[u])
            BY <6>0, <6>a, <6>2
          <6>3. CASE i = Len(queue[u]) + 1
            BY <6>0, <6>a, <6>1, <6>3
          <6> QED
            BY <6>1, <6>2, <6>3, <6>a
        <5> QED
          BY <3>1, <4>2, <5>2, QueueType
      <4> QED
        BY <4>1, <4>2
    <3> QED
      BY <2>2, <3>2, <3>3 DEF TypeOK
  <2> QED
    BY <2>1, <2>2 DEF NotifyNext
<1> QED
  BY <1>2, <1>4 DEF NotifyNext, TypeOK

LEMMA RunType ==
    ASSUME TypeOK, NEW t \in Threads, Run(t)
    PROVE  TypeOK'
<1> DEFINE Task == [o : Observers, event : Events]
           task == Head(queue[t])
<1>1. queue[t] \in Seq(Task) /\ queue[t] # <<>>
  BY DEF Run, TypeOK
<1>2. task \in Task /\ Tail(queue[t]) \in Seq(Task)
  BY <1>1, TailFacts
<1>3. queue' = [queue EXCEPT ![t] = Tail(queue[t])]
  BY DEF Run
<1>4. seen' = seen \/ Sees(task.o, task.event)
  BY DEF Run
<1>5. \A i \in 1..Len(Tail(queue[t])) : Home[Tail(queue[t])[i].o] = t
  BY <1>1, TailFacts DEF TypeOK
<1> HIDE DEF task
<1>6. seen' \in [Observers -> Seq(Events)]
  <2>1. Append(seen[task.o], task.event) \in Seq(Events)
    BY <1>2, AppendFacts DEF TypeOK
  <2>2. Sees(task.o, task.event)
        => seen' = [seen EXCEPT ![task.o] = Append(seen[task.o], task.event)]
    BY DEF Sees
  <2> QED
    BY <1>2, <1>4, <2>1, <2>2 DEF TypeOK
<1>7. /\ queue' \in [Threads -> Seq(Task)]
      /\ queue'[t] = Tail(queue[t])
      /\ \A u \in Threads \ {t} : queue'[u] = queue[u]
  BY <1>2, <1>3 DEF TypeOK
<1>8. \A u \in Threads : \A i \in 1..Len(queue'[u]) : Home[queue'[u][i].o] = u
  BY <1>5, <1>7 DEF TypeOK
<1> QED
  BY <1>6, <1>7, <1>8 DEF Run, TypeOK

LEMMA NextType == ASSUME TypeOK, Listed, Next PROVE TypeOK'
<1>1. ASSUME NEW o \in Observers, Add(o)
      PROVE  TypeOK'
  <2>1. observers' \in Seq(Observers)
    BY <1>1, AppendFacts DEF Add, Adds, TypeOK
  <2>2. added' \in Nat /\ wanted' \subseteq Observers
    BY <1>1 DEF Add, TypeOK
  <2>3. UNCHANGED <<alive, notifying, queue, raised, raisedBy, listed, seen>>
    BY <1>1 DEF Add
  <2> QED
    BY <2>1, <2>2, <2>3 DEF TypeOK
<1>2. ASSUME NEW o \in Observers, Remove(o)
      PROVE  TypeOK'
  <2>1. observers' \in Seq(Observers)
    BY <1>2, RemovesFacts DEF Remove, TypeOK, Listed, ListExact
  <2> QED
    BY <1>2, <2>1 DEF Remove, TypeOK
<1>3. ASSUME NEW o \in Observers, Expire(o)
      PROVE  TypeOK'
  BY <1>3 DEF Expire, historyVars, TypeOK
<1> QED
  BY <1>1, <1>2, <1>3, NotifyType, NotifyNextType, RunType DEF Next, ThreadStep

-----------------------------------------------------------------------------
(* What the steps change, entry by entry.                                  *)

\* What o has seen: as before, or one event more.
LEMMA SeesFacts ==
    ASSUME TypeOK, NEW o \in Observers, NEW e \in Events, Sees(o, e)
    PROVE  \A p \in Observers : \A i \in 1..Len(seen'[p]) :
              /\ i \in Nat /\ Len(seen[p]) \in Nat
              /\ \/ i \in 1..Len(seen[p]) /\ seen'[p][i] = seen[p][i]
                 \/ p = o /\ i = Len(seen[o]) + 1 /\ seen'[p][i] = e
<1>1. seen' = [seen EXCEPT ![o] = Append(seen[o], e)]
  BY DEF Sees
<1>2. seen \in [Observers -> Seq(Events)]
  BY DEF TypeOK
<1>3. ASSUME NEW p \in Observers, NEW i \in 1..Len(seen'[p]), p # o
      PROVE  i \in 1..Len(seen[p]) /\ seen'[p][i] = seen[p][i] /\ Len(seen[p]) \in Nat
  BY <1>1, <1>2, <1>3
<1>4. ASSUME NEW i \in 1..Len(seen'[o])
      PROVE  /\ i \in Nat /\ Len(seen[o]) \in Nat
             /\ \/ i \in 1..Len(seen[o]) /\ seen'[o][i] = seen[o][i]
                \/ i = Len(seen[o]) + 1 /\ seen'[o][i] = e
  <2>1. seen'[o] = Append(seen[o], e) /\ seen[o] \in Seq(Events)
    BY <1>1, <1>2
  <2>2. Len(seen[o]) \in Nat /\ i \in 1..(Len(seen[o]) + 1)
    BY <2>1, AppendFacts
  <2> QED
    BY <2>1, <2>2, AppendFacts
<1> QED
  BY <1>3, <1>4

\* The queue of u: as before, or one call more.
LEMMA PostedFacts ==
    ASSUME TypeOK, NEW o \in Observers, NEW e \in Events, queue' = Posted(Home[o], o, e)
    PROVE  \A u \in Threads : \A i \in 1..Len(queue'[u]) :
              /\ i \in Nat /\ Len(queue[u]) \in Nat
              /\ \/ i \in 1..Len(queue[u]) /\ queue'[u][i] = queue[u][i]
                 \/ /\ u = Home[o] /\ i = Len(queue[u]) + 1
                    /\ queue'[u][i].o = o /\ queue'[u][i].event = e
<1> DEFINE Task == [o : Observers, event : Events]
           x == [o |-> o, event |-> e]
<1>0. x \in Task /\ x.o = o /\ x.event = e
  OBVIOUS
<1>1. queue' = [queue EXCEPT ![Home[o]] = Append(queue[Home[o]], x)]
  BY DEF Posted
<1> HIDE DEF x
<1>2. queue \in [Threads -> Seq(Task)]
  BY DEF TypeOK
<1>3. ASSUME NEW u \in Threads, NEW i \in 1..Len(queue'[u]), u # Home[o]
      PROVE  i \in 1..Len(queue[u]) /\ queue'[u][i] = queue[u][i] /\ Len(queue[u]) \in Nat
  BY <1>1, <1>2, <1>3
<1>4. ASSUME NEW u \in Threads, NEW i \in 1..Len(queue'[u]), u = Home[o]
      PROVE  /\ i \in Nat /\ Len(queue[u]) \in Nat
             /\ \/ i \in 1..Len(queue[u]) /\ queue'[u][i] = queue[u][i]
                \/ i = Len(queue[u]) + 1 /\ queue'[u][i] = x
  <2>1. queue'[u] = Append(queue[u], x) /\ queue[u] \in Seq(Task)
    BY <1>1, <1>2, <1>4
  <2>2. Len(queue[u]) \in Nat /\ i \in 1..(Len(queue[u]) + 1)
    BY <1>0, <2>1, AppendFacts
  <2> QED
    BY <1>0, <2>1, <2>2, AppendFacts
<1> QED
  BY <1>0, <1>3, <1>4

\* The rounds: that of t goes one on.
LEMMA GoesFacts ==
    ASSUME TypeOK, NEW t \in Threads, ~Idle(t), notifying' = Goes(t)
    PROVE  /\ \A u \in Threads : notifying'[u].event = notifying[u].event
           /\ \A u \in Threads \ {t} : notifying'[u] = notifying[u]
           /\ notifying'[t].rest = Tail(notifying[t].rest)
           /\ \A u \in Threads : \A k \in 1..Len(notifying'[u].rest) :
                \E j \in 1..Len(notifying[u].rest) :
                    notifying'[u].rest[k] = notifying[u].rest[j]
<1>1. notifying' = [notifying EXCEPT ![t].rest = Tail(notifying[t].rest)]
  BY DEF Goes
<1>2. notifying \in [Threads -> [event : 0..MaxEvents, rest : Seq(Observers)]]
  BY DEF TypeOK
<1>3. /\ \A u \in Threads : notifying'[u].event = notifying[u].event
      /\ \A u \in Threads \ {t} : notifying'[u] = notifying[u]
      /\ notifying'[t].rest = Tail(notifying[t].rest)
  BY <1>1, <1>2
<1>4. notifying[t].rest \in Seq(Observers) /\ notifying[t].rest # <<>>
  BY <1>2 DEF Idle
<1>5. \A k \in 1..Len(notifying'[t].rest) : \E j \in 1..Len(notifying[t].rest) :
        notifying'[t].rest[k] = notifying[t].rest[j]
  BY <1>3, <1>4, TailFacts
<1>6. ASSUME NEW u \in Threads \ {t}, NEW k \in 1..Len(notifying'[u].rest)
      PROVE  \E j \in 1..Len(notifying[u].rest) : notifying'[u].rest[k] = notifying[u].rest[j]
  <2>1. notifying'[u] = notifying[u]
    BY <1>3
  <2> QED
    BY <2>1
<1>7. ASSUME NEW u \in Threads, NEW k \in 1..Len(notifying'[u].rest)
      PROVE  \E j \in 1..Len(notifying[u].rest) : notifying'[u].rest[k] = notifying[u].rest[j]
  <2>1. CASE u = t
    BY <1>5, <2>1
  <2>2. CASE u # t
    BY <1>6, <2>2
  <2> QED
    BY <2>1, <2>2
<1> QED
  BY <1>3, <1>7

\* The queues: that of t loses its head.
LEMMA TakenFacts ==
    ASSUME TypeOK, NEW t \in Threads, Run(t)
    PROVE  /\ Head(queue[t]) = queue[t][1] /\ 1 \in 1..Len(queue[t])
           /\ \A u \in Threads \ {t} : queue'[u] = queue[u]
           /\ \A i \in 1..Len(queue'[t]) :
                i + 1 \in 1..Len(queue[t]) /\ queue'[t][i] = queue[t][i + 1]
<1>1. queue[t] \in Seq([o : Observers, event : Events]) /\ queue[t] # <<>>
  BY DEF Run, TypeOK
<1>2. queue' = [queue EXCEPT ![t] = Tail(queue[t])] /\ DOMAIN queue = Threads
  BY DEF Run, TypeOK
<1> QED
  BY <1>1, <1>2, TailFacts

-----------------------------------------------------------------------------
(* The list, and the start of a round.                                     *)

LEMMA InitInv == ASSUME Init PROVE IInv
<1>1. TypeOK
  BY InitType
<1>2. Listed
  BY DEF Init, Listed, ListExact, RestListed, QueueListed, SeenListed, Distinct, Elements
<1>3. Ordered
  BY DEF Init, Ordered, CalledInOrder, QueueInOrder, SeenBeforePosted, SeenBeforeRest,
         PostedBeforeRest
<1> QED
  BY <1>1, <1>2, <1>3 DEF IInv

\* What has no part in the list of observers keeps the rest of the invariant.
LEMMA SameRounds ==
    ASSUME Listed, Ordered, UNCHANGED <<notifying, queue, raised, raisedBy, listed, seen>>,
           ListExact'
    PROVE  Listed' /\ Ordered'
<1>1. RestListed' /\ QueueListed' /\ SeenListed'
  BY DEF Listed, RestListed, QueueListed, SeenListed
<1>2. CalledInOrder' /\ QueueInOrder'
  BY DEF Ordered, CalledInOrder, QueueInOrder
<1>3. SeenBeforePosted' /\ SeenBeforeRest' /\ PostedBeforeRest'
  BY DEF Ordered, SeenBeforePosted, SeenBeforeRest, PostedBeforeRest
<1> QED
  BY <1>1, <1>2, <1>3 DEF Listed, Ordered

LEMMA AddInv == ASSUME IInv, NEW o \in Observers, Add(o) PROVE Listed' /\ Ordered'
<1>1. observers \in Seq(Observers) /\ Distinct(observers) /\ Elements(observers) = wanted
  BY DEF IInv, TypeOK, Listed, ListExact
<1>2. observers' = Adds(o) /\ wanted' = wanted \cup {o}
  BY DEF Add
<1>3. ListExact'
  <2>1. CASE o \in Elements(observers)
    BY <1>1, <1>2, <2>1 DEF Adds, ListExact
  <2>2. CASE o \notin Elements(observers)
    <3>1. /\ observers' = Append(observers, o)
          /\ Len(observers) \in Nat /\ Len(observers') = Len(observers) + 1
          /\ \A i \in 1..Len(observers) : observers'[i] = observers[i]
          /\ observers'[Len(observers) + 1] = o
      BY <1>1, <1>2, <2>2, AppendFacts DEF Adds
    <3>2. Distinct(observers')
      BY <1>1, <2>2, <3>1 DEF Distinct, Elements
    <3>3. Elements(observers') = wanted'
      BY <1>1, <1>2, <3>1 DEF Elements
    <3> QED
      BY <3>2, <3>3 DEF ListExact, Distinct, Elements
  <2> QED
    BY <2>1, <2>2
<1> QED
  BY <1>3, SameRounds DEF IInv, Add

LEMMA RemoveInv == ASSUME IInv, NEW o \in Observers, Remove(o) PROVE Listed' /\ Ordered'
<1>1. observers \in Seq(Observers) /\ Distinct(observers) /\ Elements(observers) = wanted
  BY DEF IInv, TypeOK, Listed, ListExact
<1>2. observers' = Removes(o) /\ wanted' = wanted \ {o} /\ o \in wanted
  BY DEF Remove
<1>3. Distinct(observers') /\ Elements(observers') = wanted'
  BY <1>1, <1>2, RemovesFacts
<1>4. ListExact'
  BY <1>3 DEF ListExact, Distinct, Elements
<1> QED
  BY <1>4, SameRounds DEF IInv, Remove

LEMMA ExpireInv == ASSUME IInv, NEW o \in Observers, Expire(o) PROVE Listed' /\ Ordered'
<1>1. ListExact'
  BY DEF IInv, Listed, ListExact, Distinct, Elements, Expire, historyVars
<1> QED
  BY <1>1, SameRounds DEF IInv, Expire, historyVars

\* A new event is later than all that was seen and posted, and was raised by
\* the thread whose round begins.
LEMMA NotifyInv == ASSUME IInv, NEW t \in Threads, Notify(t) PROVE Listed' /\ Ordered'
<1> DEFINE e == raised + 1
<1>1. /\ raised \in Nat /\ raised' = e /\ e \in Events
      /\ UNCHANGED <<observers, alive, queue, added, wanted, seen>>
  BY BoundAssumption DEF Notify, IInv, TypeOK, Events
<1>2. /\ raisedBy'[e] = t /\ \A f \in 1..raised : raisedBy'[f] = raisedBy[f]
      /\ listed'[e] = wanted /\ \A f \in 1..raised : listed'[f] = listed[f]
  <2>1. /\ raisedBy' = [raisedBy EXCEPT ![e] = t] /\ DOMAIN raisedBy = Events
        /\ listed' = [listed EXCEPT ![e] = wanted] /\ DOMAIN listed = Events
    BY DEF Notify, IInv, TypeOK
  <2>2. \A f \in 1..raised : f # e
    BY <1>1
  <2> HIDE DEF e
  <2> QED
    BY <1>1, <2>1, <2>2
<1>3. /\ notifying'[t].event = e /\ notifying'[t].rest = observers
      /\ \A u \in Threads \ {t} : notifying'[u] = notifying[u]
  BY DEF Notify, IInv, TypeOK
<1>4. \A o \in Observers : \A i \in 1..Len(seen[o]) :
        seen[o][i] \in 1..raised /\ o \in listed[seen[o][i]]
  BY DEF IInv, Listed, SeenListed
<1>5. \A u \in Threads : \A i \in 1..Len(queue[u]) :
        /\ queue[u][i].event \in 1..raised
        /\ queue[u][i].o \in listed[queue[u][i].event]
        /\ raisedBy[queue[u][i].event] # u
  BY DEF IInv, Listed, QueueListed
<1>6. \A u \in Threads : \A k \in 1..Len(notifying[u].rest) : notifying[u].rest[k] \in Observers
  BY DEF IInv, TypeOK
<1>7. \A k \in 1..Len(observers) : observers[k] \in Observers
  BY DEF IInv, TypeOK
<1> HIDE DEF e
<1>8. 1..raised \subseteq 1..e /\ e \in 1..e /\ \A f \in 1..raised : f < e
  BY <1>1 DEF e
<1>9. \A u \in Threads : \A i \in 1..Len(queue[u]) : queue[u][i].o \in Observers
  BY QueueType DEF IInv
<1>10. Listed'
  <2>1. ListExact'
    BY <1>1 DEF IInv, Listed, ListExact, Distinct, Elements
  <2>2. ASSUME NEW u \in Threads, notifying'[u].rest # <<>>
        PROVE  /\ notifying'[u].event \in 1..raised'
               /\ raisedBy'[notifying'[u].event] = u
               /\ Distinct(notifying'[u].rest)
               /\ Elements(notifying'[u].rest) \subseteq listed'[notifying'[u].event]
    <3>1. CASE u = t
      BY <1>1, <1>2, <1>3, <1>8, <3>1 DEF IInv, Listed, ListExact
    <3>2. CASE u # t
      <4>1. /\ notifying'[u] = notifying[u] /\ notifying[u].event \in 1..raised
            /\ raisedBy[notifying[u].event] = u
            /\ Distinct(notifying[u].rest)
            /\ Elements(notifying[u].rest) \subseteq listed[notifying[u].event]
        BY <1>3, <2>2, <3>2 DEF IInv, Listed, RestListed
      <4> QED
        BY <1>1, <1>2, <1>8, <4>1
    <3> QED
      BY <3>1, <3>2
  <2>3. RestListed'
    BY <2>2 DEF RestListed, Distinct, Elements
  <2>4. QueueListed' /\ SeenListed'
    BY <1>1, <1>2, <1>4, <1>5, <1>8 DEF QueueListed, SeenListed
  <2> QED
    BY <2>1, <2>3, <2>4 DEF Listed
<1>11. CalledInOrder'
  <2> SUFFICES ASSUME NEW o \in Observers, NEW i \in 1..Len(seen[o]), NEW j \in 1..Len(seen[o]),
                      i < j, raisedBy'[seen[o][i]] = raisedBy'[seen[o][j]]
               PROVE  seen[o][i] < seen[o][j]
    BY <1>1 DEF CalledInOrder
  <2>1. raisedBy[seen[o][i]] = raisedBy[seen[o][j]]
    BY <1>2, <1>4
  <2> QED
    BY <2>1 DEF IInv, Ordered, CalledInOrder
<1>12. QueueInOrder'
  <2> SUFFICES ASSUME NEW u \in Threads, NEW i \in 1..Len(queue[u]), NEW j \in 1..Len(queue[u]),
                      i < j, queue[u][i].o = queue[u][j].o,
                      raisedBy'[queue[u][i].event] = raisedBy'[queue[u][j].event]
               PROVE  queue[u][i].event < queue[u][j].event
    BY <1>1 DEF QueueInOrder
  <2>1. raisedBy[queue[u][i].event] = raisedBy[queue[u][j].event]
    BY <1>2, <1>5
  <2> QED
    BY <2>1 DEF IInv, Ordered, QueueInOrder
<1>13. SeenBeforePosted'
  <2> SUFFICES ASSUME NEW u \in Threads, NEW j \in 1..Len(queue[u]),
                      NEW i \in 1..Len(seen[queue[u][j].o]),
                      raisedBy'[seen[queue[u][j].o][i]] = raisedBy'[queue[u][j].event]
               PROVE  seen[queue[u][j].o][i] < queue[u][j].event
    BY <1>1 DEF SeenBeforePosted
  <2>1. raisedBy[seen[queue[u][j].o][i]] = raisedBy[queue[u][j].event]
    BY <1>2, <1>4, <1>5, <1>9
  <2> QED
    BY <2>1 DEF IInv, Ordered, SeenBeforePosted
<1>14. SeenBeforeRest'
  <2> SUFFICES ASSUME NEW u \in Threads, NEW k \in 1..Len(notifying'[u].rest),
                      NEW i \in 1..Len(seen[notifying'[u].rest[k]]),
                      raisedBy'[seen[notifying'[u].rest[k]][i]] = u
               PROVE  seen[notifying'[u].rest[k]][i] < notifying'[u].event
    BY <1>1 DEF SeenBeforeRest
  <2>1. CASE u = t
    BY <1>3, <1>4, <1>7, <1>8, <2>1
  <2>2. CASE u # t
    <3>1. notifying'[u] = notifying[u] /\ notifying[u].rest[k] \in Observers
      BY <1>3, <1>6, <2>2
    <3>2. raisedBy[seen[notifying[u].rest[k]][i]] = u
      BY <1>2, <1>4, <3>1
    <3> QED
      BY <3>1, <3>2 DEF IInv, Ordered, SeenBeforeRest
  <2> QED
    BY <2>1, <2>2
<1>15. PostedBeforeRest'
  <2> SUFFICES ASSUME NEW u \in Threads, NEW v \in Threads,
                      NEW k \in 1..Len(notifying'[u].rest), NEW j \in 1..Len(queue[v]),
                      queue[v][j].o = notifying'[u].rest[k], raisedBy'[queue[v][j].event] = u
               PROVE  queue[v][j].event < notifying'[u].event
    BY <1>1 DEF PostedBeforeRest
  <2>1. CASE u = t
    BY <1>3, <1>5, <1>8, <2>1
  <2>2. CASE u # t
    <3>1. notifying'[u] = notifying[u]
      BY <1>3, <2>2
    <3>2. raisedBy[queue[v][j].event] = u
      BY <1>2, <1>5
    <3> QED
      BY <3>1, <3>2 DEF IInv, Ordered, PostedBeforeRest
  <2> QED
    BY <2>1, <2>2
<1> QED
  BY <1>10, <1>11, <1>12, <1>13, <1>14, <1>15 DEF Ordered

-----------------------------------------------------------------------------
(* Handing out.                                                            *)

\* What is left of the round of t is still listed, and without its head.
LEMMA RestInv ==
    ASSUME TypeOK, Listed, NEW t \in Threads, ~Idle(t), notifying' = Goes(t),
           UNCHANGED <<raised, raisedBy, listed>>
    PROVE  /\ RestListed'
           /\ \A k \in 1..Len(notifying'[t].rest) :
                notifying'[t].rest[k] # Head(notifying[t].rest)
<1>1. notifying[t].rest \in Seq(Observers) /\ notifying[t].rest # <<>>
  BY DEF TypeOK, Idle
<1>2. /\ notifying[t].event \in 1..raised
      /\ raisedBy[notifying[t].event] = t
      /\ Distinct(notifying[t].rest)
      /\ Elements(notifying[t].rest) \subseteq listed[notifying[t].event]
  BY <1>1 DEF Listed, RestListed
<1>3. /\ notifying'[t].event = notifying[t].event
      /\ notifying'[t].rest = Tail(notifying[t].rest)
      /\ \A u \in Threads \ {t} : notifying'[u] = notifying[u]
  BY GoesFacts
<1>4. /\ Distinct(notifying'[t].rest)
      /\ Elements(notifying'[t].rest) \subseteq Elements(notifying[t].rest)
      /\ Head(notifying[t].rest) \notin Elements(notifying'[t].rest)
  BY <1>1, <1>2, <1>3, TailDistinct
<1>5. ASSUME NEW u \in Threads, notifying'[u].rest # <<>>
      PROVE  /\ notifying'[u].event \in 1..raised
             /\ raisedBy[notifying'[u].event] = u
             /\ Distinct(notifying'[u].rest)
             /\ Elements(notifying'[u].rest) \subseteq listed[notifying'[u].event]
  <2>1. CASE u = t
    BY <1>2, <1>3, <1>4, <2>1
  <2>2. CASE u # t
    BY <1>3, <1>5, <2>2 DEF Listed, RestListed
  <2> QED
    BY <2>1, <2>2
<1>6. RestListed'
  BY <1>5 DEF RestListed, Distinct, Elements
<1> QED
  BY <1>4, <1>6 DEF Elements

\* An event that is later than those seen of the same thread may be seen.
LEMMA SeesInv ==
    ASSUME TypeOK, Listed, CalledInOrder, UNCHANGED <<raised, raisedBy, listed>>,
           NEW o \in Observers, NEW e \in Events, e \in 1..raised, o \in listed[e], Sees(o, e),
           \A i \in 1..Len(seen[o]) : raisedBy[seen[o][i]] = raisedBy[e] => seen[o][i] < e
    PROVE  SeenListed' /\ CalledInOrder'
<1>1. SeenListed'
  <2> SUFFICES ASSUME NEW p \in Observers, NEW i \in 1..Len(seen'[p])
               PROVE  seen'[p][i] \in 1..raised /\ p \in listed[seen'[p][i]]
    BY DEF SeenListed
  <2>1. \/ i \in 1..Len(seen[p]) /\ seen'[p][i] = seen[p][i]
        \/ p = o /\ seen'[p][i] = e
    BY SeesFacts
  <2> QED
    BY <2>1 DEF Listed, SeenListed
<1>2. ASSUME NEW p \in Observers,
             NEW i \in 1..Len(seen'[p]), NEW j \in 1..Len(seen'[p]),
             i < j, raisedBy[seen'[p][i]] = raisedBy[seen'[p][j]]
      PROVE  seen'[p][i] < seen'[p][j]
  <2>1. /\ i \in Nat /\ j \in Nat /\ Len(seen[p]) \in Nat
        /\ \/ i \in 1..Len(seen[p]) /\ seen'[p][i] = seen[p][i]
           \/ p = o /\ i = Len(seen[o]) + 1 /\ seen'[p][i] = e
        /\ \/ j \in 1..Len(seen[p]) /\ seen'[p][j] = seen[p][j]
           \/ p = o /\ j = Len(seen[o]) + 1 /\ seen'[p][j] = e
    BY SeesFacts
  <2>2. CASE j \in 1..Len(seen[p]) /\ seen'[p][j] = seen[p][j]
    <3>1. i \in 1..Len(seen[p]) /\ seen'[p][i] = seen[p][i]
      BY <1>2, <2>1, <2>2
    <3> QED
      BY <1>2, <2>2, <3>1 DEF CalledInOrder
  <2>3. CASE p = o /\ j = Len(seen[o]) + 1 /\ seen'[p][j] = e
    <3>1. i \in 1..Len(seen[o]) /\ seen'[p][i] = seen[o][i]
      BY <1>2, <2>1, <2>3
    <3> QED
      BY <1>2, <2>3, <3>1
  <2> QED
    BY <2>1, <2>2, <2>3
<1>3. CalledInOrder'
  BY <1>2 DEF CalledInOrder
<1> QED
  BY <1>1, <1>3

\* The next of the round of t.  It is called, posted to its thread, or gone.
LEMMA NotifyNextInv ==
    ASSUME IInv, NEW t \in Threads, NotifyNext(t)
    PROVE  Listed' /\ Ordered'
<1> DEFINE o == Head(notifying[t].rest)
           e == notifying[t].event
<1>1. TypeOK /\ Listed /\ Ordered /\ ~Idle(t) /\ notifying' = Goes(t)
  BY DEF IInv, NotifyNext
<1>2. o \in Observers /\ e \in Events /\ e \in 1..raised /\ o \in listed[e]
  BY <1>1, NextOfRest
<1>3. UNCHANGED <<observers, wanted, raised, raisedBy, listed>>
  BY DEF NotifyNext
<1>4. 1 \in 1..Len(notifying[t].rest) /\ notifying[t].rest[1] = o
  <2>1. notifying[t].rest \in Seq(Observers) /\ notifying[t].rest # <<>>
    BY <1>1 DEF TypeOK, Idle
  <2> QED
    BY <2>1
<1>5. raisedBy[e] = t
  BY <1>1 DEF Listed, RestListed, Idle
<1>6. /\ \A i \in 1..Len(seen[o]) : raisedBy[seen[o][i]] = t => seen[o][i] < e
      /\ \A u \in Threads : \A j \in 1..Len(queue[u]) :
           queue[u][j].o = o /\ raisedBy[queue[u][j].event] = t => queue[u][j].event < e
  BY <1>1, <1>4 DEF Ordered, SeenBeforeRest, PostedBeforeRest
<1>7. \/ UNCHANGED <<queue, seen>>
      \/ Home[o] = t /\ Sees(o, e) /\ UNCHANGED queue
      \/ Home[o] # t /\ queue' = Posted(Home[o], o, e) /\ UNCHANGED seen
  BY DEF NotifyNext
<1> HIDE DEF o, e
<1>8. RestListed' /\ \A k \in 1..Len(notifying'[t].rest) : notifying'[t].rest[k] # o
  BY <1>1, <1>3, RestInv DEF o
<1>9. /\ \A u \in Threads : notifying'[u].event = notifying[u].event
      /\ \A u \in Threads : \A k \in 1..Len(notifying'[u].rest) :
           \E j \in 1..Len(notifying[u].rest) : notifying'[u].rest[k] = notifying[u].rest[j]
  BY <1>1, GoesFacts
<1>10. ListExact'
  BY <1>1, <1>3 DEF Listed, ListExact, Distinct, Elements
<1>11. SeenListed' /\ CalledInOrder'
  <2>1. CASE UNCHANGED seen
    BY <1>1, <1>3, <2>1 DEF Listed, Ordered, SeenListed, CalledInOrder
  <2>2. CASE Sees(o, e)
    BY <1>1, <1>2, <1>3, <1>5, <1>6, <2>2, SeesInv DEF Ordered
  <2> QED
    BY <1>7, <2>1, <2>2
<1>12. \A u \in Threads : \A i \in 1..Len(queue'[u]) :
          /\ i \in Nat /\ Len(queue[u]) \in Nat
          /\ \/ i \in 1..Len(queue[u]) /\ queue'[u][i] = queue[u][i]
             \/ /\ u = Home[o] /\ u # t /\ i = Len(queue[u]) + 1 /\ UNCHANGED seen
                /\ queue'[u][i].o = o /\ queue'[u][i].event = e
  <2>1. CASE UNCHANGED queue
    <3>1. \A u \in Threads : Len(queue[u]) \in Nat
      BY <1>1 DEF TypeOK
    <3> QED
      BY <2>1, <3>1
  <2>2. CASE Home[o] # t /\ queue' = Posted(Home[o], o, e) /\ UNCHANGED seen
    BY <1>1, <1>2, <2>2, PostedFacts
  <2> QED
    BY <1>7, <2>1, <2>2
<1>13. \A p \in Observers : \A i \in 1..Len(seen'[p]) :
          \/ i \in 1..Len(seen[p]) /\ seen'[p][i] = seen[p][i]
          \/ p = o /\ Home[o] = t /\ seen'[p][i] = e /\ UNCHANGED queue
  BY <1>1, <1>2, <1>7, SeesFacts
<1>14. QueueListed'
  <2> SUFFICES ASSUME NEW u \in Threads, NEW i \in 1..Len(queue'[u])
               PROVE  /\ queue'[u][i].event \in 1..raised
                      /\ queue'[u][i].o \in listed[queue'[u][i].event]
                      /\ raisedBy[queue'[u][i].event] # u
    BY <1>3 DEF QueueListed
  <2>1. CASE i \in 1..Len(queue[u]) /\ queue'[u][i] = queue[u][i]
    BY <1>1, <2>1 DEF Listed, QueueListed
  <2>2. CASE u # t /\ queue'[u][i].o = o /\ queue'[u][i].event = e
    BY <1>2, <1>5, <2>2
  <2> QED
    BY <1>12, <2>1, <2>2
<1>15. \A u \in Threads : \A i \in 1..Len(queue[u]) :
          queue[u][i].o \in Observers /\ Home[queue[u][i].o] = u
  BY <1>1, QueueType
<1>16. \A u \in Threads : \A k \in 1..Len(notifying[u].rest) : notifying[u].rest[k] \in Observers
  BY <1>1 DEF TypeOK
<1>17. QueueInOrder'
  <2> SUFFICES ASSUME NEW u \in Threads, NEW i \in 1..Len(queue'[u]), NEW j \in 1..Len(queue'[u]),
                      i < j, queue'[u][i].o = queue'[u][j].o,
                      raisedBy[queue'[u][i].event] = raisedBy[queue'[u][j].event]
               PROVE  queue'[u][i].event < queue'[u][j].event
    BY <1>3 DEF QueueInOrder
  <2>1. i \in 1..Len(queue[u]) /\ queue'[u][i] = queue[u][i]
    BY <1>12
  <2>2. CASE j \in 1..Len(queue[u]) /\ queue'[u][j] = queue[u][j]
    BY <1>1, <2>1, <2>2 DEF Ordered, QueueInOrder
  <2>3. CASE queue'[u][j].o = o /\ queue'[u][j].event = e
    BY <1>5, <1>6, <2>1, <2>3
  <2> QED
    BY <1>12, <2>2, <2>3
<1>18. SeenBeforePosted'
  <2> SUFFICES ASSUME NEW u \in Threads, NEW j \in 1..Len(queue'[u]),
                      NEW i \in 1..Len(seen'[queue'[u][j].o]),
                      raisedBy[seen'[queue'[u][j].o][i]] = raisedBy[queue'[u][j].event]
               PROVE  seen'[queue'[u][j].o][i] < queue'[u][j].event
    BY <1>3 DEF SeenBeforePosted
  <2> DEFINE p == queue'[u][j].o
  <2>1. CASE queue'[u][j].o = o /\ queue'[u][j].event = e /\ UNCHANGED seen
    BY <1>5, <1>6, <2>1
  <2>2. CASE j \in 1..Len(queue[u]) /\ queue'[u][j] = queue[u][j]
    <3>1. p \in Observers /\ Home[p] = u /\ raisedBy[queue[u][j].event] # u
      BY <1>1, <1>15, <2>2 DEF Listed, QueueListed
    <3>2. CASE i \in 1..Len(seen[p]) /\ seen'[p][i] = seen[p][i]
      BY <1>1, <2>2, <3>2 DEF Ordered, SeenBeforePosted
    <3>3. CASE p = o /\ Home[o] = t /\ seen'[p][i] = e
      BY <1>5, <2>2, <3>1, <3>3
    <3> QED
      BY <1>13, <3>1, <3>2, <3>3
  <2> QED
    BY <1>12, <2>1, <2>2
<1>19. SeenBeforeRest'
  <2> SUFFICES ASSUME NEW u \in Threads, NEW k \in 1..Len(notifying'[u].rest),
                      NEW i \in 1..Len(seen'[notifying'[u].rest[k]]),
                      raisedBy[seen'[notifying'[u].rest[k]][i]] = u
               PROVE  seen'[notifying'[u].rest[k]][i] < notifying'[u].event
    BY <1>3 DEF SeenBeforeRest
  <2> DEFINE p == notifying'[u].rest[k]
  <2>1. PICK m \in 1..Len(notifying[u].rest) : p = notifying[u].rest[m]
    BY <1>9
  <2>2. CASE i \in 1..Len(seen[p]) /\ seen'[p][i] = seen[p][i]
    <3>1. raisedBy[seen[p][i]] = u
      BY <2>2
    <3>2. seen[p][i] < notifying[u].event
      BY <1>1, <2>1, <2>2, <3>1 DEF Ordered, SeenBeforeRest
    <3> QED
      BY <1>9, <2>2, <3>2
  <2>3. CASE p = o /\ seen'[p][i] = e
    BY <1>5, <1>8, <2>3
  <2> QED
    BY <1>13, <1>16, <2>1, <2>2, <2>3
<1>20. PostedBeforeRest'
  <2> SUFFICES ASSUME NEW u \in Threads, NEW v \in Threads,
                      NEW k \in 1..Len(notifying'[u].rest), NEW j \in 1..Len(queue'[v]),
                      queue'[v][j].o = notifying'[u].rest[k], raisedBy[queue'[v][j].event] = u
               PROVE  queue'[v][j].event < notifying'[u].event
    BY <1>3 DEF PostedBeforeRest
  <2>1. PICK m \in 1..Len(notifying[u].rest) : notifying'[u].rest[k] = notifying[u].rest[m]
    BY <1>9
  <2>2. CASE j \in 1..Len(queue[v]) /\ queue'[v][j] = queue[v][j]
    BY <1>1, <1>9, <2>1, <2>2 DEF Ordered, PostedBeforeRest
  <2>3. CASE queue'[v][j].o = o /\ queue'[v][j].event = e
    BY <1>5, <1>8, <2>3
  <2> QED
    BY <1>12, <2>2, <2>3
<1> QED
  BY <1>8, <1>10, <1>11, <1>14, <1>17, <1>18, <1>19, <1>20 DEF Listed, Ordered

\* A task of t: what it calls with was posted first of what is left.
LEMMA RunInv ==
    ASSUME IInv, NEW t \in Threads, Run(t)
    PROVE  Listed' /\ Ordered'
<1> DEFINE o == Head(queue[t]).o
           e == Head(queue[t]).event
<1>1. TypeOK /\ Listed /\ Ordered
  BY DEF IInv
<1>2. UNCHANGED <<observers, notifying, wanted, raised, raisedBy, listed>>
  BY DEF Run
<1>3. /\ Head(queue[t]) = queue[t][1] /\ 1 \in 1..Len(queue[t])
      /\ \A u \in Threads \ {t} : queue'[u] = queue[u]
      /\ \A i \in 1..Len(queue'[t]) :
           i + 1 \in 1..Len(queue[t]) /\ queue'[t][i] = queue[t][i + 1]
  BY <1>1, TakenFacts
<1>4. /\ o \in Observers /\ Home[o] = t
      /\ e \in 1..raised /\ o \in listed[e] /\ raisedBy[e] # t
  BY <1>1, <1>3, QueueType DEF Listed, QueueListed
<1>5. e \in Events
  BY <1>1, <1>4, BoundAssumption DEF TypeOK, Events
<1>6. UNCHANGED seen \/ Sees(o, e)
  BY DEF Run
<1>7. \A i \in 1..Len(seen[o]) : raisedBy[seen[o][i]] = raisedBy[e] => seen[o][i] < e
  BY <1>1, <1>3 DEF Ordered, SeenBeforePosted
<1>8. \A u \in Threads : \A i \in 1..Len(queue'[u]) :
        \E j \in 1..Len(queue[u]) :
            /\ queue'[u][i] = queue[u][j] /\ i \in Nat
            /\ j = IF u = t THEN i + 1 ELSE i
  BY <1>3
<1> HIDE DEF o, e
<1>9. \A p \in Observers : \A i \in 1..Len(seen'[p]) :
         \/ i \in 1..Len(seen[p]) /\ seen'[p][i] = seen[p][i]
         \/ p = o /\ seen'[p][i] = e
  BY <1>1, <1>4, <1>5, <1>6, SeesFacts
<1>10. ListExact' /\ RestListed'
  <2>1. ListExact'
    BY <1>1, <1>2 DEF Listed, ListExact, Distinct, Elements
  <2>2. RestListed'
    BY <1>1, <1>2 DEF Listed, RestListed
  <2> QED
    BY <2>1, <2>2
<1>11. SeenListed' /\ CalledInOrder'
  <2>1. CASE UNCHANGED seen
    BY <1>1, <1>2, <2>1 DEF Listed, Ordered, SeenListed, CalledInOrder
  <2>2. CASE Sees(o, e)
    BY <1>1, <1>2, <1>4, <1>5, <1>7, <2>2, SeesInv DEF Ordered
  <2> QED
    BY <1>6, <2>1, <2>2
<1>12. QueueListed'
  <2> SUFFICES ASSUME NEW u \in Threads, NEW i \in 1..Len(queue'[u])
               PROVE  /\ queue'[u][i].event \in 1..raised
                      /\ queue'[u][i].o \in listed[queue'[u][i].event]
                      /\ raisedBy[queue'[u][i].event] # u
    BY <1>2 DEF QueueListed
  <2>1. PICK j \in 1..Len(queue[u]) : queue'[u][i] = queue[u][j]
    BY <1>8
  <2> QED
    BY <1>1, <2>1 DEF Listed, QueueListed
<1>13. QueueInOrder'
  <2> SUFFICES ASSUME NEW u \in Threads, NEW i \in 1..Len(queue'[u]), NEW j \in 1..Len(queue'[u]),
                      i < j, queue'[u][i].o = queue'[u][j].o,
                      raisedBy[queue'[u][i].event] = raisedBy[queue'[u][j].event]
               PROVE  queue'[u][i].event < queue'[u][j].event
    BY <1>2 DEF QueueInOrder
  <2>1. PICK k, m \in 1..Len(queue[u]) :
          queue'[u][i] = queue[u][k] /\ queue'[u][j] = queue[u][m] /\ k < m
    <3>1. PICK k \in 1..Len(queue[u]) :
            queue'[u][i] = queue[u][k] /\ i \in Nat /\ k = IF u = t THEN i + 1 ELSE i
      BY <1>8
    <3>2. PICK m \in 1..Len(queue[u]) :
            queue'[u][j] = queue[u][m] /\ j \in Nat /\ m = IF u = t THEN j + 1 ELSE j
      BY <1>8
    <3>3. k < m
      BY <3>1, <3>2
    <3> QED
      BY <3>1, <3>2, <3>3
  <2> QED
    BY <1>1, <2>1 DEF Ordered, QueueInOrder
<1>14. SeenBeforePosted'
  <2> SUFFICES ASSUME NEW u \in Threads, NEW j \in 1..Len(queue'[u]),
                      NEW i \in 1..Len(seen'[queue'[u][j].o]),
                      raisedBy[seen'[queue'[u][j].o][i]] = raisedBy[queue'[u][j].event]
               PROVE  seen'[queue'[u][j].o][i] < queue'[u][j].event
    BY <1>2 DEF SeenBeforePosted
  <2> DEFINE p == queue'[u][j].o
  <2>1. PICK m \in 1..Len(queue[u]) :
          queue'[u][j] = queue[u][m] /\ j \in Nat /\ m = IF u = t THEN j + 1 ELSE j
    BY <1>8
  <2>2. p \in Observers /\ Home[p] = u
    BY <1>1, <2>1, QueueType
  <2>3. CASE i \in 1..Len(seen[p]) /\ seen'[p][i] = seen[p][i]
    BY <1>1, <2>1, <2>3 DEF Ordered, SeenBeforePosted
  <2>4. CASE p = o /\ seen'[p][i] = e
    <3>1. u = t /\ 1 < m /\ queue[t][m].o = queue[t][1].o
      BY <1>3, <1>4, <2>1, <2>2, <2>4 DEF o
    <3>2. raisedBy[queue[t][1].event] = raisedBy[queue[t][m].event]
      BY <1>3, <2>1, <2>4, <3>1 DEF e
    <3>3. queue[t][1].event < queue[t][m].event
      BY <1>1, <1>3, <2>1, <3>1, <3>2 DEF Ordered, QueueInOrder
    <3> QED
      BY <1>3, <2>1, <2>4, <3>1, <3>3 DEF e
  <2> QED
    BY <1>9, <2>2, <2>3, <2>4
<1>15. SeenBeforeRest'
  <2> SUFFICES ASSUME NEW u \in Threads, NEW k \in 1..Len(notifying[u].rest),
                      NEW i \in 1..Len(seen'[notifying[u].rest[k]]),
                      raisedBy[seen'[notifying[u].rest[k]][i]] = u
               PROVE  seen'[notifying[u].rest[k]][i] < notifying[u].event
    BY <1>2 DEF SeenBeforeRest
  <2> DEFINE p == notifying[u].rest[k]
  <2>1. p \in Observers
    BY <1>1 DEF TypeOK
  <2>2. CASE i \in 1..Len(seen[p]) /\ seen'[p][i] = seen[p][i]
    BY <1>1, <2>2 DEF Ordered, SeenBeforeRest
  <2>3. CASE p = o /\ seen'[p][i] = e
    BY <1>1, <1>3, <2>3 DEF Ordered, PostedBeforeRest, o, e
  <2> QED
    BY <1>9, <2>1, <2>2, <2>3
<1>16. PostedBeforeRest'
  <2> SUFFICES ASSUME NEW u \in Threads, NEW v \in Threads,
                      NEW k \in 1..Len(notifying[u].rest), NEW j \in 1..Len(queue'[v]),
                      queue'[v][j].o = notifying[u].rest[k], raisedBy[queue'[v][j].event] = u
               PROVE  queue'[v][j].event < notifying[u].event
    BY <1>2 DEF PostedBeforeRest
  <2>1. PICK m \in 1..Len(queue[v]) : queue'[v][j] = queue[v][m]
    BY <1>8
  <2> QED
    BY <1>1, <2>1 DEF Ordered, PostedBeforeRest
<1> QED
  BY <1>10, <1>11, <1>12, <1>13, <1>14, <1>15, <1>16 DEF Listed, Ordered

-----------------------------------------------------------------------------
(* The theorems.                                                           *)

LEMMA NextInv == ASSUME IInv, [Next]_vars PROVE IInv'
<1>1. CASE UNCHANGED vars
  <2>1. TypeOK'
    BY <1>1 DEF IInv, TypeOK, vars, historyVars
  <2>2. ListExact'
    BY <1>1 DEF IInv, Listed, ListExact, Distinct, Elements, vars, historyVars
  <2> QED
    BY <1>1, <2>1, <2>2, SameRounds DEF IInv, vars, historyVars
<1>2. CASE Next
  <2>1. TypeOK'
    BY <1>2, NextType DEF IInv
  <2>2. Listed' /\ Ordered'
    BY <1>2, AddInv, RemoveInv, ExpireInv, NotifyInv, NotifyNextInv, RunInv
       DEF Next, ThreadStep
  <2> QED
    BY <2>1, <2>2 DEF IInv
<1> QED
  BY <1>1, <1>2

\* The inductive invariant holds of every behaviour (the rounds of
\* notifyObservers and the tasks they post, universal_observable.hpp:93-133).
THEOREM ObservableInv == Spec => []IInv
  BY InitInv, NextInv, PTL DEF Spec

\* Every variable keeps its type, and a task is only ever posted to the thread
\* its observer was registered with (universal_observable.hpp:117-130).
THEOREM ObservableTypes == Spec => []TypeOK
<1>1. IInv => TypeOK
  BY DEF IInv
<1> QED
  BY <1>1, ObservableInv, PTL

\* The events one thread raises reach an observer in their order, however many
\* threads notify at once (universal_observable.hpp:119-130).
THEOREM EventsInOrder == Spec => []CalledInOrder
<1>1. IInv => CalledInOrder
  BY DEF IInv, Ordered
<1> QED
  BY <1>1, ObservableInv, PTL

\* An observer is called at most once with an event, and only with one raised
\* while it was registered (universal_observable.hpp:17-48, 93-133).
THEOREM EventOnce == Spec => []CalledOnce
<1>1. ASSUME IInv
      PROVE  CalledOnce
  <2>1. \A o \in Observers : \A i \in 1..Len(seen[o]) :
          seen[o][i] \in 1..raised /\ o \in listed[seen[o][i]] /\ raised \in Nat
    BY <1>1 DEF IInv, Listed, SeenListed, TypeOK
  <2>2. ASSUME NEW o \in Observers, NEW i \in 1..Len(seen[o]), NEW j \in 1..Len(seen[o]),
               seen[o][i] = seen[o][j], i < j
        PROVE  FALSE
    <3>1. seen[o][i] < seen[o][j]
      BY <1>1, <2>2 DEF IInv, Ordered, CalledInOrder
    <3> QED
      BY <2>1, <2>2, <3>1
  <2>3. \A o \in Observers : \A i, j \in 1..Len(seen[o]) : seen[o][i] = seen[o][j] => i = j
    BY <2>2
  <2> QED
    BY <2>1, <2>3 DEF CalledOnce
<1> QED
  BY <1>1, ObservableInv, PTL
=============================================================================
