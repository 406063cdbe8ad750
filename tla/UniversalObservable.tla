------------------------ MODULE UniversalObservable ------------------------
(***************************************************************************)
(* UniversalObservable: weak observers, each with the thread on which it   *)
(* wants to be called.  notifyObservers copies the list under the lock and *)
(* then goes through the copy, while observers come, go and expire.        *)
(***************************************************************************)
EXTENDS Integers, Sequences

CONSTANTS
    Observers,
    Threads,
    Home,        \* the thread each observer is registered with
    MaxEvents,   \* bound: calls of notifyObservers
    MaxChanges   \* bound: observers added

ASSUME HomeAssumption == Home \in [Observers -> Threads]
ASSUME ThreadsAssumption == Threads # {}
ASSUME BoundAssumption == MaxEvents \in Nat

VARIABLES
    observers,   \* _observers, in their order
    alive,       \* whether someone holds the observer
    notifying,   \* of each thread: the event it notifies of, and of the copy what is left
    queue,       \* of each thread: the calls posted to it
    added,       \* how often an observer was added, for the bound
    wanted,      \* history: the observers added and not removed since
    raised,      \* history: the number of events
    raisedBy,    \* history: the thread of each event
    listed,      \* history: the observers wanted at each event
    seen         \* history: the events each observer was called with

historyVars == <<wanted, raised, raisedBy, listed, seen>>
vars == <<observers, alive, notifying, queue, added, historyVars>>

Events == 1..MaxEvents
Elements(s) == {s[i] : i \in 1..Len(s)}

Init ==
    /\ observers = <<>>
    /\ alive = [o \in Observers |-> TRUE]
    /\ notifying = [t \in Threads |-> [event |-> 0, rest |-> <<>>]]
    /\ queue = [t \in Threads |-> <<>>]
    /\ added = 0
    /\ wanted = {}
    /\ raised = 0
    /\ raisedBy = [e \in Events |-> CHOOSE t \in Threads : TRUE]
    /\ listed = [e \in Events |-> {}]
    /\ seen = [o \in Observers |-> <<>>]

-----------------------------------------------------------------------------
(* Under the lock.                                                         *)

\* Mutant: it may be there already.
AddAgain(o) == Append(observers, o)

\* hasObserverInternal comes first.
Adds(o) == IF o \in Elements(observers) THEN observers ELSE Append(observers, o)

\* addWeakObserver.
Add(o) ==
    /\ alive[o]
    /\ added < MaxChanges
    /\ added' = added + 1
    /\ observers' = Adds(o)
    /\ wanted' = wanted \cup {o}
    /\ UNCHANGED <<alive, notifying, queue, raised, raisedBy, listed, seen>>

\* The first entry that is o is erased.
Removes(o) ==
    LET at == CHOOSE i \in 1..Len(observers) :
                observers[i] = o /\ \A j \in 1..(i - 1) : observers[j] # o
    IN IF o \in Elements(observers)
       THEN [j \in 1..(Len(observers) - 1) |-> observers[IF j < at THEN j ELSE j + 1]]
       ELSE observers

\* removeObserver, by one who holds the observer.
Remove(o) ==
    /\ alive[o]
    /\ o \in wanted
    /\ observers' = Removes(o)
    /\ wanted' = wanted \ {o}
    /\ UNCHANGED <<alive, notifying, queue, added, raised, raisedBy, listed, seen>>

\* The last reference goes; its entry stays.
Expire(o) ==
    /\ alive[o]
    /\ alive' = [alive EXCEPT ![o] = FALSE]
    /\ UNCHANGED <<observers, notifying, queue, added, historyVars>>

Idle(t) == notifying[t].rest = <<>>

\* notifyObservers begins: it copies the list.
Notify(t) ==
    /\ Idle(t)
    /\ raised < MaxEvents
    /\ raised' = raised + 1
    /\ raisedBy' = [raisedBy EXCEPT ![raised + 1] = t]
    /\ listed' = [listed EXCEPT ![raised + 1] = wanted]
    /\ notifying' = [notifying EXCEPT ![t] = [event |-> raised + 1, rest |-> observers]]
    /\ UNCHANGED <<observers, alive, queue, added, wanted, seen>>

-----------------------------------------------------------------------------
(* Without the lock.                                                       *)

Sees(o, e) == seen' = [seen EXCEPT ![o] = Append(@, e)]

\* Mutant: an expired observer ends the round.
StopRound(t) ==
    [notifying EXCEPT ![t].rest = IF alive[Head(@)] THEN Tail(@) ELSE <<>>]

\* Mutant: what is posted last is called first.
PostFirst(t, o, e) == [queue EXCEPT ![t] = <<[o |-> o, event |-> e]>> \o @]

\* Mutant: the thread of another.
PostElsewhere(t, o, e) ==
    [queue EXCEPT ![CHOOSE u \in Threads : u # t] = Append(@, [o |-> o, event |-> e])]

Goes(t) == [notifying EXCEPT ![t].rest = Tail(@)]
Posted(t, o, e) == [queue EXCEPT ![t] = Append(@, [o |-> o, event |-> e])]

\* The next of the copy: an observer of this thread is called at once, another
\* by a task, and one that expired is passed over.
NotifyNext(t) ==
    /\ ~Idle(t)
    /\ notifying' = Goes(t)
    /\ LET o == Head(notifying[t].rest)
           e == notifying[t].event
       IN \/ ~alive[o] /\ UNCHANGED <<queue, seen>>
          \/ alive[o] /\ Home[o] = t /\ Sees(o, e) /\ UNCHANGED queue
          \/ alive[o] /\ Home[o] # t /\ queue' = Posted(Home[o], o, e) /\ UNCHANGED seen
    /\ UNCHANGED <<observers, alive, added, wanted, raised, raisedBy, listed>>

\* A thread runs a task between its own rounds; the task locks a weak pointer.
Run(t) ==
    /\ Idle(t)
    /\ queue[t] # <<>>
    /\ queue' = [queue EXCEPT ![t] = Tail(@)]
    /\ LET task == Head(queue[t]) IN
        IF alive[task.o] THEN Sees(task.o, task.event) ELSE UNCHANGED seen
    /\ UNCHANGED <<observers, alive, notifying, added, wanted, raised, raisedBy, listed>>

-----------------------------------------------------------------------------
ThreadStep(t) == NotifyNext(t) \/ Run(t)

Next ==
    \/ \E o \in Observers : Add(o) \/ Remove(o) \/ Expire(o)
    \/ \E t \in Threads : Notify(t) \/ ThreadStep(t)

Spec == Init /\ [][Next]_vars

\* Each thread goes on with its round and its tasks.
FairSpec == Spec /\ \A t \in Threads : WF_vars(ThreadStep(t))

-----------------------------------------------------------------------------
(* Properties.                                                             *)

\* Every variable has its type, and each task is on the thread of its observer.
TypeOK ==
    /\ observers \in Seq(Observers)
    /\ alive \in [Observers -> BOOLEAN]
    /\ notifying \in [Threads -> [event : 0..MaxEvents, rest : Seq(Observers)]]
    /\ queue \in [Threads -> Seq([o : Observers, event : Events])]
    /\ added \in Nat
    /\ wanted \subseteq Observers
    /\ raised \in 0..MaxEvents
    /\ raisedBy \in [Events -> Threads]
    /\ listed \in [Events -> SUBSET Observers]
    /\ seen \in [Observers -> Seq(Events)]
    /\ \A t \in Threads : \A i \in 1..Len(queue[t]) : Home[queue[t][i].o] = t

\* An observer is called once with an event, and only with one that was raised
\* while it was registered, however often it is added and removed meanwhile
\* (universal_observable.hpp:17-48, 93-133).
CalledOnce ==
    \A o \in Observers : \A i, j \in 1..Len(seen[o]) :
        /\ seen[o][i] = seen[o][j] => i = j
        /\ o \in listed[seen[o][i]]

\* The events of one thread reach an observer in their order; those of two
\* threads may cross, as a direct call overtakes the queue
\* (universal_observable.hpp:119-130).
CalledInOrder ==
    \A o \in Observers : \A i, j \in 1..Len(seen[o]) :
        i < j /\ raisedBy[seen[o][i]] = raisedBy[seen[o][j]] => seen[o][i] < seen[o][j]

\* An observer that was registered when an event was raised is called with it,
\* or expires, even if others of the list expire or leave before
\* (universal_observable.hpp:101-132).
Called ==
    \A o \in Observers : \A e \in Events :
        (o \in listed[e]) ~> (e \in Elements(seen[o]) \/ ~alive[o])
=============================================================================
