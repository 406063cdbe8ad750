--------------------------- MODULE TaskScheduler ---------------------------
(***************************************************************************)
(* TaskScheduler: a thread of its own that runs delayed tasks, the member  *)
(* of an owner (SignalingClient for the heartbeat, PluginClient for the    *)
(* statistics) that schedules them from its thread, and whose destructor   *)
(* calls cancelAll.  A closure takes a reference to the owner while it     *)
(* runs, so the last reference, and the destructor, may fall to either     *)
(* thread.  An id is a function of the clock, hence the tick stands for    *)
(* it.  Any posted task may be due.                                        *)
(***************************************************************************)
EXTENDS Naturals

CONSTANTS
    Tasks,       \* the calls of schedule that the owner will make
    Repetitive,  \* those with repetitive = true
    NoTask,      \* no task
    MaxTick      \* bound: ticks of the clock

ASSUME TasksAssumption == Repetitive \subseteq Tasks /\ NoTask \notin Tasks
ASSUME TickAssumption  == MaxTick \in Nat

VARIABLES
    clock,       \* the tick of system_clock
    id,          \* the id of each task, 0 before it is scheduled
    taskIds,     \* _taskIdSet
    scheduling,  \* the task whose id is registered but which is not posted yet
    posted,      \* the tasks in the queue of the thread
    phase,       \* what the thread of the scheduler does
    current,     \* the task it is busy with
    self,        \* the closure holds a reference to the owner
    owner,       \* what the owner's thread does with it: "held", "left", "joining", "done"
    locked,      \* cancelAll holds _mutex
    quitting,    \* the thread was told to stop
    torn,        \* the set changed while the latest run copied it
    cancelled,   \* history: the tasks whose id was cancelled
    overtaken    \* history: the cancel came after the look of the latest run

vars == <<clock, id, taskIds, scheduling, posted, phase, current, self, owner, locked, quitting,
          torn, cancelled, overtaken>>

Ticks == 1..MaxTick

Init ==
    /\ clock = 0
    /\ id = [t \in Tasks |-> 0]
    /\ taskIds = {}
    /\ scheduling = NoTask
    /\ posted = {}
    /\ phase = "idle"
    /\ current = NoTask
    /\ self = FALSE
    /\ owner = "held"
    /\ locked = FALSE
    /\ quitting = FALSE
    /\ torn = FALSE
    /\ cancelled = {}
    /\ overtaken = FALSE

Tick ==
    /\ clock < MaxTick
    /\ clock' = clock + 1
    /\ UNCHANGED <<id, taskIds, scheduling, posted, phase, current, self, owner, locked, quitting,
                   torn, cancelled, overtaken>>

-----------------------------------------------------------------------------
(* The owner, on its thread.                                               *)

\* getTaskIds gave the thread a reference: a change now meets its copying.
Disturb == torn' = (torn \/ phase = "copying")

\* schedule: the id is drawn and registered under the mutex ...
Register(t) ==
    /\ owner = "held" /\ ~locked
    /\ scheduling = NoTask
    /\ id[t] = 0 /\ clock # 0
    /\ id' = [id EXCEPT ![t] = clock]
    /\ taskIds' = taskIds \cup {clock}
    /\ scheduling' = t
    /\ Disturb
    /\ UNCHANGED <<clock, posted, phase, current, self, owner, locked, quitting, cancelled,
                   overtaken>>

\* ... and the task posted after it is released.
PostTask ==
    /\ scheduling # NoTask
    /\ posted' = posted \cup {scheduling}
    /\ scheduling' = NoTask
    /\ UNCHANGED <<clock, id, taskIds, phase, current, self, owner, locked, quitting, torn,
                   cancelled, overtaken>>

Cancel(t) ==
    /\ owner = "held" /\ ~locked
    /\ scheduling = NoTask
    /\ id[t] \in taskIds
    /\ taskIds' = taskIds \ {id[t]}
    /\ cancelled' = cancelled \cup {u \in Tasks : id[u] = id[t]}
    /\ overtaken' = (overtaken \/ phase \in {"copying", "running"})
    /\ Disturb
    /\ UNCHANGED <<clock, id, scheduling, posted, phase, current, self, owner, locked, quitting>>

\* The proxy lets go of the owner.  Unless a closure holds it, its destructor
\* calls cancelAll, which takes the mutex, tells the thread to stop and joins it.
Drop ==
    /\ owner = "held" /\ ~locked
    /\ scheduling = NoTask
    /\ owner' = IF self THEN "left" ELSE "joining"
    /\ locked' = ~self
    /\ quitting' = ~self
    /\ UNCHANGED <<clock, id, taskIds, scheduling, posted, phase, current, self, torn, cancelled,
                   overtaken>>

\* Mutant: cancelAll calls Quit, which does not wait.
Quit ==
    /\ owner = "joining"
    /\ taskIds' = {}
    /\ locked' = FALSE
    /\ owner' = "done"
    /\ Disturb
    /\ UNCHANGED <<clock, id, scheduling, posted, phase, current, self, quitting, cancelled,
                   overtaken>>

Joined ==
    /\ owner = "joining"
    /\ phase = "stopped"
    /\ taskIds' = {}
    /\ locked' = FALSE
    /\ owner' = "done"
    /\ Disturb
    /\ UNCHANGED <<clock, id, scheduling, posted, phase, current, self, quitting, cancelled,
                   overtaken>>

-----------------------------------------------------------------------------
(* The thread of the scheduler.                                            *)

ownerVars == <<clock, id, scheduling, owner, cancelled>>

\* Also when told to stop, the thread first runs what is due.
Take(t) ==
    /\ phase = "idle"
    /\ t \in posted
    /\ posted' = posted \ {t}
    /\ current' = t
    /\ phase' = "asking"
    /\ UNCHANGED <<ownerVars, taskIds, self, locked, quitting, torn, overtaken>>

\* getTaskIds returns a reference to the set, once it got the mutex.
GetTaskIds ==
    /\ phase = "asking"
    /\ ~locked
    /\ phase' = "copying"
    /\ torn' = FALSE
    /\ overtaken' = FALSE
    /\ UNCHANGED <<ownerVars, taskIds, posted, current, self, locked, quitting>>

\* Mutant: the task does not look for its id.
SeesAlways == {TRUE}

\* What the copy shows: anything, if the set changed under it.
Sees == IF torn THEN BOOLEAN ELSE {id[current] \in taskIds}

\* The set is copied without the mutex.  A task that finds its id begins its
\* closure, which locks its weak pointer to the owner.
Run ==
    /\ phase = "copying"
    /\ \E sees \in Sees :
        IF sees THEN /\ phase' = "running"
                     /\ self' = (owner = "held")
                     /\ UNCHANGED current
                ELSE phase' = "idle" /\ current' = NoTask /\ UNCHANGED self
    /\ UNCHANGED <<ownerVars, taskIds, posted, locked, quitting, torn, overtaken>>

\* Mutant: the task posts a pointer it has moved from.
AgainMoved(t) == IF t \in Repetitive /\ ~quitting THEN posted \cup {NoTask} ELSE posted

Again(t) == IF t \in Repetitive /\ ~quitting THEN posted \cup {t} ELSE posted

\* Mutant: the closure calls the owner's thread and waits for it.
FinishCalling ==
    /\ phase = "running"
    /\ owner \in {"held", "done"}
    /\ self' = FALSE
    /\ phase' = "idle"
    /\ current' = NoTask
    /\ posted' = Again(current)
    /\ UNCHANGED <<ownerVars, taskIds, locked, quitting, torn, overtaken>>

\* Mutant: a repetitive task is not posted again.
FinishOnce ==
    /\ phase = "running"
    /\ owner # "left"
    /\ self' = FALSE
    /\ phase' = "idle"
    /\ current' = NoTask
    /\ UNCHANGED <<ownerVars, posted, taskIds, locked, quitting, torn, overtaken>>

\* The closure ends, and a repetitive task posts itself again; a thread that
\* was told to stop takes nothing.
Finish ==
    /\ phase = "running"
    /\ owner # "left"
    /\ self' = FALSE
    /\ phase' = "idle"
    /\ current' = NoTask
    /\ posted' = Again(current)
    /\ UNCHANGED <<ownerVars, taskIds, locked, quitting, torn, overtaken>>

\* The closure ends with the last reference to the owner: the destructor runs
\* here, takes the mutex and stops the thread it runs on.
FinishLast ==
    /\ phase = "running"
    /\ owner = "left"
    /\ self' = FALSE
    /\ phase' = "joiningItself"
    /\ locked' = TRUE
    /\ quitting' = TRUE
    /\ UNCHANGED <<ownerVars, taskIds, posted, current, torn, overtaken>>

Exit ==
    /\ phase = "idle"
    /\ quitting
    /\ phase' = "stopped"
    /\ UNCHANGED <<ownerVars, taskIds, posted, current, self, locked, quitting, torn, overtaken>>

-----------------------------------------------------------------------------
OwnerStep == Drop \/ \E t \in Tasks : Register(t) \/ Cancel(t)

ThreadStep == GetTaskIds \/ Run \/ Finish \/ FinishLast \/ Exit

Next == Tick \/ OwnerStep \/ PostTask \/ Joined \/ ThreadStep \/ \E t \in Tasks : Take(t)

Spec == Init /\ [][Next]_vars

\* A call that has begun goes on, the thread runs, and its queue, in the order
\* in which tasks are due, starves none.  When to schedule, cancel and let go
\* is up to the owner.
FairSpec ==
    /\ Spec
    /\ WF_vars(PostTask) /\ WF_vars(Joined) /\ WF_vars(ThreadStep)
    /\ \A t \in Tasks : SF_vars(Take(t))

-----------------------------------------------------------------------------
(* Properties.                                                             *)

\* Every variable has its type, and a thread that is busy has a task.
TypeOK ==
    /\ clock \in 0..MaxTick
    /\ id \in [Tasks -> 0..MaxTick]
    /\ taskIds \subseteq Ticks
    /\ scheduling \in Tasks \cup {NoTask}
    /\ posted \subseteq Tasks
    /\ phase \in {"idle", "asking", "copying", "running", "joiningItself", "stopped"}
    /\ current \in Tasks \cup {NoTask}
    /\ self \in BOOLEAN
    /\ owner \in {"held", "left", "joining", "done"}
    /\ locked \in BOOLEAN
    /\ quitting \in BOOLEAN
    /\ torn \in BOOLEAN
    /\ cancelled \subseteq Tasks
    /\ overtaken \in BOOLEAN
    /\ phase \in {"idle", "stopped"} <=> current = NoTask

\* Two tasks scheduled in one tick have one id (task_scheduler.h:23-28).
Clash(t) == \E u \in Tasks \ {t} : id[u] = id[t]

\* The closure of a cancelled task does not begin, but for a cancel that comes
\* when the task has taken its look at the ids, a change of the set under that
\* look, or another task with its id (task_scheduler.h:42-50, 73-90, 119-135).
CancelHonoured ==
    phase = "running" /\ current \in cancelled => overtaken \/ torn \/ Clash(current)

\* Once the destructor of the owner has run, no closure of its tasks runs or
\* will; and while it waits, none is about to begin with a reference to it
\* (task_scheduler.h:126-130).
NoRunAfterOwner ==
    /\ owner = "done" => phase = "stopped" /\ ~self
    /\ owner = "joining" => ~self

\* A repetitive task runs again and again until its id is cancelled or the
\* owner goes, unless its look meets a change of the set, which can end it
\* (task_scheduler.h:73-90).
KeepsRunning ==
    \A t \in Repetitive :
        <>(t \in posted) =>
            \/ []<>(phase = "running" /\ current = t)
            \/ <>(t \in cancelled \/ owner # "held" \/ (torn /\ current = t))

\* cancelAll ends, unless a task was due and asks for the mutex that cancelAll
\* holds while it waits for that very thread (task_scheduler.h:126-135).
StopReturns == owner = "joining" ~> (owner = "done" \/ phase = "asking")

\* "Never call Stop on the current thread" (rtc_base/thread.h:361).
NeverStopsItself == phase # "joiningItself"
=============================================================================
