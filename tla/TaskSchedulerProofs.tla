------------------------ MODULE TaskSchedulerProofs ------------------------
(***************************************************************************)
(* Proofs about TaskScheduler, for any tasks and any number of ticks: its  *)
(* type invariant, that a cancelled task does not begin, and that nothing  *)
(* runs once the owner is gone.                                            *)
(***************************************************************************)
EXTENDS TaskScheduler, TLAPS

-----------------------------------------------------------------------------
(* The inductive invariant.  A task that finds its id although that was    *)
(* cancelled can only have found another's: an id comes back to the set    *)
(* with a task that draws it again, and stays drawn.                       *)

CancelledDrawn == \A t \in cancelled : id[t] # 0

CancelledGone == \A t \in cancelled : id[t] \in taskIds => Clash(t)

IInv == TypeOK /\ CancelledDrawn /\ CancelledGone /\ CancelHonoured /\ NoRunAfterOwner

LEMMA InitInv == ASSUME Init PROVE IInv
<1>1. TypeOK
  <2>1. /\ clock \in 0..MaxTick /\ id \in [Tasks -> 0..MaxTick]
        /\ taskIds \subseteq Ticks /\ posted \subseteq Tasks /\ cancelled \subseteq Tasks
        /\ phase = "idle" /\ current = NoTask /\ scheduling = NoTask /\ owner = "held"
    BY TickAssumption DEF Init
  <2>2. /\ self \in BOOLEAN /\ locked \in BOOLEAN /\ quitting \in BOOLEAN
        /\ torn \in BOOLEAN /\ overtaken \in BOOLEAN
    BY DEF Init
  <2> QED
    BY <2>1, <2>2 DEF TypeOK
<1> QED
  BY <1>1 DEF Init, IInv, CancelledDrawn, CancelledGone, CancelHonoured, NoRunAfterOwner

\* Every action keeps the types.
LEMMA NextType == ASSUME TypeOK, Next PROVE TypeOK'
<1> USE TickAssumption
<1>1. CASE Tick
  BY <1>1 DEF Tick, TypeOK
<1>2. ASSUME NEW t \in Tasks, Register(t)
      PROVE  TypeOK'
  BY <1>2 DEF Register, Disturb, TypeOK, Ticks
<1>3. CASE PostTask
  BY <1>3 DEF PostTask, TypeOK
<1>4. ASSUME NEW t \in Tasks, Cancel(t)
      PROVE  TypeOK'
  BY <1>4 DEF Cancel, Disturb, TypeOK
<1>5. CASE Drop
  BY <1>5 DEF Drop, TypeOK
<1>6. CASE Joined
  BY <1>6 DEF Joined, Disturb, TypeOK
<1>7. ASSUME NEW t \in Tasks, Take(t)
      PROVE  TypeOK'
  BY <1>7, TasksAssumption DEF Take, ownerVars, TypeOK
<1>8. CASE GetTaskIds
  BY <1>8 DEF GetTaskIds, ownerVars, TypeOK
<1>9. CASE Run
  BY <1>9 DEF Run, ownerVars, TypeOK
<1>10. CASE Finish
  BY <1>10, TasksAssumption DEF Finish, Again, ownerVars, TypeOK
<1>11. CASE FinishLast
  BY <1>11 DEF FinishLast, ownerVars, TypeOK
<1>12. CASE Exit
  BY <1>12 DEF Exit, ownerVars, TypeOK
<1> QED
  BY <1>1, <1>2, <1>3, <1>4, <1>5, <1>6, <1>7, <1>8, <1>9, <1>10, <1>11, <1>12
     DEF Next, OwnerStep, ThreadStep

\* Registering t keeps every clash of tasks that have an id, and makes one of
\* t with each task that drew this tick's id.
LEMMA RegisterClash ==
    ASSUME TypeOK, NEW t \in Tasks, Register(t), NEW u \in Tasks, id[u] # 0
    PROVE  /\ id'[u] = id[u]
           /\ Clash(u) => Clash(u)'
           /\ id[u] = clock => Clash(u)'
<1>1. u # t /\ id'[u] = id[u] /\ id'[t] = clock
  BY DEF Register, TypeOK
<1>2. ASSUME Clash(u)
      PROVE  Clash(u)'
  <2>1. PICK v \in Tasks \ {u} : id[v] = id[u]
    BY <1>2 DEF Clash
  <2>2. v # t /\ id'[v] = id[v]
    BY <2>1 DEF Register, TypeOK
  <2> QED
    BY <1>1, <2>1, <2>2 DEF Clash
<1> QED
  BY <1>1, <1>2 DEF Clash

LEMMA RegisterInv == ASSUME IInv, NEW t \in Tasks, Register(t) PROVE IInv'
<1>1. TypeOK /\ TypeOK'
  BY NextType DEF IInv, Next, OwnerStep
<1>2. cancelled' = cancelled /\ cancelled \subseteq Tasks
  BY <1>1 DEF Register, TypeOK
<1>3. \A u \in cancelled : /\ id[u] # 0 /\ id'[u] = id[u]
                           /\ Clash(u) => Clash(u)'
                           /\ id[u] = clock => Clash(u)'
  BY <1>1, <1>2, RegisterClash DEF IInv, CancelledDrawn
<1>4. CancelledDrawn' /\ CancelledGone'
  BY <1>2, <1>3 DEF IInv, CancelledDrawn, CancelledGone, Register
<1>5. CancelHonoured'
  BY <1>2, <1>3 DEF IInv, CancelHonoured, Register, Disturb
<1>6. NoRunAfterOwner'
  BY DEF IInv, NoRunAfterOwner, Register
<1> QED
  BY <1>1, <1>4, <1>5, <1>6 DEF IInv

LEMMA CancelInv == ASSUME IInv, NEW t \in Tasks, Cancel(t) PROVE IInv'
<1>1. TypeOK /\ TypeOK'
  BY NextType DEF IInv, Next, OwnerStep
<1>2. /\ id' = id /\ id[t] # 0 /\ taskIds' = taskIds \ {id[t]}
      /\ \A u \in cancelled' : u \in cancelled \/ id[u] = id[t]
  BY <1>1 DEF Cancel, TypeOK, Ticks
<1>3. CancelledDrawn' /\ CancelledGone'
  BY <1>2 DEF IInv, CancelledDrawn, CancelledGone, Clash
<1>4. CancelHonoured'
  BY DEF CancelHonoured, Cancel
<1>5. NoRunAfterOwner'
  BY DEF IInv, NoRunAfterOwner, Cancel
<1> QED
  BY <1>1, <1>3, <1>4, <1>5 DEF IInv

\* What finds its id in an untorn copy although it was cancelled clashes.
LEMMA RunInv == ASSUME IInv, Run PROVE IInv'
<1>1. TypeOK /\ TypeOK'
  BY NextType DEF IInv, Next, ThreadStep
<1>2. UNCHANGED <<id, taskIds, cancelled, torn, owner>>
  BY DEF Run, ownerVars
<1>3. CancelledDrawn' /\ CancelledGone'
  BY <1>2 DEF IInv, CancelledDrawn, CancelledGone, Clash
<1>4. CancelHonoured'
  <2> SUFFICES ASSUME phase' = "running", current' \in cancelled, ~torn
               PROVE  Clash(current)'
    BY <1>2 DEF CancelHonoured
  <2>1. current' = current /\ id[current] \in taskIds
    BY DEF Run, Sees
  <2> QED
    BY <1>2, <2>1 DEF IInv, CancelledGone, Clash
<1>5. NoRunAfterOwner'
  BY <1>2 DEF IInv, NoRunAfterOwner, Run
<1> QED
  BY <1>1, <1>3, <1>4, <1>5 DEF IInv

\* The other actions change no id, add none to the set and begin no closure.
LEMMA OtherInv ==
    ASSUME IInv,
           Tick \/ PostTask \/ Drop \/ Joined \/ GetTaskIds \/ Finish \/ FinishLast \/ Exit
             \/ \E t \in Tasks : Take(t)
    PROVE  IInv'
<1>1. TypeOK /\ TypeOK'
  BY NextType DEF IInv, Next, OwnerStep, ThreadStep
<1>2. UNCHANGED <<id, cancelled>> /\ taskIds' \subseteq taskIds
  BY DEF Tick, PostTask, Drop, Joined, GetTaskIds, Finish, FinishLast, Exit, Take, ownerVars
<1>3. CancelledDrawn' /\ CancelledGone'
  BY <1>2 DEF IInv, CancelledDrawn, CancelledGone, Clash
<1>4. CancelHonoured'
  <2>1. phase' = "running" => /\ phase = "running"
                              /\ UNCHANGED <<current, overtaken>>
                              /\ torn => torn'
    BY DEF Tick, PostTask, Drop, Joined, GetTaskIds, Finish, FinishLast, Exit, Take, ownerVars,
       Disturb
  <2> QED
    BY <1>2, <2>1 DEF IInv, CancelHonoured, Clash
<1>5. NoRunAfterOwner'
  BY DEF IInv, NoRunAfterOwner, Tick, PostTask, Drop, Joined, GetTaskIds, Finish, FinishLast, Exit,
     Take, ownerVars
<1> QED
  BY <1>1, <1>3, <1>4, <1>5 DEF IInv

LEMMA StutterInv == ASSUME IInv, UNCHANGED vars PROVE IInv'
BY DEF vars, IInv, TypeOK, CancelledDrawn, CancelledGone, CancelHonoured, NoRunAfterOwner, Clash

\* What every reachable state of the scheduler satisfies.
THEOREM SchedulerInvariance == Spec => []IInv
<1>1. IInv /\ [Next]_vars => IInv'
  BY RegisterInv, CancelInv, RunInv, OtherInv, StutterInv DEF Next, OwnerStep, ThreadStep
<1> QED
  BY InitInv, <1>1, PTL DEF Spec

\* Type correctness of the scheduler (task_scheduler.h:183-186).
THEOREM SchedulerTypeCorrect == Spec => []TypeOK
<1>1. IInv => TypeOK
  BY DEF IInv
<1> QED
  BY <1>1, SchedulerInvariance, PTL

\* A cancelled task does not begin, whatever tasks there are and whenever the
\* owner cancels, but for the exceptions that CancelHonoured names: the code's
\* look at the ids is taken outside the mutex, and ids are not unique
\* (task_scheduler.h:23-28, 73-90, 132-135).
THEOREM CancelledStays == Spec => []CancelHonoured
<1>1. IInv => CancelHonoured
  BY DEF IInv
<1> QED
  BY <1>1, SchedulerInvariance, PTL

\* When cancelAll returns to the destructor of the owner the thread has ended,
\* and no closure had the owner when the destructor began
\* (task_scheduler.h:126-130, plugin_client.cpp:42-46).
THEOREM OwnerGone == Spec => []NoRunAfterOwner
<1>1. IInv => NoRunAfterOwner
  BY DEF IInv
<1> QED
  BY <1>1, SchedulerInvariance, PTL
=============================================================================
