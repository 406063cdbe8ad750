------------------------- MODULE PluginClientProofs -------------------------
(***************************************************************************)
(* Proofs about PluginClient, for any bounds: its type invariant, that a   *)
(* null pointer is met only on behalf of a PeerConnection that a clean-up  *)
(* overtook, that nothing of a PeerConnection survives it otherwise, and   *)
(* that a candidate goes to a PeerConnection with its remote description.  *)
(* All rest on IInv: whatever is queued on either thread is of the         *)
(* PeerConnection of the moment, or of one that was overtaken.             *)
(***************************************************************************)
EXTENDS PluginClient, TLAPS

-----------------------------------------------------------------------------
(* The inductive invariant.                                                *)

\* A task is of the current PeerConnection, or of an overtaken one; only a
\* publisher announces a track; a negotiation that waits for its
\* PeerConnection comes after all that have one, and before those to begin.
\* The parameters are pc, overtaken, role, peers and status.
Good(t, p, over, r, top, st) ==
    /\ t.peer \in {0, p} \cup over
    /\ t.kind = "localTrack" => r = "publisher"
    /\ t.kind = "prepare" =>
         /\ t.n > top
         /\ \A m \in Negotiations : st[m] = "none" => m > t.n

Orderly(q) ==
    \A i, j \in 1..Len(q) :
        i < j /\ q[i].kind = "prepare" /\ q[j].kind = "prepare" => q[i].n < q[j].n

GoodQueue(q, p, over, r, top, st) ==
    /\ \A i \in 1..Len(q) : Good(q[i], p, over, r, top, st)
    /\ Orderly(q)
    /\ \A m \in Negotiations : st[m] = "none" => m > top

GoodOps(ops, p, over) == \A i \in 1..Len(ops) : ops[i].peer \in {p} \cup over

TasksInv == GoodQueue(pcQueue, pc, overtaken, role, peers, status)
OpsInv == GoodOps(sig, pc, overtaken)

\* What a step in two parts rests on until its second part.
StepsInv ==
    /\ looked # "none" => pcQueue # <<>> /\ Head(pcQueue).kind = "trickle" /\ ~clearing
    /\ looked = "add" => pc # 0 /\ remoteSdp # 0
    /\ clearing => pcQueue # <<>> /\ pc = 0
    /\ flushing # 0 => sig # <<>>

ContextInv ==
    /\ role = "publisher" /\ pc # 0 => localStream
    /\ remoteSdp # 0 => remoteSdp \in described

\* The first half of SdpFresh (NegotiationProofs has the other).
SdpCurrent == \A s \in sent : s.pc = s.peer \/ s.peer \in overtaken

IInv ==
    /\ TypeOK
    /\ TasksInv
    /\ OpsInv
    /\ StepsInv
    /\ ContextInv
    /\ NothingSurvives
    /\ CrashOnlyOvertaken
    /\ AddedWhenDescribed
    /\ SdpCurrent

-----------------------------------------------------------------------------
(* Queues.                                                                 *)

LEMMA Bounds ==
    MaxNegotiations \in Nat /\ MaxCandidates \in Nat /\ MaxCleanups \in Nat
BY BoundsAssumption

LEMMA AppendAt ==
    ASSUME NEW S, NEW s \in Seq(S), NEW e \in S
    PROVE  /\ Append(s, e) \in Seq(S)
           /\ Len(s) \in Nat
           /\ Len(Append(s, e)) = Len(s) + 1
           /\ \A i \in 1..Len(s) : Append(s, e)[i] = s[i]
           /\ Append(s, e)[Len(s) + 1] = e
           /\ Append(s, e) # <<>>
OBVIOUS

LEMMA AppendHead ==
    ASSUME NEW S, NEW s \in Seq(S), NEW e \in S, s # <<>>
    PROVE  Head(Append(s, e)) = Head(s)
<1>1. Head(s) = s[1] /\ 1 \in 1..Len(s)
  OBVIOUS
<1>2. Head(Append(s, e)) = Append(s, e)[1]
  BY AppendAt
<1> QED
  BY <1>1, <1>2, AppendAt

LEMMA TailAt ==
    ASSUME NEW S, NEW s \in Seq(S), s # <<>>
    PROVE  /\ Tail(s) \in Seq(S)
           /\ Len(s) \in Nat \ {0}
           /\ Len(Tail(s)) = Len(s) - 1
           /\ \A i \in 1..(Len(s) - 1) : Tail(s)[i] = s[i + 1]
           /\ Head(s) = s[1]
           /\ Head(s) \in S
OBVIOUS

LEMMA QueueTail ==
    ASSUME NEW q \in Seq(PcTasks), q # <<>>, NEW p, NEW over, NEW r, NEW top, NEW st,
           GoodQueue(q, p, over, r, top, st)
    PROVE  /\ GoodQueue(Tail(q), p, over, r, top, st)
           /\ Good(Head(q), p, over, r, top, st)
<1>1. \A i \in 1..Len(Tail(q)) : i + 1 \in 1..Len(q) /\ Tail(q)[i] = q[i + 1] /\ i \in Nat
  BY TailAt
<1>2. Orderly(Tail(q))
  <2> SUFFICES ASSUME NEW i \in 1..Len(Tail(q)), NEW j \in 1..Len(Tail(q)), i < j,
                      Tail(q)[i].kind = "prepare", Tail(q)[j].kind = "prepare"
               PROVE  Tail(q)[i].n < Tail(q)[j].n
    BY DEF Orderly
  <2>1. i + 1 < j + 1
    BY <1>1
  <2> QED
    BY <1>1, <2>1 DEF GoodQueue, Orderly
<1>3. 1 \in 1..Len(q) /\ Head(q) = q[1]
  BY TailAt
<1> QED
  BY <1>1, <1>2, <1>3 DEF GoodQueue

LEMMA QueueAppend ==
    ASSUME NEW q \in Seq(PcTasks), NEW p, NEW over, NEW r, NEW top, NEW st,
           GoodQueue(q, p, over, r, top, st),
           NEW e \in PcTasks, Good(e, p, over, r, top, st),
           e.kind = "prepare" => \A i \in 1..Len(q) : q[i].kind = "prepare" => q[i].n < e.n
    PROVE  GoodQueue(Append(q, e), p, over, r, top, st)
<1>1. Len(q) \in Nat /\ Len(Append(q, e)) = Len(q) + 1
  BY AppendAt
<1>2. \A i \in 1..Len(Append(q, e)) : i \in 1..Len(q) \/ i = Len(q) + 1
  BY <1>1
<1>3. Orderly(Append(q, e))
  <2> SUFFICES ASSUME NEW i \in 1..Len(Append(q, e)), NEW j \in 1..Len(Append(q, e)), i < j,
                      Append(q, e)[i].kind = "prepare", Append(q, e)[j].kind = "prepare"
               PROVE  Append(q, e)[i].n < Append(q, e)[j].n
    BY DEF Orderly
  <2>1. i \in 1..Len(q) /\ Append(q, e)[i] = q[i]
    BY <1>1, <1>2, AppendAt
  <2>2. CASE j \in 1..Len(q)
    BY <2>1, <2>2, AppendAt DEF GoodQueue, Orderly
  <2>3. CASE j = Len(q) + 1
    BY <2>1, <2>3, AppendAt
  <2> QED
    BY <1>2, <2>2, <2>3
<1> QED
  BY <1>2, <1>3, AppendAt DEF GoodQueue

\* The context changes around the queue, which stays good when its tasks are
\* still of the PeerConnection of the moment or of an overtaken one.
LEMMA QueueKept ==
    ASSUME NEW q \in Seq(PcTasks), NEW p, NEW over, NEW r, NEW top, NEW st, NEW p2, NEW over2,
           NEW st2, GoodQueue(q, p, over, r, top, st),
           \A i \in 1..Len(q) : q[i].peer \in {0, p} \cup over => q[i].peer \in {0, p2} \cup over2,
           \A m \in Negotiations : st2[m] = "none" => st[m] = "none"
    PROVE  GoodQueue(q, p2, over2, r, top, st2)
BY DEF GoodQueue, Good

LEMMA QueueMarked ==
    ASSUME NEW q \in Seq(PcTasks), NEW p, NEW over, NEW r, NEW top, NEW st, NEW st2,
           GoodQueue(q, p, over, r, top, st),
           \A m \in Negotiations : st2[m] = "none" => st[m] = "none"
    PROVE  GoodQueue(q, p, over, r, top, st2)
BY DEF GoodQueue, Good

LEMMA OpsTail ==
    ASSUME NEW ops \in Seq(Operations), ops # <<>>, NEW p, NEW over, GoodOps(ops, p, over)
    PROVE  /\ GoodOps(Tail(ops), p, over)
           /\ Head(ops).peer \in {p} \cup over
<1>1. \A i \in 1..Len(Tail(ops)) : i + 1 \in 1..Len(ops) /\ Tail(ops)[i] = ops[i + 1]
  BY TailAt
<1>2. 1 \in 1..Len(ops) /\ Head(ops) = ops[1]
  BY TailAt
<1> QED
  BY <1>1, <1>2 DEF GoodOps

LEMMA OpsAppend ==
    ASSUME NEW ops \in Seq(Operations), NEW p, NEW over, GoodOps(ops, p, over),
           NEW e \in Operations, e.peer \in {p} \cup over
    PROVE  GoodOps(Append(ops, e), p, over)
<1>1. \A i \in 1..Len(Append(ops, e)) : i \in 1..Len(ops) \/ i = Len(ops) + 1
  BY AppendAt
<1> QED
  BY <1>1, AppendAt DEF GoodOps

LEMMA BudgetSpent ==
    ASSUME NEW b \in [cleanups : Nat, candidates : 0..MaxCandidates], MaxCandidates \in Nat
    PROVE  /\ [b EXCEPT !.cleanups = @ + 1] \in [cleanups : Nat, candidates : 0..MaxCandidates]
           /\ b.candidates < MaxCandidates =>
                /\ [b EXCEPT !.candidates = @ + 1] \in [cleanups : Nat, candidates : 0..MaxCandidates]
                /\ [b EXCEPT !.candidates = @ + 1].candidates \in Candidates
BY DEF Candidates

\* What a task may be.
LEMMA TaskTypes ==
    ASSUME NEW t \in PcTasks
    PROVE  /\ t.kind \in {"prepare", "jsep", "answer", "given"} => t.n \in Negotiations
           /\ t.kind = "trickle" => t.n \in Candidates
           /\ t.kind \in {"localTrack", "answer", "given"} => t.peer \in Peers
BY DEF PcTasks

LEMMA TasksAre ==
    /\ \A n \in Negotiations : Task("prepare", n, 0) \in PcTasks /\ Task("jsep", n, 0) \in PcTasks
    /\ \A c \in Candidates : Task("trickle", c, 0) \in PcTasks
    /\ Task("cleanup", 0, 0) \in PcTasks
    /\ \A p \in Peers : Task("localTrack", 0, p) \in PcTasks
    /\ \A n \in Negotiations, p \in Peers :
         /\ Task("answer", n, p) \in PcTasks /\ Task("given", n, p) \in PcTasks
         /\ Task("create", n, p) \in Operations /\ Task("remote", n, p) \in Operations
BY DEF Task, PcTasks, Operations

-----------------------------------------------------------------------------
(* The steps.                                                              *)

LEMMA Taken ==
    ASSUME IInv, NEW kind, PcTake(kind)
    PROVE  /\ pcQueue \in Seq(PcTasks) /\ pcQueue # <<>>
           /\ Head(pcQueue) \in PcTasks /\ Head(pcQueue).kind = kind
           /\ Tail(pcQueue) \in Seq(PcTasks)
           /\ Good(Head(pcQueue), pc, overtaken, role, peers, status)
           /\ GoodQueue(Tail(pcQueue), pc, overtaken, role, peers, status)
           /\ looked = "none" /\ ~clearing /\ crashed = 0
<1>1. pcQueue \in Seq(PcTasks) /\ pcQueue # <<>>
  BY DEF IInv, TypeOK, PcTake
<1> QED
  BY <1>1, QueueTail, TailAt DEF IInv, TasksInv, PcTake, PcIdle

LEMMA SigTaken ==
    ASSUME IInv, NEW kind, SigTake(kind)
    PROVE  /\ sig \in Seq(Operations) /\ sig # <<>>
           /\ Head(sig) \in Operations /\ Head(sig).kind = kind
           /\ Head(sig).n \in Negotiations /\ Head(sig).peer \in Peers
           /\ Head(sig).peer \in {pc} \cup overtaken
           /\ Tail(sig) \in Seq(Operations)
           /\ GoodOps(Tail(sig), pc, overtaken)
           /\ flushing = 0 /\ crashed = 0
<1>1. sig \in Seq(Operations) /\ sig # <<>>
  BY DEF IInv, TypeOK, SigTake
<1>2. Head(sig) \in Operations
  BY <1>1, TailAt
<1> QED
  BY <1>1, <1>2, OpsTail, TailAt DEF IInv, OpsInv, SigTake, Operations

LEMMA ServerAnswerKept == ASSUME IInv, NEW n \in Negotiations, ServerAnswer(n) PROVE IInv'
<1> DEFINE e == Task("jsep", n, 0)
<1>1. /\ e \in PcTasks /\ pcQueue \in Seq(PcTasks)
      /\ e.kind = "jsep" /\ e.n = n /\ e.peer = 0
      /\ pcQueue' = Append(pcQueue, e) /\ pcQueue' \in Seq(PcTasks) /\ pcQueue' # <<>>
  <2>1. e \in PcTasks /\ pcQueue \in Seq(PcTasks)
    BY TasksAre DEF IInv, TypeOK
  <2>2. e.kind = "jsep" /\ e.n = n /\ e.peer = 0
    BY DEF Task
  <2>3. pcQueue' = Append(pcQueue, e)
    BY DEF Arrives, ServerAnswer
  <2> QED
    BY <2>1, <2>2, <2>3, AppendAt
<1>8. pcQueue # <<>> => Head(pcQueue') = Head(pcQueue)
  BY <1>1, AppendHead
<1> HIDE DEF e
<1>2. TypeOK'
  BY <1>1, Bounds, BudgetSpent DEF IInv, TypeOK, ServerAnswer, Arrives, contextVars, candidateVars, stepVars, historyVars, Marks
<1>3. TasksInv'
  <2>1. Good(e, pc, overtaken, role, peers, status)
    BY <1>1 DEF Good
  <2>2. GoodQueue(Append(pcQueue, e), pc, overtaken, role, peers, status)
    BY <1>1, <2>1, QueueAppend DEF IInv, TasksInv
  <2>3. \A m \in Negotiations : status'[m] = "none" => status[m] = "none"
    BY DEF IInv, TypeOK, ServerAnswer, Marks
  <2>4. GoodQueue(pcQueue', pc, overtaken, role, peers, status')
    BY <1>1, <2>2, <2>3, QueueMarked
  <2> QED
    BY <2>4 DEF TasksInv, ServerAnswer, Arrives, contextVars
<1>4. OpsInv'
  BY DEF IInv, OpsInv, ServerAnswer, Arrives, contextVars, candidateVars, stepVars, historyVars, Marks
<1>5. StepsInv'
  BY <1>1, <1>8 DEF IInv, StepsInv, ServerAnswer, Arrives, contextVars, candidateVars, stepVars, historyVars, Marks
<1>6. ContextInv' /\ NothingSurvives'
  BY DEF IInv, ContextInv, NothingSurvives, ServerAnswer, Arrives, contextVars, candidateVars, stepVars, historyVars, Marks
<1>7. CrashOnlyOvertaken' /\ AddedWhenDescribed' /\ SdpCurrent'
  BY DEF IInv, CrashOnlyOvertaken, AddedWhenDescribed, SdpCurrent, ServerAnswer, Arrives, contextVars, candidateVars, stepVars, historyVars, Marks
<1> QED
  BY <1>2, <1>3, <1>4, <1>5, <1>6, <1>7 DEF IInv

LEMMA PostCleanupKept == ASSUME IInv, PostCleanup PROVE IInv'
<1> DEFINE e == Task("cleanup", 0, 0)
<1>1. /\ e \in PcTasks /\ pcQueue \in Seq(PcTasks)
      /\ e.kind = "cleanup" /\ e.n = 0 /\ e.peer = 0
      /\ pcQueue' = Append(pcQueue, e) /\ pcQueue' \in Seq(PcTasks) /\ pcQueue' # <<>>
  <2>1. e \in PcTasks /\ pcQueue \in Seq(PcTasks)
    BY TasksAre DEF IInv, TypeOK
  <2>2. e.kind = "cleanup" /\ e.n = 0 /\ e.peer = 0
    BY DEF Task
  <2>3. pcQueue' = Append(pcQueue, e)
    BY DEF Arrives, PostCleanup
  <2> QED
    BY <2>1, <2>2, <2>3, AppendAt
<1>8. pcQueue # <<>> => Head(pcQueue') = Head(pcQueue)
  BY <1>1, AppendHead
<1> HIDE DEF e
<1>2. TypeOK'
  BY <1>1, Bounds, BudgetSpent DEF IInv, TypeOK, PostCleanup, Arrives, contextVars, candidateVars, stepVars, historyVars
<1>3. TasksInv'
  <2>1. Good(e, pc, overtaken, role, peers, status)
    BY <1>1 DEF Good
  <2>2. GoodQueue(pcQueue', pc, overtaken, role, peers, status)
    BY <1>1, <2>1, QueueAppend DEF IInv, TasksInv
  <2> QED
    BY <2>2 DEF TasksInv, PostCleanup, Arrives, contextVars
<1>4. OpsInv'
  BY DEF IInv, OpsInv, PostCleanup, Arrives, contextVars, candidateVars, stepVars, historyVars
<1>5. StepsInv'
  BY <1>1, <1>8 DEF IInv, StepsInv, PostCleanup, Arrives, contextVars, candidateVars, stepVars, historyVars
<1>6. ContextInv' /\ NothingSurvives'
  BY DEF IInv, ContextInv, NothingSurvives, PostCleanup, Arrives, contextVars, candidateVars, stepVars, historyVars
<1>7. CrashOnlyOvertaken' /\ AddedWhenDescribed' /\ SdpCurrent'
  BY DEF IInv, CrashOnlyOvertaken, AddedWhenDescribed, SdpCurrent, PostCleanup, Arrives, contextVars, candidateVars, stepVars, historyVars
<1> QED
  BY <1>2, <1>3, <1>4, <1>5, <1>6, <1>7 DEF IInv

LEMMA ServerCandidateKept == ASSUME IInv, ServerCandidate PROVE IInv'
<1> DEFINE e == Task("trickle", budget'.candidates, 0)
<1>0. budget' \in [cleanups : Nat, candidates : 0..MaxCandidates] /\ budget'.candidates \in Candidates
  BY Bounds, BudgetSpent DEF IInv, TypeOK, ServerCandidate
<1>1. /\ e \in PcTasks /\ pcQueue \in Seq(PcTasks)
      /\ e.kind = "trickle" /\ e.n = budget'.candidates /\ e.peer = 0
      /\ pcQueue' = Append(pcQueue, e) /\ pcQueue' \in Seq(PcTasks) /\ pcQueue' # <<>>
  <2>1. e \in PcTasks /\ pcQueue \in Seq(PcTasks)
    BY <1>0, TasksAre DEF IInv, TypeOK
  <2>2. e.kind = "trickle" /\ e.n = budget'.candidates /\ e.peer = 0
    BY DEF Task
  <2>3. pcQueue' = Append(pcQueue, e)
    BY DEF Arrives, ServerCandidate
  <2> QED
    BY <2>1, <2>2, <2>3, AppendAt
<1>8. pcQueue # <<>> => Head(pcQueue') = Head(pcQueue)
  BY <1>1, AppendHead
<1> HIDE DEF e
<1>2. TypeOK'
  BY <1>1, Bounds, BudgetSpent DEF IInv, TypeOK, ServerCandidate, Arrives, contextVars, candidateVars, stepVars, historyVars
<1>3. TasksInv'
  <2>1. Good(e, pc, overtaken, role, peers, status)
    BY <1>1 DEF Good
  <2>2. GoodQueue(pcQueue', pc, overtaken, role, peers, status)
    BY <1>1, <2>1, QueueAppend DEF IInv, TasksInv
  <2> QED
    BY <2>2 DEF TasksInv, ServerCandidate, Arrives, contextVars
<1>4. OpsInv'
  BY DEF IInv, OpsInv, ServerCandidate, Arrives, contextVars, candidateVars, stepVars, historyVars
<1>5. StepsInv'
  BY <1>1, <1>8 DEF IInv, StepsInv, ServerCandidate, Arrives, contextVars, candidateVars, stepVars, historyVars
<1>6. ContextInv' /\ NothingSurvives'
  BY DEF IInv, ContextInv, NothingSurvives, ServerCandidate, Arrives, contextVars, candidateVars, stepVars, historyVars
<1>7. CrashOnlyOvertaken' /\ AddedWhenDescribed' /\ SdpCurrent'
  BY DEF IInv, CrashOnlyOvertaken, AddedWhenDescribed, SdpCurrent, ServerCandidate, Arrives, contextVars, candidateVars, stepVars, historyVars
<1> QED
  BY <1>2, <1>3, <1>4, <1>5, <1>6, <1>7 DEF IInv

LEMMA BeginKept == ASSUME IInv, NEW n \in Negotiations, Begin(n) PROVE IInv'
<1> DEFINE e == Task("prepare", n, 0)
<1>1. /\ e \in PcTasks /\ pcQueue \in Seq(PcTasks)
      /\ e.kind = "prepare" /\ e.n = n /\ e.peer = 0
      /\ pcQueue' = Append(pcQueue, e) /\ pcQueue' \in Seq(PcTasks) /\ pcQueue' # <<>>
  <2>1. e \in PcTasks /\ pcQueue \in Seq(PcTasks)
    BY TasksAre DEF IInv, TypeOK
  <2>2. e.kind = "prepare" /\ e.n = n /\ e.peer = 0
    BY DEF Task
  <2>3. pcQueue' = Append(pcQueue, e)
    BY DEF Arrives, Begin
  <2> QED
    BY <2>1, <2>2, <2>3, AppendAt
<1>8. pcQueue # <<>> => Head(pcQueue') = Head(pcQueue)
  BY <1>1, AppendHead
<1> HIDE DEF e
<1>2. TypeOK'
  BY <1>1, Bounds, BudgetSpent DEF IInv, TypeOK, Begin, Arrives, contextVars, candidateVars, stepVars, historyVars, Marks
<1>3. TasksInv'
  <2>1. \A m \in Negotiations : status'[m] = "none" <=> status[m] = "none" /\ m # n
    BY DEF IInv, TypeOK, Begin, Marks
  <2>2. n > peers /\ status[n] = "none"
    BY DEF IInv, TasksInv, GoodQueue, Begin
  <2>3. \A m \in Negotiations : status'[m] = "none" => m > n
    BY <2>1 DEF Begin, Negotiations
  <2>4. GoodQueue(pcQueue, pc, overtaken, role, peers, status')
    BY <1>1, <2>1, QueueMarked DEF IInv, TasksInv
  <2>5. Good(e, pc, overtaken, role, peers, status')
    BY <1>1, <2>2, <2>3 DEF Good
  <2>6. \A i \in 1..Len(pcQueue) : pcQueue[i].kind = "prepare" => pcQueue[i].n < e.n
    BY <1>1, <2>2 DEF IInv, TasksInv, GoodQueue, Good
  <2>7. GoodQueue(pcQueue', pc, overtaken, role, peers, status')
    BY <1>1, <2>4, <2>5, <2>6, QueueAppend
  <2> QED
    BY <2>7 DEF TasksInv, Begin, Arrives, contextVars
<1>4. OpsInv'
  BY DEF IInv, OpsInv, Begin, Arrives, contextVars, candidateVars, stepVars, historyVars, Marks
<1>5. StepsInv'
  BY <1>1, <1>8 DEF IInv, StepsInv, Begin, Arrives, contextVars, candidateVars, stepVars, historyVars, Marks
<1>6. ContextInv' /\ NothingSurvives'
  BY DEF IInv, ContextInv, NothingSurvives, Begin, Arrives, contextVars, candidateVars, stepVars, historyVars, Marks
<1>7. CrashOnlyOvertaken' /\ AddedWhenDescribed' /\ SdpCurrent'
  BY DEF IInv, CrashOnlyOvertaken, AddedWhenDescribed, SdpCurrent, Begin, Arrives, contextVars, candidateVars, stepVars, historyVars, Marks
<1> QED
  BY <1>2, <1>3, <1>4, <1>5, <1>6, <1>7 DEF IInv

\* Once a PeerConnection was opened, what was queued is still of it, or of an
\* overtaken one.
LEMMA QueueOpened ==
    ASSUME NEW q \in Seq(PcTasks), q # <<>>, NEW p, NEW over, NEW r, NEW st,
           NEW top \in Nat, NEW p2, NEW top2 \in Nat,
           GoodQueue(q, p, over, r, top, st), Head(q).kind = "prepare",
           p = 0 \/ p2 = p, top2 <= Head(q).n
    PROVE  GoodQueue(Tail(q), p2, over, r, top2, st)
<1> DEFINE n == Head(q).n
<1>1. /\ n \in Negotiations /\ n \in Nat
      /\ Good(Head(q), p, over, r, top, st) /\ GoodQueue(Tail(q), p, over, r, top, st)
  BY QueueTail, TailAt, TaskTypes, Bounds DEF Negotiations
<1>2. \A m \in Negotiations : st[m] = "none" => m > n
  BY <1>1 DEF Good
<1>3. \A i \in 1..Len(Tail(q)) :
        /\ Tail(q)[i] \in PcTasks
        /\ Tail(q)[i].kind = "prepare" => n < Tail(q)[i].n /\ Tail(q)[i].n \in Nat
  <2> TAKE i \in 1..Len(Tail(q))
  <2>1. /\ 1 \in 1..Len(q) /\ i + 1 \in 1..Len(q) /\ 1 < i + 1
        /\ Tail(q)[i] = q[i + 1] /\ Head(q) = q[1] /\ q[i + 1] \in PcTasks
    BY TailAt
  <2>2. Tail(q)[i].kind = "prepare" => n < Tail(q)[i].n
    BY <2>1 DEF GoodQueue, Orderly
  <2> QED
    BY <2>1, <2>2, TaskTypes, Bounds DEF Negotiations
<1>4. \A i \in 1..Len(Tail(q)) : Good(Tail(q)[i], p2, over, r, top2, st)
  <2> TAKE i \in 1..Len(Tail(q))
  <2>1. Good(Tail(q)[i], p, over, r, top, st)
    BY <1>1 DEF GoodQueue
  <2>2. Tail(q)[i].kind = "prepare" => Tail(q)[i].n > top2
    BY <1>1, <1>3
  <2> QED
    BY <2>1, <2>2 DEF Good
<1>5. \A m \in Negotiations : st[m] = "none" => m > top2
  BY <1>1, <1>2, Bounds DEF Negotiations
<1> QED
  BY <1>1, <1>4, <1>5 DEF GoodQueue

\* An operation is never of a PeerConnection that is not there.
LEMMA OpsKept ==
    ASSUME NEW ops \in Seq(Operations), NEW p, NEW over, NEW p2, NEW over2,
           GoodOps(ops, p, over), over \subseteq over2, p \in {0, p2} \cup over2
    PROVE  GoodOps(ops, p2, over2)
<1>1. \A i \in 1..Len(ops) : ops[i] \in Operations
  OBVIOUS
<1>2. \A i \in 1..Len(ops) : ops[i].peer # 0
  BY <1>1, Bounds DEF Operations, Peers
<1> QED
  BY <1>2 DEF GoodOps

LEMMA CachedAre ==
    ASSUME NEW s \in Seq(Candidates)
    PROVE  {s[i] : i \in 1..Len(s)} \subseteq Candidates
OBVIOUS

LEMMA PrepareKept == ASSUME IInv, Prepare PROVE IInv'
<1> DEFINE n == Head(pcQueue).n
<1>1. /\ PcTake("prepare") /\ pcQueue # <<>> /\ looked = "none" /\ ~clearing /\ crashed = 0
      /\ pcQueue \in Seq(PcTasks) /\ Head(pcQueue) \in PcTasks /\ Head(pcQueue).kind = "prepare"
      /\ Tail(pcQueue) \in Seq(PcTasks) /\ n \in Negotiations
      /\ Good(Head(pcQueue), pc, overtaken, role, peers, status)
  BY Taken, TaskTypes DEF Prepare
<1>8. /\ peers \in Nat /\ peers' \in 0..MaxNegotiations /\ peers' <= n
      /\ pc' \in Peers /\ pc' # 0 /\ (pc = 0 \/ pc' = pc)
  <2>1. n > peers /\ n \in 1..MaxNegotiations
    BY <1>1 DEF Good, Negotiations
  <2>2. pc \in 0..MaxNegotiations /\ peers \in 0..MaxNegotiations
    BY DEF IInv, TypeOK
  <2>3. IF pc = 0 THEN pc' = peers + 1 /\ peers' = peers + 1 ELSE pc' = pc /\ peers' = peers
    BY DEF Prepare, OpenPeer
  <2> QED
    BY <2>1, <2>2, <2>3, Bounds DEF Peers
<1>9. /\ Task("localTrack", 0, pc') \in PcTasks
      /\ Task("create", n, pc') \in Operations /\ Task("remote", n, pc') \in Operations
      /\ Task("localTrack", 0, pc').kind = "localTrack" /\ Task("localTrack", 0, pc').peer = pc'
      /\ Task("create", n, pc').peer = pc' /\ Task("remote", n, pc').peer = pc'
  BY <1>1, <1>8, TasksAre DEF Task
<1>10. sig \in Seq(Operations)
  BY DEF IInv, TypeOK
<1>11. sig' \in Seq(Operations) /\ sig' # <<>>
  <2>1. sig' = Append(sig, Task("create", n, pc')) \/ sig' = Append(sig, Task("remote", n, pc'))
    BY DEF Prepare
  <2> QED
    BY <1>9, <1>10, <2>1, AppendAt
<1>12. pcQueue' \in Seq(PcTasks)
  BY <1>1, <1>9, AppendAt DEF Prepare
<1> HIDE DEF n
<1>2. TypeOK'
  <2>1. peerOf' \in [Negotiations -> 0..MaxNegotiations]
    <3>1. peerOf' = [peerOf EXCEPT ![n] = pc'] /\ peerOf \in [Negotiations -> 0..MaxNegotiations]
      BY DEF IInv, TypeOK, Prepare, n
    <3>2. pc' \in 0..MaxNegotiations
      BY <1>8, Bounds DEF Peers
    <3> QED
      BY <3>1, <3>2
  <2>2. localStream' \in BOOLEAN
    BY DEF IInv, TypeOK, Prepare, Capture
  <2>3. pc' \in 0..MaxNegotiations
    BY <1>8, Bounds DEF Peers
  <2> QED
    BY <1>1, <1>8, <1>11, <1>12, <2>1, <2>2, <2>3 DEF IInv, TypeOK, Prepare, contextVars, candidateVars, stepVars, historyVars, PcTake
<1>3. TasksInv'
  <2>1. GoodQueue(Tail(pcQueue), pc', overtaken, role, peers', status)
    BY <1>1, <1>8, QueueOpened DEF IInv, TasksInv, n
  <2>2. CASE role = "publisher"
    <3> DEFINE e == Task("localTrack", 0, pc')
    <3>1. Good(e, pc', overtaken, role, peers', status) /\ e \in PcTasks /\ e.kind # "prepare"
      BY <1>9, <2>2 DEF Good
    <3> HIDE DEF e
    <3>2. GoodQueue(Append(Tail(pcQueue), e), pc', overtaken, role, peers', status)
      BY <1>1, <2>1, <3>1, QueueAppend
    <3>3. pcQueue' = Append(Tail(pcQueue), e)
      BY <2>2 DEF Prepare, e
    <3> QED
      BY <1>1, <3>2, <3>3 DEF TasksInv, Prepare, PcTake
  <2>3. CASE role # "publisher"
    BY <1>1, <2>1, <2>3 DEF TasksInv, Prepare, PcTake
  <2> QED
    BY <2>2, <2>3
<1>4. OpsInv'
  <2>1. GoodOps(sig, pc', overtaken)
    BY <1>8, <1>10, OpsKept DEF IInv, OpsInv
  <2>2. GoodOps(sig', pc', overtaken)
    <3>1. sig' = Append(sig, Task("create", n, pc')) \/ sig' = Append(sig, Task("remote", n, pc'))
      BY DEF Prepare, n
    <3>2. /\ GoodOps(Append(sig, Task("create", n, pc')), pc', overtaken)
          /\ GoodOps(Append(sig, Task("remote", n, pc')), pc', overtaken)
      BY <1>9, <1>10, <2>1, OpsAppend
    <3> QED
      BY <3>1, <3>2
  <2> QED
    BY <2>2 DEF OpsInv, Prepare
<1>5. StepsInv'
  BY <1>1, <1>11 DEF IInv, StepsInv, Prepare, contextVars, candidateVars, stepVars, historyVars, PcTake
<1>6. ContextInv' /\ NothingSurvives'
  BY <1>1, <1>8 DEF IInv, ContextInv, NothingSurvives, Prepare, Capture, contextVars, candidateVars, stepVars, historyVars, PcTake
<1>7. CrashOnlyOvertaken' /\ AddedWhenDescribed' /\ SdpCurrent'
  BY <1>1 DEF IInv, CrashOnlyOvertaken, AddedWhenDescribed, SdpCurrent, Prepare, contextVars, candidateVars, stepVars, historyVars, PcTake
<1> QED
  BY <1>2, <1>3, <1>4, <1>5, <1>6, <1>7 DEF IInv

\* plugin-client.
LEMMA LocalTrackKept == ASSUME IInv, LocalTrack PROVE IInv'
<1>1. /\ PcTake("localTrack") /\ pcQueue # <<>> /\ looked = "none" /\ ~clearing /\ crashed = 0
      /\ pcQueue \in Seq(PcTasks) /\ Head(pcQueue) \in PcTasks /\ Head(pcQueue).kind = "localTrack"
      /\ Tail(pcQueue) \in Seq(PcTasks)
      /\ Good(Head(pcQueue), pc, overtaken, role, peers, status)
      /\ GoodQueue(Tail(pcQueue), pc, overtaken, role, peers, status)
      /\ Head(pcQueue).peer \in Peers
  BY Taken, TaskTypes DEF LocalTrack
<1>8. Head(pcQueue).peer # 0 /\ Head(pcQueue).peer \in 0..MaxNegotiations
  BY <1>1, Bounds DEF Peers
<1>9. ~localStream => Head(pcQueue).peer \in overtaken
  BY <1>1, <1>8 DEF Good, IInv, ContextInv
<1>2. TypeOK'
  BY <1>1, <1>8, Bounds DEF IInv, TypeOK, LocalTrack, NullUnless, contextVars, candidateVars, stepVars, historyVars, PcTake
<1>3. TasksInv'
  BY <1>1 DEF TasksInv, LocalTrack, contextVars, candidateVars, stepVars, historyVars, PcTake
<1>4. OpsInv'
  BY <1>1 DEF IInv, OpsInv, LocalTrack, contextVars, candidateVars, stepVars, historyVars, PcTake
<1>5. StepsInv'
  BY <1>1 DEF IInv, StepsInv, LocalTrack, contextVars, candidateVars, stepVars, historyVars, PcTake
<1>6. ContextInv' /\ NothingSurvives'
  BY <1>1 DEF IInv, ContextInv, NothingSurvives, LocalTrack, contextVars, candidateVars, stepVars, historyVars, PcTake
<1>7. CrashOnlyOvertaken' /\ AddedWhenDescribed' /\ SdpCurrent'
  BY <1>1, <1>9 DEF IInv, CrashOnlyOvertaken, AddedWhenDescribed, SdpCurrent, LocalTrack, NullUnless, contextVars, candidateVars, stepVars, historyVars, PcTake
<1> QED
  BY <1>2, <1>3, <1>4, <1>5, <1>6, <1>7 DEF IInv

LEMMA HandleRemoteJsepKept == ASSUME IInv, HandleRemoteJsep PROVE IInv'
<1>1. /\ PcTake("jsep") /\ pcQueue # <<>> /\ looked = "none" /\ ~clearing /\ crashed = 0
      /\ pcQueue \in Seq(PcTasks) /\ Head(pcQueue) \in PcTasks /\ Head(pcQueue).kind = "jsep"
      /\ Tail(pcQueue) \in Seq(PcTasks)
      /\ Good(Head(pcQueue), pc, overtaken, role, peers, status)
      /\ GoodQueue(Tail(pcQueue), pc, overtaken, role, peers, status)
      /\ Head(pcQueue).n \in Negotiations
  BY Taken, TaskTypes DEF HandleRemoteJsep
<1> DEFINE e == Task("remote", Head(pcQueue).n, pc)
<1>8. /\ sig \in Seq(Operations) /\ sig' \in Seq(Operations)
      /\ sig # <<>> => sig' # <<>>
      /\ GoodOps(sig', pc, overtaken)
  <2>1. sig \in Seq(Operations) /\ GoodOps(sig, pc, overtaken)
    BY DEF IInv, TypeOK, OpsInv
  <2>2. CASE pc = 0
    BY <2>1, <2>2 DEF HandleRemoteJsep
  <2>3. CASE pc # 0
    <3>1. e \in Operations /\ e.peer = pc /\ sig' = Append(sig, e)
      <4>1. pc \in Peers
        BY <2>3, Bounds DEF IInv, TypeOK, Peers
      <4>2. sig' = Append(sig, e)
        BY <2>3 DEF HandleRemoteJsep
      <4> QED
        BY <1>1, <4>1, <4>2, TasksAre DEF Task
    <3> HIDE DEF e
    <3> QED
      BY <2>1, <3>1, OpsAppend, AppendAt
  <2> QED
    BY <2>2, <2>3
<1>2. TypeOK'
  BY <1>1, <1>8 DEF IInv, TypeOK, HandleRemoteJsep, Ended, Marks, contextVars, candidateVars, stepVars, historyVars, PcTake
<1>3. TasksInv'
  <2>1. \A m \in Negotiations : status'[m] = "none" => status[m] = "none"
    BY DEF IInv, TypeOK, HandleRemoteJsep, Marks
  <2>2. GoodQueue(Tail(pcQueue), pc, overtaken, role, peers, status')
    BY <1>1, <2>1, QueueMarked
  <2> QED
    BY <1>1, <2>2 DEF TasksInv, HandleRemoteJsep, contextVars, candidateVars, stepVars, historyVars, PcTake
<1>4. OpsInv'
  BY <1>1, <1>8 DEF OpsInv, HandleRemoteJsep, contextVars, candidateVars, stepVars, historyVars, PcTake
<1>5. StepsInv'
  BY <1>1, <1>8 DEF IInv, StepsInv, HandleRemoteJsep, contextVars, candidateVars, stepVars, historyVars, PcTake
<1>6. ContextInv' /\ NothingSurvives'
  BY <1>1 DEF IInv, ContextInv, NothingSurvives, HandleRemoteJsep, contextVars, candidateVars, stepVars, historyVars, PcTake
<1>7. CrashOnlyOvertaken' /\ AddedWhenDescribed' /\ SdpCurrent'
  BY <1>1 DEF IInv, CrashOnlyOvertaken, AddedWhenDescribed, SdpCurrent, HandleRemoteJsep, contextVars, candidateVars, stepVars, historyVars, PcTake
<1> QED
  BY <1>2, <1>3, <1>4, <1>5, <1>6, <1>7 DEF IInv

LEMMA CreateAnswerKept == ASSUME IInv, CreateAnswer PROVE IInv'
<1>1. /\ PcTake("answer") /\ pcQueue # <<>> /\ looked = "none" /\ ~clearing /\ crashed = 0
      /\ pcQueue \in Seq(PcTasks) /\ Head(pcQueue) \in PcTasks /\ Head(pcQueue).kind = "answer"
      /\ Tail(pcQueue) \in Seq(PcTasks)
      /\ Good(Head(pcQueue), pc, overtaken, role, peers, status)
      /\ GoodQueue(Tail(pcQueue), pc, overtaken, role, peers, status)
      /\ Head(pcQueue).n \in Negotiations /\ Head(pcQueue).peer \in Peers
  BY Taken, TaskTypes DEF CreateAnswer
<1> DEFINE e == Task("create", Head(pcQueue).n, pc)
<1>8. /\ sig \in Seq(Operations) /\ sig' \in Seq(Operations)
      /\ sig # <<>> => sig' # <<>>
      /\ GoodOps(sig', pc, overtaken)
  <2>1. sig \in Seq(Operations) /\ GoodOps(sig, pc, overtaken)
    BY DEF IInv, TypeOK, OpsInv
  <2>2. CASE pc = 0
    BY <2>1, <2>2 DEF CreateAnswer
  <2>3. CASE pc # 0
    <3>1. e \in Operations /\ e.peer = pc /\ sig' = Append(sig, e)
      <4>1. pc \in Peers
        BY <2>3, Bounds DEF IInv, TypeOK, Peers
      <4>2. sig' = Append(sig, e)
        BY <2>3 DEF CreateAnswer
      <4> QED
        BY <1>1, <4>1, <4>2, TasksAre DEF Task
    <3> HIDE DEF e
    <3> QED
      BY <2>1, <3>1, OpsAppend, AppendAt
  <2> QED
    BY <2>2, <2>3
<1>9. Head(pcQueue).peer \in 0..MaxNegotiations /\ (pc = 0 => Head(pcQueue).peer \in overtaken)
  BY <1>1, Bounds DEF Good, Peers
<1>2. TypeOK'
  BY <1>1, <1>8, <1>9, Bounds DEF IInv, TypeOK, CreateAnswer, NullUnless, contextVars, candidateVars, stepVars, historyVars, PcTake
<1>3. TasksInv'
  BY <1>1 DEF TasksInv, CreateAnswer, contextVars, candidateVars, stepVars, historyVars, PcTake
<1>4. OpsInv'
  BY <1>1, <1>8 DEF OpsInv, CreateAnswer, contextVars, candidateVars, stepVars, historyVars, PcTake
<1>5. StepsInv'
  BY <1>1, <1>8 DEF IInv, StepsInv, CreateAnswer, contextVars, candidateVars, stepVars, historyVars, PcTake
<1>6. ContextInv' /\ NothingSurvives'
  BY <1>1 DEF IInv, ContextInv, NothingSurvives, CreateAnswer, contextVars, candidateVars, stepVars, historyVars, PcTake
<1>7. CrashOnlyOvertaken' /\ AddedWhenDescribed' /\ SdpCurrent'
  BY <1>1, <1>9 DEF IInv, CrashOnlyOvertaken, AddedWhenDescribed, SdpCurrent, CreateAnswer, NullUnless, contextVars, candidateVars, stepVars, historyVars, PcTake
<1> QED
  BY <1>2, <1>3, <1>4, <1>5, <1>6, <1>7 DEF IInv

LEMMA OfferAnswerKept == ASSUME IInv, OfferAnswer PROVE IInv'
<1>1. /\ PcTake("given") /\ pcQueue # <<>> /\ looked = "none" /\ ~clearing /\ crashed = 0
      /\ pcQueue \in Seq(PcTasks) /\ Head(pcQueue) \in PcTasks /\ Head(pcQueue).kind = "given"
      /\ Tail(pcQueue) \in Seq(PcTasks)
      /\ Good(Head(pcQueue), pc, overtaken, role, peers, status)
      /\ GoodQueue(Tail(pcQueue), pc, overtaken, role, peers, status)
      /\ Head(pcQueue).n \in Negotiations /\ Head(pcQueue).peer \in Peers
  BY Taken, TaskTypes DEF OfferAnswer
<1>8. Head(pcQueue).peer = pc \/ Head(pcQueue).peer \in overtaken
  BY <1>1, Bounds DEF Good, Peers
<1>2. TypeOK'
  <2>1. sent' \subseteq [n : Negotiations, peer : Peers, pc : 0..MaxNegotiations, again : BOOLEAN]
    <3> DEFINE again == \E s \in sent : s.n = Head(pcQueue).n
               one == [n |-> Head(pcQueue).n, peer |-> Head(pcQueue).peer, pc |-> pc, again |-> again]
    <3>1. again \in BOOLEAN
      OBVIOUS
    <3>2. sent' = sent \cup {one}
      BY DEF OfferAnswer
    <3> HIDE DEF again
    <3>3. one \in [n : Negotiations, peer : Peers, pc : 0..MaxNegotiations, again : BOOLEAN]
      BY <1>1, <3>1 DEF IInv, TypeOK
    <3> QED
      BY <3>2, <3>3 DEF IInv, TypeOK
  <2>2. status' \in [Negotiations -> {"none", "begun", "given", "answered"} \cup Ended]
    BY <1>1 DEF IInv, TypeOK, OfferAnswer, Marks, Ended
  <2> QED
    BY <1>1, <2>1, <2>2 DEF IInv, TypeOK, OfferAnswer, contextVars, candidateVars, stepVars, historyVars, PcTake
<1>3. TasksInv'
  <2>1. \A m \in Negotiations : status'[m] = "none" => status[m] = "none"
    BY DEF IInv, TypeOK, OfferAnswer, Marks
  <2>2. GoodQueue(Tail(pcQueue), pc, overtaken, role, peers, status')
    BY <1>1, <2>1, QueueMarked
  <2> QED
    BY <1>1, <2>2 DEF TasksInv, OfferAnswer, contextVars, candidateVars, stepVars, historyVars, PcTake
<1>4. OpsInv'
  BY <1>1 DEF IInv, OpsInv, OfferAnswer, contextVars, candidateVars, stepVars, historyVars, PcTake
<1>5. StepsInv'
  BY <1>1 DEF IInv, StepsInv, OfferAnswer, contextVars, candidateVars, stepVars, historyVars, PcTake
<1>6. ContextInv' /\ NothingSurvives'
  BY <1>1 DEF IInv, ContextInv, NothingSurvives, OfferAnswer, contextVars, candidateVars, stepVars, historyVars, PcTake
<1>7. CrashOnlyOvertaken' /\ AddedWhenDescribed' /\ SdpCurrent'
  BY <1>1, <1>8 DEF IInv, CrashOnlyOvertaken, AddedWhenDescribed, SdpCurrent, OfferAnswer, contextVars, candidateVars, stepVars, historyVars, PcTake
<1> QED
  BY <1>2, <1>3, <1>4, <1>5, <1>6, <1>7 DEF IInv

LEMMA TrickleLookKept == ASSUME IInv, TrickleLook PROVE IInv'
<1>1. PcTake("trickle") /\ pcQueue # <<>> /\ Head(pcQueue).kind = "trickle" /\ ~clearing
  BY DEF TrickleLook, PcTake, PcIdle
<1>2. TypeOK'
  BY <1>1 DEF IInv, TypeOK, TrickleLook, contextVars, candidateVars, stepVars, historyVars, PcTake
<1>3. TasksInv'
  BY <1>1 DEF IInv, TasksInv, TrickleLook, contextVars, candidateVars, stepVars, historyVars, PcTake
<1>4. OpsInv'
  BY <1>1 DEF IInv, OpsInv, TrickleLook, contextVars, candidateVars, stepVars, historyVars, PcTake
<1>5. StepsInv'
  BY <1>1 DEF IInv, StepsInv, TrickleLook, Ready, contextVars, candidateVars, stepVars, historyVars, PcTake
<1>6. ContextInv' /\ NothingSurvives'
  BY <1>1 DEF IInv, ContextInv, NothingSurvives, TrickleLook, contextVars, candidateVars, stepVars, historyVars, PcTake
<1>7. CrashOnlyOvertaken' /\ AddedWhenDescribed' /\ SdpCurrent'
  BY <1>1 DEF IInv, CrashOnlyOvertaken, AddedWhenDescribed, SdpCurrent, TrickleLook, contextVars, candidateVars, stepVars, historyVars, PcTake
<1> QED
  BY <1>2, <1>3, <1>4, <1>5, <1>6, <1>7 DEF IInv

LEMMA TrickleAddKept == ASSUME IInv, TrickleAdd PROVE IInv'
<1>1. /\ crashed = 0 /\ looked = "add" /\ ~clearing /\ pcQueue \in Seq(PcTasks) /\ pcQueue # <<>>
      /\ Tail(pcQueue) \in Seq(PcTasks) /\ Head(pcQueue).n \in Candidates
      /\ GoodQueue(Tail(pcQueue), pc, overtaken, role, peers, status)
  <2>1. looked = "add" /\ crashed = 0
    BY DEF TrickleAdd
  <2>2. pcQueue \in Seq(PcTasks) /\ pcQueue # <<>> /\ Head(pcQueue).kind = "trickle" /\ ~clearing
    BY <2>1 DEF IInv, TypeOK, StepsInv
  <2>3. Head(pcQueue) \in PcTasks /\ Tail(pcQueue) \in Seq(PcTasks)
    BY <2>2, TailAt
  <2>4. GoodQueue(Tail(pcQueue), pc, overtaken, role, peers, status)
    BY <2>2, QueueTail DEF IInv, TasksInv
  <2> QED
    BY <2>1, <2>2, <2>3, <2>4, TaskTypes
<1>8. pc \in 0..MaxNegotiations /\ remoteSdp \in 0..MaxNegotiations
  BY DEF IInv, TypeOK
<1>9. pc \in described \/ remoteSdp \in overtaken
  BY <1>1 DEF IInv, StepsInv, ContextInv, NothingSurvives
<1>2. TypeOK'
  <2> DEFINE ok == pc \in described
             one == [c |-> Head(pcQueue).n, peer |-> pc, by |-> remoteSdp, ok |-> ok]
  <2>1. ok \in BOOLEAN
    OBVIOUS
  <2>2. added' = added \cup {one}
    BY DEF TrickleAdd
  <2> HIDE DEF ok
  <2>3. one \in [c : Candidates, peer : 0..MaxNegotiations, by : 0..MaxNegotiations, ok : BOOLEAN]
    BY <1>1, <1>8, <2>1
  <2> HIDE DEF one
  <2> QED
    BY <1>1, <2>2, <2>3 DEF IInv, TypeOK, TrickleAdd, contextVars, candidateVars, stepVars, historyVars
<1>3. TasksInv'
  BY <1>1 DEF TasksInv, TrickleAdd, contextVars, candidateVars, stepVars, historyVars
<1>4. OpsInv'
  BY DEF IInv, OpsInv, TrickleAdd, contextVars, candidateVars, stepVars, historyVars
<1>5. StepsInv'
  BY <1>1 DEF IInv, StepsInv, TrickleAdd, contextVars, candidateVars, stepVars, historyVars
<1>6. ContextInv' /\ NothingSurvives'
  BY DEF IInv, ContextInv, NothingSurvives, TrickleAdd, contextVars, candidateVars, stepVars, historyVars
<1>7. CrashOnlyOvertaken' /\ AddedWhenDescribed' /\ SdpCurrent'
  <2> DEFINE ok == pc \in described
             one == [c |-> Head(pcQueue).n, peer |-> pc, by |-> remoteSdp, ok |-> ok]
  <2>0. added' = added \cup {one} /\ overtaken' = overtaken
    BY DEF TrickleAdd, historyVars
  <2>9. ok \/ one.by \in overtaken
    BY <1>9
  <2>8. one.ok = ok
    OBVIOUS
  <2> HIDE DEF one
  <2>1. AddedWhenDescribed'
    BY <2>0, <2>8, <2>9 DEF IInv, AddedWhenDescribed
  <2> QED
    BY <2>1 DEF IInv, CrashOnlyOvertaken, SdpCurrent, TrickleAdd, contextVars, candidateVars, stepVars, historyVars
<1> QED
  BY <1>2, <1>3, <1>4, <1>5, <1>6, <1>7 DEF IInv

LEMMA TrickleCacheKept == ASSUME IInv, TrickleCache PROVE IInv'
<1>1. /\ crashed = 0 /\ looked = "cache" /\ ~clearing /\ pcQueue \in Seq(PcTasks) /\ pcQueue # <<>>
      /\ Tail(pcQueue) \in Seq(PcTasks) /\ Head(pcQueue).n \in Candidates
      /\ GoodQueue(Tail(pcQueue), pc, overtaken, role, peers, status)
  <2>1. looked = "cache" /\ crashed = 0
    BY DEF TrickleCache
  <2>2. pcQueue \in Seq(PcTasks) /\ pcQueue # <<>> /\ Head(pcQueue).kind = "trickle" /\ ~clearing
    BY <2>1 DEF IInv, TypeOK, StepsInv
  <2>3. Head(pcQueue) \in PcTasks /\ Tail(pcQueue) \in Seq(PcTasks)
    BY <2>2, TailAt
  <2>4. GoodQueue(Tail(pcQueue), pc, overtaken, role, peers, status)
    BY <2>2, QueueTail DEF IInv, TasksInv
  <2> QED
    BY <2>1, <2>2, <2>3, <2>4, TaskTypes
<1>8. candidates' \in Seq(Candidates)
  BY <1>1, AppendAt DEF IInv, TypeOK, TrickleCache
<1>2. TypeOK'
  BY <1>1, <1>8 DEF IInv, TypeOK, TrickleCache, contextVars, candidateVars, stepVars, historyVars
<1>3. TasksInv'
  BY <1>1 DEF TasksInv, TrickleCache, contextVars, candidateVars, stepVars, historyVars
<1>4. OpsInv'
  BY DEF IInv, OpsInv, TrickleCache, contextVars, candidateVars, stepVars, historyVars
<1>5. StepsInv'
  BY <1>1 DEF IInv, StepsInv, TrickleCache, contextVars, candidateVars, stepVars, historyVars
<1>6. ContextInv' /\ NothingSurvives'
  BY DEF IInv, ContextInv, NothingSurvives, TrickleCache, contextVars, candidateVars, stepVars, historyVars
<1>7. CrashOnlyOvertaken' /\ AddedWhenDescribed' /\ SdpCurrent'
  BY DEF IInv, CrashOnlyOvertaken, AddedWhenDescribed, SdpCurrent, TrickleCache, contextVars, candidateVars, stepVars, historyVars
<1> QED
  BY <1>2, <1>3, <1>4, <1>5, <1>6, <1>7 DEF IInv

LEMMA CleanupPeerKept == ASSUME IInv, CleanupPeer PROVE IInv'
<1>1. /\ crashed = 0 /\ looked = "none" /\ ~clearing /\ pcQueue \in Seq(PcTasks) /\ pcQueue # <<>>
      /\ sig \in Seq(Operations) /\ pc \in 0..MaxNegotiations /\ overtaken \subseteq Peers
      /\ pc' = 0
  BY DEF IInv, TypeOK, CleanupPeer, PcIdle
<1>8. /\ overtaken \subseteq overtaken' /\ overtaken' \subseteq Peers
      /\ pc # 0 /\ UnderWay(pc) => pc \in overtaken'
  BY <1>1, Bounds DEF CleanupPeer, Peers
<1>9. \A i \in 1..Len(pcQueue) :
        pcQueue[i].peer \in {0, pc} \cup overtaken => pcQueue[i].peer \in {0, 0} \cup overtaken'
  BY <1>8 DEF UnderWay
<1>10. \A i \in 1..Len(sig) : sig[i].peer \in {pc} \cup overtaken => sig[i].peer \in overtaken'
  <2> SUFFICES ASSUME NEW i \in 1..Len(sig), sig[i].peer = pc PROVE pc \in overtaken'
    BY <1>8
  <2>1. sig[i] \in Operations
    BY <1>1
  <2>2. pc # 0
    BY <2>1, Bounds DEF Operations, Peers
  <2> QED
    BY <1>8, <2>2 DEF UnderWay
<1>2. TypeOK'
  BY <1>1, <1>8, Bounds DEF IInv, TypeOK, CleanupPeer, contextVars, candidateVars, stepVars, historyVars
<1>3. TasksInv'
  <2>1. GoodQueue(pcQueue, 0, overtaken', role, peers, status)
    BY <1>1, <1>9, QueueKept DEF IInv, TasksInv
  <2> QED
    BY <1>1, <2>1 DEF TasksInv, CleanupPeer, contextVars, candidateVars, stepVars, historyVars
<1>4. OpsInv'
  BY <1>10 DEF IInv, OpsInv, GoodOps, CleanupPeer
<1>5. StepsInv'
  BY <1>1 DEF IInv, StepsInv, CleanupPeer
<1>6. ContextInv' /\ NothingSurvives'
  BY <1>1 DEF IInv, ContextInv, NothingSurvives, CleanupPeer, contextVars, candidateVars, stepVars, historyVars
<1>7. CrashOnlyOvertaken' /\ AddedWhenDescribed' /\ SdpCurrent'
  BY <1>8 DEF IInv, CrashOnlyOvertaken, AddedWhenDescribed, SdpCurrent, CleanupPeer, contextVars, candidateVars, stepVars, historyVars
<1> QED
  BY <1>2, <1>3, <1>4, <1>5, <1>6, <1>7 DEF IInv

LEMMA CleanupRestKept == ASSUME IInv, CleanupRest PROVE IInv'
<1>1. /\ clearing /\ looked = "none" /\ pcQueue \in Seq(PcTasks) /\ pcQueue # <<>>
      /\ Tail(pcQueue) \in Seq(PcTasks) /\ Cached \subseteq Candidates
      /\ GoodQueue(Tail(pcQueue), pc, overtaken, role, peers, status)
  <2>1. clearing /\ pcQueue # <<>> /\ pcQueue \in Seq(PcTasks)
    BY DEF IInv, TypeOK, StepsInv, CleanupRest
  <2>2. GoodQueue(Tail(pcQueue), pc, overtaken, role, peers, status) /\ Tail(pcQueue) \in Seq(PcTasks)
    BY <2>1, QueueTail, TailAt DEF IInv, TasksInv
  <2>3. looked = "none"
    BY <2>1 DEF IInv, TypeOK, StepsInv
  <2>4. Cached \subseteq Candidates
    BY CachedAre DEF IInv, TypeOK, Cached
  <2> QED
    BY <2>1, <2>2, <2>3, <2>4
<1>2. TypeOK'
  <2>1. {dropped', raced', lost'} \subseteq SUBSET Candidates
    BY <1>1 DEF IInv, TypeOK, CleanupRest
  <2>2. candidates' \in Seq(Candidates)
    BY DEF CleanupRest, DropCandidates
  <2>3. {pc', peers', localSdp', remoteSdp', crashed'} \subseteq 0..MaxNegotiations
    BY Bounds DEF IInv, TypeOK, CleanupRest, Forget, contextVars, candidateVars, stepVars, historyVars
  <2> QED
    BY <1>1, <2>1, <2>2, <2>3 DEF IInv, TypeOK, CleanupRest, Forget, contextVars, candidateVars, stepVars, historyVars
<1>3. TasksInv'
  BY <1>1 DEF TasksInv, CleanupRest, contextVars, candidateVars, stepVars, historyVars
<1>4. OpsInv'
  BY DEF IInv, OpsInv, CleanupRest, contextVars, candidateVars, stepVars, historyVars
<1>5. StepsInv'
  BY <1>1 DEF IInv, StepsInv, CleanupRest, contextVars, candidateVars, stepVars, historyVars
<1>6. ContextInv' /\ NothingSurvives'
  BY DEF IInv, ContextInv, NothingSurvives, CleanupRest, Forget, contextVars, candidateVars, stepVars, historyVars
<1>7. CrashOnlyOvertaken' /\ AddedWhenDescribed' /\ SdpCurrent'
  BY DEF IInv, CrashOnlyOvertaken, AddedWhenDescribed, SdpCurrent, CleanupRest, contextVars, candidateVars, stepVars, historyVars
<1> QED
  BY <1>2, <1>3, <1>4, <1>5, <1>6, <1>7 DEF IInv

\* The signaling thread of WebRTC.
LEMMA SigCreatedKept == ASSUME IInv, SigCreated PROVE IInv'
<1>1. /\ SigTake("create") /\ sig # <<>> /\ sig \in Seq(Operations) /\ Head(sig) \in Operations
      /\ Head(sig).n \in Negotiations /\ Head(sig).peer \in Peers
      /\ Head(sig).peer \in {pc} \cup overtaken
      /\ Tail(sig) \in Seq(Operations) /\ GoodOps(Tail(sig), pc, overtaken)
      /\ flushing = 0 /\ crashed = 0
  BY SigTaken DEF SigCreated
<1>8. Head(sig).peer \in 0..MaxNegotiations /\ Head(sig).peer # 0
  BY <1>1, Bounds DEF Peers
<1> DEFINE e == Task("given", Head(sig).n, Head(sig).peer)
<1>9. /\ pcQueue \in Seq(PcTasks) /\ e \in PcTasks
      /\ e.peer = Head(sig).peer /\ e.kind \in {"given", "answer"}
      /\ Append(pcQueue, e) \in Seq(PcTasks) /\ Append(pcQueue, e) # <<>>
      /\ pcQueue # <<>> => Head(Append(pcQueue, e)) = Head(pcQueue)
  <2>1. pcQueue \in Seq(PcTasks) /\ e \in PcTasks
    BY <1>1, TasksAre DEF IInv, TypeOK
  <2>2. e.peer = Head(sig).peer /\ e.kind \in {"given", "answer"}
    BY DEF Task
  <2> HIDE DEF e
  <2> QED
    BY <2>1, <2>2, AppendAt, AppendHead
<1>10. pcQueue' = Append(pcQueue, e) \/ pcQueue' = pcQueue
  BY DEF SigCreated
<1> HIDE DEF e
<1>11. /\ pcQueue' \in Seq(PcTasks)
       /\ pcQueue # <<>> => pcQueue' # <<>> /\ Head(pcQueue') = Head(pcQueue)
  BY <1>9, <1>10
<1>12. GoodQueue(pcQueue', pc, overtaken, role, peers, status)
  <2>1. Good(e, pc, overtaken, role, peers, status)
    BY <1>1, <1>9 DEF Good
  <2>2. GoodQueue(Append(pcQueue, e), pc, overtaken, role, peers, status)
    BY <1>9, <2>1, QueueAppend DEF IInv, TasksInv
  <2> QED
    BY <1>10, <2>2 DEF IInv, TasksInv
<1>2. TypeOK'
  BY <1>1, <1>8, <1>11, Bounds DEF IInv, TypeOK, SigCreated, NullUnless, contextVars, candidateVars, stepVars, historyVars, SigTake
<1>3. TasksInv'
  BY <1>12 DEF TasksInv, SigCreated, contextVars, candidateVars, stepVars, historyVars, SigTake
<1>4. OpsInv'
  BY <1>1 DEF OpsInv, SigCreated, contextVars, candidateVars, stepVars, historyVars, SigTake
<1>5. StepsInv'
  BY <1>1, <1>11 DEF IInv, StepsInv, SigCreated, contextVars, candidateVars, stepVars, historyVars, SigTake
<1>6. ContextInv' /\ NothingSurvives'
  BY <1>1 DEF IInv, ContextInv, NothingSurvives, SigCreated, contextVars, candidateVars, stepVars, historyVars, SigTake
<1>7. CrashOnlyOvertaken' /\ AddedWhenDescribed' /\ SdpCurrent'
  BY <1>1, <1>8 DEF IInv, CrashOnlyOvertaken, AddedWhenDescribed, SdpCurrent, SigCreated, NullUnless, contextVars, candidateVars, stepVars, historyVars, SigTake
<1> QED
  BY <1>2, <1>3, <1>4, <1>5, <1>6, <1>7 DEF IInv

LEMMA SigFailedKept == ASSUME IInv, NEW kind, SigFailed(kind) PROVE IInv'
<1>1. /\ SigTake(kind) /\ sig # <<>> /\ sig \in Seq(Operations) /\ Head(sig) \in Operations
      /\ Head(sig).n \in Negotiations /\ Head(sig).peer \in Peers
      /\ Head(sig).peer \in {pc} \cup overtaken
      /\ Tail(sig) \in Seq(Operations) /\ GoodOps(Tail(sig), pc, overtaken)
      /\ flushing = 0 /\ crashed = 0
  BY SigTaken DEF SigFailed
<1>8. Head(sig).peer \in 0..MaxNegotiations /\ Head(sig).peer # 0
  BY <1>1, Bounds DEF Peers
<1>2. TypeOK'
  BY <1>1 DEF IInv, TypeOK, SigFailed, Marks, Ended, contextVars, candidateVars, stepVars, historyVars, SigTake
<1>3. TasksInv'
  <2>1. \A m \in Negotiations : status'[m] = "none" => status[m] = "none"
    BY <1>1 DEF IInv, TypeOK, SigFailed, Marks
  <2>2. GoodQueue(pcQueue, pc, overtaken, role, peers, status')
    BY <2>1, QueueMarked DEF IInv, TypeOK, TasksInv
  <2> QED
    BY <2>2 DEF TasksInv, SigFailed, contextVars, candidateVars, stepVars, historyVars, SigTake
<1>4. OpsInv'
  BY <1>1 DEF OpsInv, SigFailed, contextVars, candidateVars, stepVars, historyVars, SigTake
<1>5. StepsInv'
  BY <1>1 DEF IInv, StepsInv, SigFailed, contextVars, candidateVars, stepVars, historyVars, SigTake
<1>6. ContextInv' /\ NothingSurvives'
  BY <1>1 DEF IInv, ContextInv, NothingSurvives, SigFailed, contextVars, candidateVars, stepVars, historyVars, SigTake
<1>7. CrashOnlyOvertaken' /\ AddedWhenDescribed' /\ SdpCurrent'
  BY <1>1 DEF IInv, CrashOnlyOvertaken, AddedWhenDescribed, SdpCurrent, SigFailed, contextVars, candidateVars, stepVars, historyVars, SigTake
<1> QED
  BY <1>2, <1>3, <1>4, <1>5, <1>6, <1>7 DEF IInv

LEMMA SigDescribedKept == ASSUME IInv, SigDescribed PROVE IInv'
<1>1. /\ SigTake("remote") /\ sig # <<>> /\ sig \in Seq(Operations) /\ Head(sig) \in Operations
      /\ Head(sig).n \in Negotiations /\ Head(sig).peer \in Peers
      /\ Head(sig).peer \in {pc} \cup overtaken
      /\ Tail(sig) \in Seq(Operations) /\ GoodOps(Tail(sig), pc, overtaken)
      /\ flushing = 0 /\ crashed = 0
  BY SigTaken DEF SigDescribed
<1>8. Head(sig).peer \in 0..MaxNegotiations /\ Head(sig).peer # 0
  BY <1>1, Bounds DEF Peers
<1> DEFINE peer == Head(sig).peer
           new == {[c |-> c, peer |-> pc, by |-> peer, ok |-> pc \in described'] : c \in Cached}
<1>9. /\ remoteSdp' = peer /\ described' = described \cup {peer} /\ added' = added \cup new
      /\ flushing' = Head(sig).n /\ UNCHANGED sig
  BY DEF SigDescribed
<1>10. \A a \in new : a.ok = (pc \in described') /\ a.by = peer
  OBVIOUS
<1>11. new \subseteq [c : Candidates, peer : 0..MaxNegotiations, by : 0..MaxNegotiations, ok : BOOLEAN]
  <2>1. Cached \subseteq Candidates
    BY CachedAre DEF IInv, TypeOK, Cached
  <2>2. pc \in 0..MaxNegotiations /\ peer \in 0..MaxNegotiations
    BY <1>8 DEF IInv, TypeOK
  <2> DEFINE ok == pc \in described'
  <2>3. ok \in BOOLEAN /\ new = {[c |-> c, peer |-> pc, by |-> peer, ok |-> ok] : c \in Cached}
    OBVIOUS
  <2> HIDE DEF ok, new, peer
  <2> QED
    BY <2>1, <2>2, <2>3
<1> HIDE DEF new
<1>2. TypeOK'
  <2>1. added' \subseteq [c : Candidates, peer : 0..MaxNegotiations, by : 0..MaxNegotiations, ok : BOOLEAN]
    BY <1>9, <1>11 DEF IInv, TypeOK
  <2>2. {pc', peers', localSdp', remoteSdp', crashed', flushing'} \subseteq 0..MaxNegotiations
    BY <1>1, <1>8, <1>9, Bounds DEF IInv, TypeOK, SigDescribed, NullUnless, Negotiations, SigTake
  <2>3. described' \subseteq Peers
    BY <1>1, <1>9 DEF IInv, TypeOK
  <2> QED
    BY <2>1, <2>2, <2>3 DEF IInv, TypeOK, SigDescribed, contextVars, candidateVars, stepVars, historyVars, SigTake
<1>3. TasksInv'
  BY DEF IInv, TasksInv, SigDescribed, contextVars, candidateVars, stepVars, historyVars, SigTake
<1>4. OpsInv'
  BY DEF IInv, OpsInv, SigDescribed, contextVars, candidateVars, stepVars, historyVars, SigTake
<1>5. StepsInv'
  BY <1>1, <1>8, <1>9 DEF IInv, StepsInv, SigDescribed, contextVars, candidateVars, stepVars, historyVars, SigTake
<1>6. ContextInv' /\ NothingSurvives'
  BY <1>1, <1>9 DEF IInv, ContextInv, NothingSurvives, SigDescribed, contextVars, candidateVars, stepVars, historyVars, SigTake
<1>7. CrashOnlyOvertaken' /\ AddedWhenDescribed' /\ SdpCurrent'
  <2>1. CrashOnlyOvertaken'
    BY <1>1, <1>8 DEF IInv, CrashOnlyOvertaken, SigDescribed, NullUnless, SigTake
  <2>2. AddedWhenDescribed'
    BY <1>1, <1>9, <1>10 DEF IInv, AddedWhenDescribed, SigTake
  <2>3. SdpCurrent'
    BY DEF IInv, SdpCurrent, SigDescribed, SigTake
  <2> QED
    BY <2>1, <2>2, <2>3
<1> QED
  BY <1>2, <1>3, <1>4, <1>5, <1>6, <1>7 DEF IInv

LEMMA SigFlushedKept == ASSUME IInv, SigFlushed PROVE IInv'
<1>1. /\ sig # <<>> /\ sig \in Seq(Operations) /\ Head(sig).peer \in Peers
      /\ Head(sig).peer \in {pc} \cup overtaken
      /\ Tail(sig) \in Seq(Operations) /\ GoodOps(Tail(sig), pc, overtaken)
      /\ flushing \in Negotiations /\ Cached \subseteq Candidates
  <2>1. flushing \in Negotiations /\ sig # <<>> /\ sig \in Seq(Operations)
    BY Bounds DEF IInv, TypeOK, StepsInv, SigFlushed, Negotiations
  <2>2. Head(sig) \in Operations /\ Tail(sig) \in Seq(Operations)
    BY <2>1, TailAt
  <2>3. Head(sig).peer \in Peers
    BY <2>2 DEF Operations
  <2>4. Head(sig).peer \in {pc} \cup overtaken /\ GoodOps(Tail(sig), pc, overtaken)
    BY <2>1, OpsTail DEF IInv, OpsInv
  <2>5. Cached \subseteq Candidates
    BY CachedAre DEF IInv, TypeOK, Cached
  <2> QED
    BY <2>1, <2>2, <2>3, <2>4, <2>5
<1> DEFINE e == Task("answer", flushing, Head(sig).peer)
<1>9. /\ pcQueue \in Seq(PcTasks) /\ e \in PcTasks
      /\ e.peer = Head(sig).peer /\ e.kind \in {"given", "answer"}
      /\ Append(pcQueue, e) \in Seq(PcTasks) /\ Append(pcQueue, e) # <<>>
      /\ pcQueue # <<>> => Head(Append(pcQueue, e)) = Head(pcQueue)
  <2>1. pcQueue \in Seq(PcTasks) /\ e \in PcTasks
    BY <1>1, TasksAre DEF IInv, TypeOK
  <2>2. e.peer = Head(sig).peer /\ e.kind \in {"given", "answer"}
    BY DEF Task
  <2> HIDE DEF e
  <2> QED
    BY <2>1, <2>2, AppendAt, AppendHead
<1>10. pcQueue' = Append(pcQueue, e) \/ pcQueue' = pcQueue
  BY DEF SigFlushed
<1> HIDE DEF e
<1>11. /\ pcQueue' \in Seq(PcTasks)
       /\ pcQueue # <<>> => pcQueue' # <<>> /\ Head(pcQueue') = Head(pcQueue)
  BY <1>9, <1>10
<1>12. GoodQueue(pcQueue', pc, overtaken, role, peers, status)
  <2>1. Good(e, pc, overtaken, role, peers, status)
    BY <1>1, <1>9 DEF Good
  <2>2. GoodQueue(Append(pcQueue, e), pc, overtaken, role, peers, status)
    BY <1>9, <2>1, QueueAppend DEF IInv, TasksInv
  <2> QED
    BY <1>10, <2>2 DEF IInv, TasksInv
<1>2. TypeOK'
  <2>1. status' \in [Negotiations -> {"none", "begun", "given", "answered"} \cup Ended]
    BY <1>1 DEF IInv, TypeOK, SigFlushed, Marks, Ended
  <2>2. {dropped', raced', lost'} \subseteq SUBSET Candidates
    BY <1>1 DEF IInv, TypeOK, SigFlushed, candidateVars
  <2>3. candidates' \in Seq(Candidates)
    BY DEF SigFlushed, EmptyCache
  <2> QED
    BY <1>1, <1>11, <2>1, <2>2, <2>3, Bounds DEF IInv, TypeOK, SigFlushed, contextVars, candidateVars, stepVars, historyVars
<1>3. TasksInv'
  <2>1. \A m \in Negotiations : status'[m] = "none" => status[m] = "none"
    BY <1>1 DEF IInv, TypeOK, SigFlushed, Marks
  <2>2. GoodQueue(pcQueue', pc, overtaken, role, peers, status')
    BY <1>11, <1>12, <2>1, QueueMarked
  <2> QED
    BY <2>2 DEF TasksInv, SigFlushed, contextVars, candidateVars, stepVars, historyVars
<1>4. OpsInv'
  BY <1>1 DEF OpsInv, SigFlushed, contextVars, candidateVars, stepVars, historyVars
<1>5. StepsInv'
  BY <1>11 DEF IInv, StepsInv, SigFlushed, contextVars, candidateVars, stepVars, historyVars
<1>6. ContextInv' /\ NothingSurvives'
  BY DEF IInv, ContextInv, NothingSurvives, SigFlushed, contextVars, candidateVars, stepVars, historyVars
<1>7. CrashOnlyOvertaken' /\ AddedWhenDescribed' /\ SdpCurrent'
  BY DEF IInv, CrashOnlyOvertaken, AddedWhenDescribed, SdpCurrent, SigFlushed, contextVars, candidateVars, stepVars, historyVars
<1> QED
  BY <1>2, <1>3, <1>4, <1>5, <1>6, <1>7 DEF IInv

LEMMA SigGatheredKept == ASSUME IInv, SigGathered PROVE IInv'
<1>2. TypeOK'
  BY DEF IInv, TypeOK, SigGathered, contextVars, candidateVars, stepVars, historyVars
<1>3. TasksInv'
  BY DEF IInv, TasksInv, SigGathered, contextVars, candidateVars, stepVars, historyVars
<1>4. OpsInv'
  BY DEF IInv, OpsInv, SigGathered, contextVars, candidateVars, stepVars, historyVars
<1>5. StepsInv'
  BY DEF IInv, StepsInv, SigGathered, contextVars, candidateVars, stepVars, historyVars
<1>6. ContextInv' /\ NothingSurvives'
  BY DEF IInv, ContextInv, NothingSurvives, SigGathered, contextVars, candidateVars, stepVars, historyVars
<1>7. CrashOnlyOvertaken' /\ AddedWhenDescribed' /\ SdpCurrent'
  BY DEF IInv, CrashOnlyOvertaken, AddedWhenDescribed, SdpCurrent, SigGathered, contextVars, candidateVars, stepVars, historyVars
<1> QED
  BY <1>2, <1>3, <1>4, <1>5, <1>6, <1>7 DEF IInv

-----------------------------------------------------------------------------
(* The theorems.                                                           *)

LEMMA Initially == ASSUME Init PROVE IInv
<1> USE Bounds DEF Init
<1>1. TypeOK
  <2>1. /\ status \in [Negotiations -> {"none", "begun", "given", "answered"} \cup Ended]
        /\ peerOf \in [Negotiations -> 0..MaxNegotiations]
    OBVIOUS
  <2>2. budget \in [cleanups : Nat, candidates : 0..MaxCandidates]
    OBVIOUS
  <2>3. candidates \in Seq(Candidates) /\ pcQueue \in Seq(PcTasks) /\ sig \in Seq(Operations)
    OBVIOUS
  <2>4. /\ {pc, peers, localSdp, remoteSdp, crashed, flushing} \subseteq 0..MaxNegotiations
        /\ localStream = FALSE /\ iceDone = FALSE /\ clearing = FALSE
    OBVIOUS
  <2>5. /\ sent = {} /\ added = {} /\ described = {} /\ dropped = {} /\ raced = {}
        /\ lost = {} /\ overtaken = {} /\ looked = "none"
        /\ role \in {"publisher", "subscriber"} /\ trickle \in BOOLEAN
    OBVIOUS
  <2>6. {localStream, iceDone, clearing} \subseteq BOOLEAN
    BY ONLY <2>4, Zenon
  <2>7. {dropped, raced, lost} \subseteq SUBSET Candidates
    BY <2>5
  <2> QED
    BY ONLY <2>1, <2>2, <2>3, <2>4, <2>5, <2>6, <2>7 DEF TypeOK
<1>2. Len(pcQueue) = 0 /\ Len(sig) = 0
  OBVIOUS
<1>3. TasksInv /\ OpsInv
  BY <1>2 DEF TasksInv, OpsInv, GoodQueue, GoodOps, Orderly, Negotiations
<1>4. StepsInv /\ ContextInv /\ NothingSurvives
  BY DEF StepsInv, ContextInv, NothingSurvives
<1>5. CrashOnlyOvertaken /\ AddedWhenDescribed /\ SdpCurrent
  BY DEF CrashOnlyOvertaken, AddedWhenDescribed, SdpCurrent
<1> QED
  BY <1>1, <1>3, <1>4, <1>5 DEF IInv

LEMMA StepKeeps == ASSUME IInv, [Next]_vars PROVE IInv'
<1>1. CASE \E n \in Negotiations : Begin(n)
  BY <1>1, BeginKept
<1>2. CASE \E n \in Negotiations : ServerAnswer(n)
  BY <1>2, ServerAnswerKept
<1>3. CASE ServerCandidate
  BY <1>3, ServerCandidateKept
<1>4. CASE PostCleanup
  BY <1>4, PostCleanupKept
<1>5. CASE Prepare
  BY <1>5, PrepareKept
<1>6. CASE LocalTrack
  BY <1>6, LocalTrackKept
<1>7. CASE HandleRemoteJsep
  BY <1>7, HandleRemoteJsepKept
<1>8. CASE CreateAnswer
  BY <1>8, CreateAnswerKept
<1>9. CASE OfferAnswer
  BY <1>9, OfferAnswerKept
<1>10. CASE TrickleLook
  BY <1>10, TrickleLookKept
<1>11. CASE TrickleAdd
  BY <1>11, TrickleAddKept
<1>12. CASE TrickleCache
  BY <1>12, TrickleCacheKept
<1>13. CASE CleanupPeer
  BY <1>13, CleanupPeerKept
<1>14. CASE CleanupRest
  BY <1>14, CleanupRestKept
<1>15. CASE SigCreated
  BY <1>15, SigCreatedKept
<1>16. CASE SigDescribed
  BY <1>16, SigDescribedKept
<1>17. CASE SigFlushed
  BY <1>17, SigFlushedKept
<1>18. CASE \E kind \in {"create", "remote"} : SigFailed(kind)
  BY <1>18, SigFailedKept
<1>19. CASE SigGathered
  BY <1>19, SigGatheredKept
<1>20. CASE UNCHANGED vars
  <2> USE <1>20 DEF IInv, vars, contextVars, candidateVars, stepVars, historyVars
  <2>1. TypeOK'
    BY DEF TypeOK
  <2>2. TasksInv' /\ OpsInv'
    BY DEF TasksInv, OpsInv
  <2>3. StepsInv' /\ ContextInv' /\ NothingSurvives'
    BY DEF StepsInv, ContextInv, NothingSurvives
  <2>4. CrashOnlyOvertaken' /\ AddedWhenDescribed' /\ SdpCurrent'
    BY DEF CrashOnlyOvertaken, AddedWhenDescribed, SdpCurrent
  <2> QED
    BY <2>1, <2>2, <2>3, <2>4
<1> QED
  BY <1>1, <1>2, <1>3, <1>4, <1>5, <1>6, <1>7, <1>8, <1>9, <1>10, <1>11, <1>12, <1>13, <1>14, <1>15, <1>16, <1>17, <1>18, <1>19, <1>20 DEF Next, Environment, PcStep, SigStep

LEMMA Invariant == Spec => []IInv
BY Initially, StepKeeps, PTL DEF Spec

\* Every variable of the plugin client has its type, whatever the number of
\* negotiations, candidates and clean-ups.
THEOREM PluginTypes == Spec => []TypeOK
<1>1. IInv => TypeOK
  BY DEF IInv
<1> QED
  BY <1>1, Invariant, PTL

\* A null pointer is met only on behalf of a PeerConnection that was cleaned up
\* with something of it still under way (plugin_client.cpp:506-523, 1255, 1421).
THEOREM NullOnlyAfterCleanup == Spec => []CrashOnlyOvertaken
<1>1. IInv => CrashOnlyOvertaken
  BY DEF IInv
<1> QED
  BY <1>1, Invariant, PTL

\* What is known of a session is of the current PeerConnection, or was left by a
\* callback of an overtaken one (plugin_client.cpp:549, 1255, 1428-1454).
THEOREM NothingSurvivesCleanup == Spec => []NothingSurvives
<1>1. IInv => NothingSurvives
  BY DEF IInv
<1> QED
  BY <1>1, Invariant, PTL

\* A candidate is added to a PeerConnection that has its remote description,
\* unless the description in the context was left by an overtaken one
\* (plugin_client.cpp:1582-1599).
THEOREM CandidateMeetsDescription == Spec => []AddedWhenDescribed
<1>1. IInv => AddedWhenDescribed
  BY DEF IInv
<1> QED
  BY <1>1, Invariant, PTL
=============================================================================
