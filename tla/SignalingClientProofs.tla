----------------------- MODULE SignalingClientProofs -----------------------
(***************************************************************************)
(* Proofs about SignalingClient, for any clients, messages and bounds.      *)
(*   - Its type invariant, and that to its plugin client every handle lives *)
(*     as HandleLife says.  The latter rests on HInv, which follows a       *)
(*     handle from the reply that brings it, through the queues of the two  *)
(*     threads, to the reply that takes it away.                            *)
(*   - That a client is reached by its handle, that every request is made   *)
(*     in a session, and that _connected is exact over one connection.      *)
(*     They rest on SInv, which follows the session from the reply that     *)
(*     brings it to the loss of its connection, and on HInv.                *)
(*   - That the callback of a message runs once: MInv says where the        *)
(*     message is.                                                          *)
(***************************************************************************)
EXTENDS SignalingClient, FiniteSetTheorems, SequenceTheorems, TLAPS

-----------------------------------------------------------------------------
(* The parts of a type-correct step: each queue and the requests keep their *)
(* types.                                                                   *)

LEMMA Bounds == MaxHandle \in Nat /\ MaxConn \in Nat /\ MaxCalls \in Nat /\ MaxEvents \in Nat
BY BoundsAssumption

LEMMA SsArrival ==
    ASSUME TypeOK, NEW e \in SsTasks, ssQueue' = Append(ssQueue, e)
    PROVE  ssQueue' \in Seq(SsTasks)
BY DEF TypeOK

LEMMA SsTaken ==
    ASSUME TypeOK, NEW kind, Take(kind)
    PROVE  /\ Head(ssQueue) \in SsTasks
           /\ Head(ssQueue).kind = kind
           /\ ssQueue' \in Seq(SsTasks)
BY DEF TypeOK, Take

LEMMA PcPosted ==
    ASSUME TypeOK, NEW kind, NEW n, NEW who, Task(kind, n, who) \in PcTasks, Post(kind, n, who)
    PROVE  pcQueue' \in Seq(PcTasks)
BY DEF TypeOK, Post

LEMMA PcTaken ==
    ASSUME TypeOK, NEW kind, PcTake(kind)
    PROVE  /\ Head(pcQueue) \in PcTasks
           /\ Head(pcQueue).kind = kind
           /\ pcQueue' \in Seq(PcTasks)
BY DEF TypeOK, PcTake

LEMMA SentTyped ==
    ASSUME TypeOK, NEW kind, NEW handle, NEW who, Send(kind, handle, who),
           \A i, s \in Nat, c \in Connections :
              [id |-> i, kind |-> kind, session |-> s, handle |-> handle, who |-> who,
               conn |-> c] \in Requests
    PROVE  pending' \subseteq Requests /\ asked' \in Nat
BY Bounds DEF TypeOK, Send, Connections

LEMMA SendNothingTyped ==
    ASSUME TypeOK, SendNothing
    PROVE  pending' \subseteq Requests /\ asked' \in Nat
BY DEF TypeOK, SendNothing

LEMMA BudgetSpent ==
    ASSUME NEW b \in [calls : Nat, events : Nat]
    PROVE  /\ [b EXCEPT !.calls = @ + 1] \in [calls : Nat, events : Nat]
           /\ [b EXCEPT !.events = @ + 1] \in [calls : Nat, events : Nat]
OBVIOUS

LEMMA CallType ==
    ASSUME TypeOK, NEW kind, NEW n, NEW who, Task(kind, n, who) \in SsTasks, Call(kind, n, who)
    PROVE  TypeOK'
<1>1. ssQueue' \in Seq(SsTasks)
  BY SsArrival DEF Call
<1>2. budget' \in [calls : Nat, events : Nat]
  BY BudgetSpent DEF TypeOK, Call
<1> QED
  BY <1>1, <1>2 DEF TypeOK, Call, serverVars, sessionVars, clientVars, historyVars

LEMMA CallAttachType == ASSUME TypeOK, NEW p \in Clients, CallAttach(p) PROVE TypeOK'
<1>1. Task("attach", 0, p) \in SsTasks
  BY Bounds DEF TypeOK, Task, SsTasks
<1> QED
  BY <1>1, CallType DEF CallAttach

LEMMA CallHangupType == ASSUME TypeOK, NEW p \in Clients, CallHangup(p) PROVE TypeOK'
<1>1. Task("hangup", handleId[p], p) \in SsTasks
  BY Bounds DEF TypeOK, Task, SsTasks
<1> QED
  BY <1>1, CallType DEF CallHangup

LEMMA CallMessageType == ASSUME TypeOK, NEW p \in Clients, NEW m \in Messages, CallMessage(p, m) PROVE TypeOK'
<1>1. Task("message", handleId[p], m) \in SsTasks
  BY Bounds DEF TypeOK, Task, SsTasks
<1> QED
  BY <1>1, CallType DEF CallMessage

LEMMA CallDetachType == ASSUME TypeOK, NEW p \in Clients, CallDetach(p) PROVE TypeOK'
<1>1. Task("detach", handleId[p], p) \in SsTasks
  BY Bounds DEF TypeOK, Task, SsTasks
<1> QED
  BY <1>1, CallType DEF CallDetach

LEMMA CallTrickleType == ASSUME TypeOK, NEW p \in Clients, CallTrickle(p) PROVE TypeOK'
<1>1. Task("trickle", handleId[p], p) \in SsTasks
  BY Bounds DEF TypeOK, Task, SsTasks
<1>2. ssQueue' \in Seq(SsTasks)
  BY <1>1, SsArrival DEF CallTrickle
<1>3. budget' \in [calls : Nat, events : Nat]
  BY BudgetSpent DEF TypeOK, CallTrickle
<1> QED
  BY <1>2, <1>3 DEF TypeOK, CallTrickle, serverVars, sessionVars, clientVars, historyVars

LEMMA OpenPeerType == ASSUME TypeOK, NEW p \in Clients, OpenPeer(p) PROVE TypeOK'
BY DEF TypeOK, OpenPeer, serverVars, sessionVars, historyVars

-----------------------------------------------------------------------------
(* The environment.                                                         *)

LEMMA ArrivesTyped ==
    ASSUME TypeOK, NEW e \in SsTasks, Arrives(e)
    PROVE  ssQueue' \in Seq(SsTasks)
BY DEF TypeOK, Arrives

LEMMA ReplyTyped ==
    ASSUME TypeOK, NEW q \in pending, NEW e \in SsTasks, Reply(q, e)
    PROVE  ssQueue' \in Seq(SsTasks) /\ pending' \subseteq Requests
BY SsArrival DEF TypeOK, Reply

LEMMA ConnectType == ASSUME TypeOK, Connect PROVE TypeOK'
BY Bounds DEF TypeOK, Connect, serverVars, sessionVars, clientVars, historyVars, Connections

LEMMA ConnectionUpType == ASSUME TypeOK, NEW c \in Connections, ConnectionUp(c) PROVE TypeOK'
<1>1. Task("opened", 0, Nobody) \in SsTasks
  BY DEF Task, SsTasks
<1>2. ssQueue' \in Seq(SsTasks)
  BY <1>1, ArrivesTyped DEF ConnectionUp
<1> QED
  BY <1>2 DEF TypeOK, ConnectionUp, serverVars, sessionVars, clientVars, historyVars

LEMMA ConnectionDownType == ASSUME TypeOK, NEW c \in Connections, ConnectionDown(c) PROVE TypeOK'
<1>1. Task("down", 0, Nobody) \in SsTasks
  BY DEF Task, SsTasks
<1>2. ssQueue' \in Seq(SsTasks)
  BY <1>1, ArrivesTyped DEF ConnectionDown
<1>3. pending' \subseteq Requests
  BY DEF TypeOK, ConnectionDown
<1> QED
  BY <1>2, <1>3 DEF TypeOK, ConnectionDown, sessionVars, clientVars, historyVars

LEMMA ReplyCreateType == ASSUME TypeOK, NEW q \in pending, ReplyCreate(q) PROVE TypeOK'
<1>1. sessions' \in Nat
  BY DEF TypeOK, ReplyCreate
<1>2. Task("created", sessions', Nobody) \in SsTasks
  BY <1>1 DEF Task, SsTasks
<1>3. ssQueue' \in Seq(SsTasks) /\ pending' \subseteq Requests
  BY <1>2, ReplyTyped DEF ReplyCreate
<1> QED
  BY <1>1, <1>3 DEF TypeOK, ReplyCreate, Reply, sessionVars, clientVars, historyVars

LEMMA ReplyAttachType == ASSUME TypeOK, NEW q \in pending, ReplyAttach(q) PROVE TypeOK'
<1>1. q \in Requests /\ q.kind = "attach"
  BY DEF TypeOK, ReplyAttach
<1>2. q.who \in Clients /\ q.session \in Nat
  BY <1>1 DEF Requests, Asked
<1>3. PICK h \in Handles : /\ owner' = [owner EXCEPT ![h] = q.session]
                           /\ Reply(q, Task("attached", h, q.who))
  BY DEF ReplyAttach
<1>4. Task("attached", h, q.who) \in SsTasks
  BY <1>2 DEF Task, SsTasks
<1>5. ssQueue' \in Seq(SsTasks) /\ pending' \subseteq Requests
  BY <1>3, <1>4, ReplyTyped
<1>6. owner' \in [Handles -> Nat]
  BY <1>2, <1>3 DEF TypeOK
<1> QED
  BY <1>3, <1>5, <1>6 DEF TypeOK, ReplyAttach, Reply, sessionVars, clientVars, historyVars

LEMMA ReplyRefusedType == ASSUME TypeOK, NEW q \in pending, ReplyRefused(q) PROVE TypeOK'
<1>1. q \in Requests /\ q.kind = "attach"
  BY DEF TypeOK, ReplyRefused
<1>2. Task("refused", 0, q.who) \in SsTasks
  BY <1>1 DEF Requests, Asked, Task, SsTasks
<1>3. ssQueue' \in Seq(SsTasks) /\ pending' \subseteq Requests
  BY <1>2, ReplyTyped DEF ReplyRefused
<1> QED
  BY <1>3 DEF TypeOK, ReplyRefused, Reply, sessionVars, clientVars, historyVars

LEMMA AnswerTyped ==
    ASSUME TypeOK, NEW q \in pending, q.kind \in DOMAIN Answer
    PROVE  Task(Answer[q.kind], q.handle, q.who) \in SsTasks
<1>1. q \in Requests /\ q.kind \in {"message", "detach", "destroy"}
  BY DEF TypeOK, Answer
<1>2. CASE q.kind = "message"
  BY <1>1, <1>2, Bounds DEF Requests, Asked, Task, SsTasks, Answer, Handles
<1>3. CASE q.kind = "detach"
  BY <1>1, <1>3 DEF Requests, Asked, Task, SsTasks, Answer
<1>4. CASE q.kind = "destroy"
  BY <1>1, <1>4 DEF Requests, Asked, Task, SsTasks, Answer
<1> QED
  BY <1>1, <1>2, <1>3, <1>4

LEMMA ReplyOtherType == ASSUME TypeOK, NEW q \in pending, ReplyOther(q) PROVE TypeOK'
<1>1. Task(Answer[q.kind], q.handle, q.who) \in SsTasks
  BY AnswerTyped DEF ReplyOther
<1>2. ssQueue' \in Seq(SsTasks) /\ pending' \subseteq Requests
  BY <1>1, ReplyTyped DEF ReplyOther
<1> QED
  BY <1>2 DEF TypeOK, ReplyOther, Reply, sessionVars, clientVars, historyVars

LEMMA LoseType == ASSUME TypeOK, NEW q \in pending, Lose(q) PROVE TypeOK'
BY DEF TypeOK, Lose, sessionVars, clientVars, historyVars

LEMMA ServerEventType == ASSUME TypeOK, NEW h \in Handles, ServerEvent(h) PROVE TypeOK'
<1>1. Task("event", h, Nobody) \in SsTasks
  BY DEF Task, SsTasks
<1>2. ssQueue' \in Seq(SsTasks)
  BY <1>1, SsArrival DEF ServerEvent
<1>3. budget' \in [calls : Nat, events : Nat]
  BY BudgetSpent DEF TypeOK, ServerEvent
<1> QED
  BY <1>2, <1>3 DEF TypeOK, ServerEvent, serverVars, sessionVars, clientVars, historyVars

LEMMA DestroyType == ASSUME TypeOK, Destroy PROVE TypeOK'
<1>1. Task("end", 0, Nobody) \in SsTasks
  BY DEF Task, SsTasks
<1>2. ssQueue' \in Seq(SsTasks)
  BY <1>1, SsArrival DEF Destroy
<1> QED
  BY <1>2 DEF TypeOK, Destroy, serverVars, clientVars, historyVars

-----------------------------------------------------------------------------
(* signaling-service.                                                       *)

LEMMA SsOpenedType == ASSUME TypeOK, SsOpened PROVE TypeOK'
<1> DEFINE t == Head(ssQueue)
<1>1. t \in SsTasks /\ t.kind = "opened" /\ ssQueue' \in Seq(SsTasks)
  BY SsTaken DEF SsOpened
<1>4. pcQueue' \in Seq(PcTasks)
  BY DEF TypeOK, SsOpened
<1>5. pending' \subseteq Requests /\ asked' \in Nat
  BY SentTyped DEF SsOpened, Requests, Asked
<1> QED
  BY <1>1, <1>4, <1>5 DEF TypeOK, SsOpened, Take

LEMMA SsDownType == ASSUME TypeOK, SsDown PROVE TypeOK'
<1> DEFINE t == Head(ssQueue)
<1>1. t \in SsTasks /\ t.kind = "down" /\ ssQueue' \in Seq(SsTasks)
  BY SsTaken DEF SsDown
<1>4. pcQueue' \in Seq(PcTasks)
  BY DEF TypeOK, SsDown
<1>5. pending' \subseteq Requests /\ asked' \in Nat
  BY SendNothingTyped DEF SsDown
<1> QED
  BY <1>1, <1>4, <1>5 DEF TypeOK, SsDown, Take

LEMMA SsCreatedType == ASSUME TypeOK, SsCreated PROVE TypeOK'
<1> DEFINE t == Head(ssQueue)
<1>1. t \in SsTasks /\ t.kind = "created" /\ ssQueue' \in Seq(SsTasks)
  BY SsTaken DEF SsCreated
<1>2. t.n \in Nat
  BY <1>1 DEF SsTasks
<1>3. Task("setConnected", 0, Nobody) \in PcTasks
  BY <1>2 DEF Task, PcTasks
<1>4. pcQueue' \in Seq(PcTasks)
  BY <1>3, PcPosted DEF SsCreated
<1>5. pending' \subseteq Requests /\ asked' \in Nat
  BY SendNothingTyped DEF SsCreated
<1> QED
  BY <1>1, <1>2, <1>4, <1>5 DEF TypeOK, SsCreated, Take

LEMMA SsAttachType == ASSUME TypeOK, SsAttach PROVE TypeOK'
<1> DEFINE t == Head(ssQueue)
<1>1. t \in SsTasks /\ t.kind = "attach" /\ ssQueue' \in Seq(SsTasks)
  BY SsTaken DEF SsAttach
<1>2. t.who \in Clients
  BY <1>1 DEF SsTasks
<1>4. pcQueue' \in Seq(PcTasks)
  BY DEF TypeOK, SsAttach
<1>5. pending' \subseteq Requests /\ asked' \in Nat
  BY <1>2, SentTyped DEF SsAttach, Requests, Asked
<1> QED
  BY <1>1, <1>2, <1>4, <1>5 DEF TypeOK, SsAttach, Take

LEMMA SsAttachedType == ASSUME TypeOK, SsAttached PROVE TypeOK'
<1> DEFINE t == Head(ssQueue)
<1>1. t \in SsTasks /\ t.kind = "attached" /\ ssQueue' \in Seq(SsTasks)
  BY SsTaken DEF SsAttached
<1>2. t.n \in Handles /\ t.who \in Clients
  BY <1>1 DEF SsTasks
<1>3. Task("attached", t.n, t.who) \in PcTasks
  BY <1>2 DEF Task, PcTasks
<1>4. pcQueue' \in Seq(PcTasks)
  BY <1>3, PcPosted DEF SsAttached
<1>5. pending' \subseteq Requests /\ asked' \in Nat
  BY SendNothingTyped DEF SsAttached
<1>6. handleId' \in [Clients -> 0..MaxHandle]
  BY <1>2, Bounds DEF TypeOK, SsAttached, Adopt, Handles
<1>7. pluginClientMap' \in [Handles -> Clients \cup {"absent", "expired"}]
  BY <1>2 DEF TypeOK, SsAttached, Adopt
<1> QED
  BY <1>1, <1>2, <1>4, <1>5, <1>6, <1>7 DEF TypeOK, SsAttached, Take

LEMMA SsRefusedType == ASSUME TypeOK, SsRefused PROVE TypeOK'
<1> DEFINE t == Head(ssQueue)
<1>1. t \in SsTasks /\ t.kind = "refused" /\ ssQueue' \in Seq(SsTasks)
  BY SsTaken DEF SsRefused
<1>2. t.who \in Clients
  BY <1>1 DEF SsTasks
<1>3. Task("refused", 0, t.who) \in PcTasks
  BY <1>2 DEF Task, PcTasks
<1>4. pcQueue' \in Seq(PcTasks)
  BY <1>3, PcPosted DEF SsRefused
<1>5. pending' \subseteq Requests /\ asked' \in Nat
  BY SendNothingTyped DEF SsRefused
<1> QED
  BY <1>1, <1>2, <1>4, <1>5 DEF TypeOK, SsRefused, Take

LEMMA SsMessageType == ASSUME TypeOK, SsRequest("message") PROVE TypeOK'
<1> DEFINE t == Head(ssQueue)
<1>1. t \in SsTasks /\ t.kind = "message" /\ ssQueue' \in Seq(SsTasks)
  BY SsTaken DEF SsRequest
<1>2. t.who \in Messages /\ t.n \in 0..MaxHandle
  BY <1>1 DEF SsTasks
<1>3. pending' \subseteq Requests /\ asked' \in Nat
  <2>1. CASE Handled(t.n)
    <3>1. Send("message", t.n, t.who) /\ t.n \in Handles
      BY <2>1 DEF SsRequest, Handled
    <3> QED
      BY <1>2, <3>1, SentTyped, Bounds DEF Requests, Asked, Handles
  <2>2. CASE ~Handled(t.n)
    BY <2>2, SendNothingTyped DEF SsRequest
  <2> QED
    BY <2>1, <2>2
<1> QED
  BY <1>1, <1>3 DEF TypeOK, SsRequest, Take

LEMMA SsHangupType == ASSUME TypeOK, SsRequest("hangup") PROVE TypeOK'
<1> DEFINE t == Head(ssQueue)
<1>1. t \in SsTasks /\ t.kind = "hangup" /\ ssQueue' \in Seq(SsTasks)
  BY SsTaken DEF SsRequest
<1>2. t.who \in Clients /\ t.n \in 0..MaxHandle
  BY <1>1 DEF SsTasks
<1>3. pending' \subseteq Requests /\ asked' \in Nat
  <2>1. CASE Handled(t.n)
    <3>1. Send("hangup", t.n, t.who) /\ t.n \in Handles
      BY <2>1 DEF SsRequest, Handled
    <3> QED
      BY <1>2, <3>1, SentTyped, Bounds DEF Requests, Asked, Handles
  <2>2. CASE ~Handled(t.n)
    BY <2>2, SendNothingTyped DEF SsRequest
  <2> QED
    BY <2>1, <2>2
<1> QED
  BY <1>1, <1>3 DEF TypeOK, SsRequest, Take

LEMMA SsTrickleType == ASSUME TypeOK, SsTrickle PROVE TypeOK'
<1> DEFINE t == Head(ssQueue)
<1>1. t \in SsTasks /\ t.kind = "trickle" /\ ssQueue' \in Seq(SsTasks)
  BY SsTaken DEF SsTrickle
<1>2. t.n \in 0..MaxHandle /\ t.who \in Clients
  BY <1>1 DEF SsTasks
<1>4. pcQueue' \in Seq(PcTasks)
  BY DEF TypeOK, SsTrickle
<1>5. pending' \subseteq Requests /\ asked' \in Nat
  BY <1>2, SentTyped DEF SsTrickle, Requests, Asked
<1> QED
  BY <1>1, <1>2, <1>4, <1>5 DEF TypeOK, SsTrickle, Take

LEMMA SsMessagedType == ASSUME TypeOK, SsMessaged PROVE TypeOK'
<1> DEFINE t == Head(ssQueue)
<1>1. t \in SsTasks /\ t.kind = "messaged" /\ ssQueue' \in Seq(SsTasks)
  BY SsTaken DEF SsMessaged
<1>2. t.who \in Messages
  BY <1>1 DEF SsTasks
<1>3. Task("callback", 0, t.who) \in PcTasks
  BY <1>2 DEF Task, PcTasks
<1>4. pcQueue' \in Seq(PcTasks)
  BY <1>3, PcPosted DEF SsMessaged
<1>5. pending' \subseteq Requests /\ asked' \in Nat
  BY SendNothingTyped DEF SsMessaged
<1> QED
  BY <1>1, <1>2, <1>4, <1>5 DEF TypeOK, SsMessaged, Take

LEMMA SsDetachType == ASSUME TypeOK, SsDetach PROVE TypeOK'
<1> DEFINE t == Head(ssQueue)
<1>1. t \in SsTasks /\ t.kind = "detach" /\ ssQueue' \in Seq(SsTasks)
  BY SsTaken DEF SsDetach
<1>2. t.who \in Clients
  BY <1>1 DEF SsTasks
<1>3. pcQueue' \in Seq(PcTasks) /\ pending' \subseteq Requests /\ asked' \in Nat
  <2>1. CASE Handled(t.n)
    <3>1. t.n \in Handles /\ Post("cleanup", t.n, Nobody)
      BY <2>1 DEF SsDetach, Handled
    <3>2. Task("cleanup", t.n, Nobody) \in PcTasks
      BY <3>1 DEF Task, PcTasks
    <3>3. pcQueue' \in Seq(PcTasks)
      BY <3>1, <3>2, PcPosted
    <3>4. CASE connected
      BY <1>2, <2>1, <3>1, <3>3, <3>4, SentTyped DEF SsDetach, Requests, Asked
    <3>5. CASE ~connected
      BY <2>1, <3>3, <3>5, SendNothingTyped DEF SsDetach
    <3> QED
      BY <3>4, <3>5
  <2>2. CASE ~Handled(t.n)
    BY <2>2, SendNothingTyped DEF TypeOK, SsDetach
  <2> QED
    BY <2>1, <2>2
<1> QED
  BY <1>1, <1>3 DEF TypeOK, SsDetach, Take

LEMMA CardinalityOfHandles == ASSUME NEW hs \in SUBSET Handles PROVE Cardinality(hs) \in Nat
<1>1. IsFiniteSet(Handles)
  BY FS_Interval, Bounds DEF Handles
<1>2. IsFiniteSet(hs)
  BY <1>1, FS_Subset
<1> QED
  BY <1>2, FS_CardinalityType

LEMMA RemoveLocallyTyped ==
    ASSUME TypeOK, NEW hs \in SUBSET Handles, RemoveLocally(hs)
    PROVE  pcQueue' \in Seq(PcTasks)
<1>1. PICK order \in [1..Cardinality(hs) -> hs] :
         pcQueue' = pcQueue \o [i \in 1..Cardinality(hs) |-> Task("cleanup", order[i], Nobody)]
  BY DEF RemoveLocally
<1>2. \A h \in hs : Task("cleanup", h, Nobody) \in PcTasks
  BY DEF Task, PcTasks
<1>3. Cardinality(hs) \in Nat
  BY CardinalityOfHandles
<1>4. [i \in 1..Cardinality(hs) |-> Task("cleanup", order[i], Nobody)] \in Seq(PcTasks)
  BY <1>2, <1>3
<1> QED
  BY <1>1, <1>4, ConcatProperties DEF TypeOK

LEMMA SsDetachedType == ASSUME TypeOK, SsDetached PROVE TypeOK'
<1> DEFINE t == Head(ssQueue)
<1>1. t \in SsTasks /\ t.kind = "detached" /\ ssQueue' \in Seq(SsTasks)
  BY SsTaken DEF SsDetached
<1>2. t.n \in Handles
  BY <1>1 DEF SsTasks
<1>3. pluginClientMap' \in [Handles -> Clients \cup {"absent", "expired"}]
  BY <1>2 DEF TypeOK, SsDetached
<1>4. erased' \in [Handles -> BOOLEAN]
  BY <1>2 DEF TypeOK, SsDetached
<1>5. pending' \subseteq Requests /\ asked' \in Nat
  BY SendNothingTyped DEF SsDetached
<1> QED
  BY <1>1, <1>3, <1>4, <1>5 DEF TypeOK, SsDetached, Take

LEMMA SsEndType == ASSUME TypeOK, SsEnd PROVE TypeOK'
<1>1. ssQueue' \in Seq(SsTasks)
  BY SsTaken DEF SsEnd
<1>2. pcQueue' \in Seq(PcTasks)
  BY RemoveLocallyTyped DEF TypeOK, SsEnd
<1>3. pending' \subseteq Requests /\ asked' \in Nat
  <2>1. CASE sessionId # 0 /\ connected
    BY <2>1, SentTyped DEF SsEnd, Requests, Asked
  <2>2. CASE ~(sessionId # 0 /\ connected)
    BY <2>2, SendNothingTyped DEF SsEnd
  <2> QED
    BY <2>1, <2>2
<1> QED
  BY <1>1, <1>2, <1>3 DEF TypeOK, SsEnd, Take

LEMMA SsDestroyedType == ASSUME TypeOK, SsDestroyed PROVE TypeOK'
<1> DEFINE t == Head(ssQueue)
<1>1. t \in SsTasks /\ t.kind = "destroyed" /\ ssQueue' \in Seq(SsTasks)
  BY SsTaken DEF SsDestroyed
<1>4. pcQueue' \in Seq(PcTasks)
  BY DEF TypeOK, SsDestroyed
<1>5. pending' \subseteq Requests /\ asked' \in Nat
  BY SendNothingTyped DEF SsDestroyed
<1> QED
  BY <1>1, <1>4, <1>5 DEF TypeOK, SsDestroyed, Take

LEMMA SsEventType == ASSUME TypeOK, SsEvent PROVE TypeOK'
<1> DEFINE t == Head(ssQueue)
<1>1. ssQueue' \in Seq(SsTasks)
  BY SsTaken DEF SsEvent
<1>2. pcQueue' \in Seq(PcTasks)
  <2>1. CASE Handled(t.n)
    <3>1. Task("deliver", t.n, Nobody) \in PcTasks
      BY <2>1 DEF Task, PcTasks, Handled
    <3> QED
      BY <2>1, <3>1, PcPosted DEF SsEvent
  <2>2. CASE ~Handled(t.n)
    BY <2>2 DEF TypeOK, SsEvent
  <2> QED
    BY <2>1, <2>2
<1>3. pending' \subseteq Requests /\ asked' \in Nat
  BY SendNothingTyped DEF SsEvent
<1> QED
  BY <1>1, <1>2, <1>3 DEF TypeOK, SsEvent, Take

-----------------------------------------------------------------------------
(* plugin-client.                                                           *)

LEMMA FetchedTyped ==
    ASSUME TypeOK, found # 0
    PROVE  Fetched \in [Handles -> Clients \cup {"absent", "expired"}] /\ found \in Handles
BY Bounds DEF TypeOK, Fetched, Handles

LEMMA PcSetConnectedType == ASSUME TypeOK, PcSetConnected PROVE TypeOK'
<1>1. pcQueue' \in Seq(PcTasks)
  BY PcTaken DEF PcSetConnected
<1> QED
  BY <1>1 DEF TypeOK, PcSetConnected, PcTake, serverVars

LEMMA PcAttachedType == ASSUME TypeOK, PcAttached PROVE TypeOK'
<1>1. Head(pcQueue) \in PcTasks /\ Head(pcQueue).kind = "attached" /\ pcQueue' \in Seq(PcTasks)
  BY PcTaken DEF PcAttached
<1>2. told' \in [Handles -> BOOLEAN]
  BY <1>1 DEF TypeOK, PcAttached
<1> QED
  BY <1>1, <1>2 DEF TypeOK, PcAttached, PcTake, serverVars

LEMMA PcRefusedType == ASSUME TypeOK, PcRefused PROVE TypeOK'
<1>1. pcQueue' \in Seq(PcTasks)
  BY PcTaken DEF PcRefused
<1> QED
  BY <1>1 DEF TypeOK, PcRefused, PcTake, serverVars

LEMMA PcCallbackType == ASSUME TypeOK, PcCallback PROVE TypeOK'
<1>1. Head(pcQueue) \in PcTasks /\ Head(pcQueue).kind = "callback" /\ pcQueue' \in Seq(PcTasks)
  BY PcTaken DEF PcCallback
<1>2. Head(pcQueue).who \in Messages
  BY <1>1 DEF PcTasks
<1>3. runs' \in [Messages -> Nat]
  BY <1>2 DEF TypeOK, PcCallback
<1> QED
  BY <1>1, <1>3 DEF TypeOK, PcCallback, PcTake, serverVars

LEMMA PcFindType == ASSUME TypeOK, PcFind PROVE TypeOK'
<1>1. Head(pcQueue) \in PcTasks /\ Head(pcQueue).kind \in {"deliver", "cleanup"}
  BY DEF TypeOK, PcFind, LooksUp
<1>2. Head(pcQueue).n \in Handles
  BY <1>1 DEF PcTasks
<1>3. pcQueue' \in Seq(PcTasks) /\ found' \in 0..MaxHandle
  <2>1. CASE pluginClientMap[Head(pcQueue).n] = "absent"
    <3>1. pcQueue # <<>> /\ pcQueue' = Tail(pcQueue) /\ found' = found
      BY <2>1 DEF PcFind, LooksUp
    <3> QED
      BY <3>1 DEF TypeOK
  <2>2. CASE pluginClientMap[Head(pcQueue).n] # "absent"
    BY <1>2, <2>2, Bounds DEF TypeOK, PcFind, Handles
  <2> QED
    BY <2>1, <2>2
<1> QED
  BY <1>3 DEF TypeOK, PcFind, serverVars, sessionVars, clientVars, historyVars

LEMMA PcFetchType == ASSUME TypeOK, PcFetch PROVE TypeOK'
<1>1. pluginClientMap' \in [Handles -> Clients \cup {"absent", "expired"}]
  BY FetchedTyped DEF PcFetch
<1>2. pcQueue' \in Seq(PcTasks) /\ found' \in 0..MaxHandle /\ held' \in Clients \cup {Nobody}
  <2>1. CASE Handled(found)
    BY <2>1 DEF TypeOK, PcFetch, Handled
  <2>2. CASE ~Handled(found)
    <3>1. pcQueue # <<>> /\ pcQueue' = Tail(pcQueue) /\ found' = 0 /\ held' = held
      BY <2>2 DEF PcFetch, LooksUp
    <3> QED
      BY <3>1, Bounds DEF TypeOK
  <2> QED
    BY <2>1, <2>2
<1> QED
  BY <1>1, <1>2 DEF TypeOK, PcFetch, serverVars, sessionVars, clientVars, historyVars

LEMMA PcDeliverType == ASSUME TypeOK, PcDeliver PROVE TypeOK'
<1>1. pcQueue' \in Seq(PcTasks)
  BY PcTaken DEF PcDeliver, PcCalls
<1>2. found' \in 0..MaxHandle /\ held' \in Clients \cup {Nobody}
  BY Bounds DEF PcDeliver, PcCalls
<1>3. heard' \in [Handles -> Nat]
  <2>1. heard \in [Handles -> Nat] /\ heard' = [heard EXCEPT ![found] = @ + 1]
    BY DEF TypeOK, PcDeliver
  <2>2. CASE found \in Handles
    BY <2>1, <2>2
  <2>3. CASE found \notin Handles
    BY <2>1, <2>3
  <2> QED
    BY <2>2, <2>3
<1> QED
  BY <1>1, <1>2, <1>3 DEF TypeOK, PcDeliver, PcCalls, PcTake, serverVars

LEMMA PcCleanupType == ASSUME TypeOK, PcCleanup PROVE TypeOK'
<1>1. pcQueue' \in Seq(PcTasks)
  BY PcTaken DEF PcCleanup, PcCalls
<1>2. found' \in 0..MaxHandle /\ held' \in Clients \cup {Nobody}
  BY Bounds DEF PcCleanup, PcCalls
<1>3. peer' \in [Clients -> BOOLEAN]
  BY DEF TypeOK, PcCleanup
<1> QED
  BY <1>1, <1>2, <1>3 DEF TypeOK, PcCleanup, PcCalls, PcTake, serverVars

LEMMA NextType == ASSUME TypeOK, Next PROVE TypeOK'
<1>1. CASE Environment
  BY <1>1, ConnectType, ConnectionUpType, ConnectionDownType, ReplyCreateType, ReplyAttachType,
     ReplyRefusedType, ReplyOtherType, LoseType, ServerEventType, DestroyType DEF Environment
<1>2. CASE ClientStep
  BY <1>2, CallAttachType, CallHangupType, CallDetachType, CallTrickleType, OpenPeerType,
     CallMessageType DEF ClientStep
<1>3. CASE SsStep
  BY <1>3, SsOpenedType, SsDownType, SsCreatedType, SsAttachType, SsAttachedType, SsRefusedType,
     SsMessageType, SsHangupType, SsTrickleType, SsMessagedType, SsDetachType,
     SsDetachedType, SsEndType, SsDestroyedType, SsEventType DEF SsStep
<1>4. CASE PcStep
  BY <1>4, PcSetConnectedType, PcAttachedType, PcRefusedType, PcCallbackType, PcFindType,
     PcFetchType, PcDeliverType, PcCleanupType DEF PcStep
<1> QED
  BY <1>1, <1>2, <1>3, <1>4 DEF Next

-----------------------------------------------------------------------------
(* The life of a handle.  On its way from the server to its client a handle *)
(* is attaching (its reply is queued), then born (its client was told, or   *)
(* will be by a queued task), and ending when its detach was asked for.     *)

Attaching(h) == \E i \in 1..Len(ssQueue) : ssQueue[i].kind = "attached" /\ ssQueue[i].n = h
Telling(h)   == \E i \in 1..Len(pcQueue) : pcQueue[i].kind = "attached" /\ pcQueue[i].n = h
Born(h)      == told[h] \/ Telling(h)
DetachAsked(h)    == \E q \in pending : q.kind = "detach" /\ q.handle = h
DetachAnswered(h) == \E i \in 1..Len(ssQueue) : ssQueue[i].kind = "detached" /\ ssQueue[i].n = h
Ending(h)    == erased[h] \/ DetachAsked(h) \/ DetachAnswered(h)

\* Each reply to attach brings a new handle: born once, in one place.
Unborn      == \A h \in Handles : owner[h] = 0 => ~Attaching(h) /\ ~Born(h)
NotYetBorn  == \A h \in Handles : Attaching(h) => ~Born(h)
ToldOnce    == \A h \in Handles : told[h] => ~Telling(h)
AttachedOnce ==
    \A i, j \in 1..Len(ssQueue) :
        /\ ssQueue[i].kind = "attached" /\ ssQueue[j].kind = "attached"
        /\ ssQueue[i].n = ssQueue[j].n
        => i = j
TellingOnce ==
    \A i, j \in 1..Len(pcQueue) :
        /\ pcQueue[i].kind = "attached" /\ pcQueue[j].kind = "attached"
        /\ pcQueue[i].n = pcQueue[j].n
        => i = j

\* Only a handle that is born is in the map, or has a detach.
MappedBorn == \A h \in Handles : pluginClientMap[h] # "absent" => Born(h)
EndingBorn == \A h \in Handles : Ending(h) => Born(h)

\* The client is told before any other task about the handle runs.
IsAbout(t)  == t.kind \in {"deliver", "cleanup"}
ToldFirst   ==
    \A i \in 1..Len(pcQueue) :
        IsAbout(pcQueue[i]) =>
            \/ told[pcQueue[i].n]
            \/ \E j \in 1..(i - 1) : pcQueue[j].kind = "attached" /\ pcQueue[j].n = pcQueue[i].n

ErasedGone == \A h \in Handles : erased[h] => ~Handled(h)

\* getHandler is looking up the handle of the first task, or its client is being
\* called.
FoundFirst == found # 0 => pcQueue # <<>> /\ IsAbout(Head(pcQueue)) /\ Head(pcQueue).n = found

HeldFound == held # Nobody => found # 0

HInv ==
    /\ Unborn /\ NotYetBorn /\ ToldOnce /\ AttachedOnce /\ TellingOnce
    /\ MappedBorn /\ EndingBorn /\ ToldFirst /\ ErasedGone /\ FoundFirst
    /\ HeldFound

-----------------------------------------------------------------------------
(* Steps that add nothing about attach: the tasks of signaling-service      *)
(* bring no new handle, and plugin-client gets no news of one but, about    *)
(* handles that are born, deliveries and clean-ups.                         *)

SsQuiet ==
    /\ \A h \in Handles : Attaching(h)' => Attaching(h)
    /\ AttachedOnce => AttachedOnce'

PcGrows ==
    /\ Len(pcQueue) <= Len(pcQueue')
    /\ \A i \in 1..Len(pcQueue) : pcQueue'[i] = pcQueue[i]
    /\ \A i \in 1..Len(pcQueue') :
          i > Len(pcQueue) => /\ pcQueue'[i].kind # "attached"
                              /\ IsAbout(pcQueue'[i]) => Born(pcQueue'[i].n)

LEMMA GrowStep ==
    ASSUME TypeOK, TypeOK', HInv, SsQuiet, PcGrows,
           \A h \in Handles : Ending(h)' => Ending(h) \/ Born(h),
           \A h \in Handles : owner'[h] = 0 => owner[h] = 0,
           UNCHANGED <<told, erased, pluginClientMap, found, held>>
    PROVE  HInv'
<1> DEFINE n == Len(pcQueue)
           n2 == Len(pcQueue')
<1>0. n \in Nat /\ n2 \in Nat /\ n <= n2
  BY DEF TypeOK, PcGrows
<1>1. \A h \in Handles : Telling(h)' <=> Telling(h)
  BY <1>0 DEF PcGrows, Telling
<1>2. \A h \in Handles : Born(h)' <=> Born(h)
  BY <1>1 DEF Born
<1>3. Unborn' /\ NotYetBorn' /\ ToldOnce'
  BY <1>1, <1>2 DEF HInv, SsQuiet, Unborn, NotYetBorn, ToldOnce
<1>4. AttachedOnce'
  BY DEF HInv, SsQuiet
<1>5. TellingOnce'
  BY <1>0 DEF HInv, PcGrows, TellingOnce
<1>6. MappedBorn' /\ EndingBorn'
  BY <1>2 DEF HInv, MappedBorn, EndingBorn
<1>7. ToldFirst'
  <2> SUFFICES ASSUME NEW i \in 1..n2, IsAbout(pcQueue'[i]), ~told[pcQueue'[i].n]
               PROVE  \E j \in 1..(i - 1) : /\ pcQueue'[j].kind = "attached"
                                            /\ pcQueue'[j].n = pcQueue'[i].n
    BY DEF ToldFirst, IsAbout
  <2>1. CASE i <= n
    <3>1. pcQueue'[i] = pcQueue[i] /\ i \in 1..n
      BY <1>0, <2>1 DEF PcGrows
    <3>2. PICK j \in 1..(i - 1) : pcQueue[j].kind = "attached" /\ pcQueue[j].n = pcQueue[i].n
      BY <3>1 DEF HInv, ToldFirst
    <3>3. pcQueue'[j] = pcQueue[j]
      BY <1>0, <2>1 DEF PcGrows
    <3> QED
      BY <3>1, <3>2, <3>3
  <2>2. CASE i > n
    <3>1. Telling(pcQueue'[i].n)
      BY <2>2 DEF PcGrows, Born
    <3>2. PICK j \in 1..n : pcQueue[j].kind = "attached" /\ pcQueue[j].n = pcQueue'[i].n
      BY <3>1 DEF Telling
    <3>3. pcQueue'[j] = pcQueue[j] /\ j \in 1..(i - 1)
      BY <1>0, <2>2 DEF PcGrows
    <3> QED
      BY <3>2, <3>3
  <2> QED
    BY <1>0, <2>1, <2>2
<1>8. ErasedGone'
  BY DEF HInv, ErasedGone, Handled
<1>9. FoundFirst'
  <2> SUFFICES ASSUME found # 0
               PROVE  pcQueue' # <<>> /\ IsAbout(Head(pcQueue')) /\ Head(pcQueue').n = found
    BY DEF FoundFirst, IsAbout
  <2>1. pcQueue # <<>> /\ IsAbout(Head(pcQueue)) /\ Head(pcQueue).n = found
    BY DEF HInv, FoundFirst
  <2>2. 1 \in 1..n
    BY <2>1 DEF TypeOK
  <2>3. pcQueue'[1] = pcQueue[1] /\ pcQueue' # <<>>
    BY <1>0, <2>2 DEF PcGrows
  <2>4. Head(pcQueue') = pcQueue'[1] /\ Head(pcQueue) = pcQueue[1]
    OBVIOUS
  <2> QED
    BY <2>1, <2>3, <2>4
<1>10. HeldFound'
  BY DEF HInv, HeldFound
<1> QED
  BY <1>3, <1>4, <1>5, <1>6, <1>7, <1>8, <1>9, <1>10 DEF HInv

LEMMA AboutHandle == ASSUME NEW e \in PcTasks, IsAbout(e) PROVE e.n \in Handles
BY DEF PcTasks, IsAbout

LEMMA PopStep ==
    ASSUME TypeOK, TypeOK', HInv, pcQueue # <<>>, pcQueue' = Tail(pcQueue), found' = 0, held' = Nobody,
           \A h \in Handles : told'[h] <=>
               told[h] \/ (Head(pcQueue).kind = "attached" /\ Head(pcQueue).n = h),
           \A h \in Handles :
               /\ pluginClientMap'[h] # "absent" =>
                      pluginClientMap[h] # "absent" \/ (IsAbout(Head(pcQueue)) /\ Head(pcQueue).n = h)
               /\ Handled(h)' => Handled(h),
           UNCHANGED <<ssQueue, pending, erased, owner>>
    PROVE  HInv'
<1> DEFINE n == Len(pcQueue)
           n2 == Len(pcQueue')
           t == Head(pcQueue)
<1>0. n \in Nat /\ n >= 1 /\ n2 = n - 1 /\ t = pcQueue[1]
  BY DEF TypeOK
<1>1. \A i \in 1..n2 : pcQueue'[i] = pcQueue[i + 1] /\ i + 1 \in 1..n
  BY <1>0 DEF TypeOK
<1>2. \A i \in 1..n : i = 1 \/ (i - 1 \in 1..n2 /\ pcQueue'[i - 1] = pcQueue[i])
  BY <1>0, <1>1
<1>3. \A h \in Handles : Telling(h)' => Telling(h)
  BY <1>1 DEF Telling
<1>4. \A h \in Handles : Telling(h) => Telling(h)' \/ told'[h]
  <2> SUFFICES ASSUME NEW h \in Handles, Telling(h), ~told'[h] PROVE Telling(h)'
    OBVIOUS
  <2>1. PICK i \in 1..n : pcQueue[i].kind = "attached" /\ pcQueue[i].n = h
    BY DEF Telling
  <2>2. i # 1
    BY <1>0, <2>1
  <2> QED
    BY <1>2, <2>1, <2>2 DEF Telling
<1>5. \A h \in Handles : Born(h)' <=> Born(h)
  <2> SUFFICES ASSUME NEW h \in Handles PROVE Born(h)' <=> Born(h)
    OBVIOUS
  <2>1. told'[h] => Born(h)
    BY <1>0 DEF Born, Telling
  <2> QED
    BY <2>1, <1>3, <1>4 DEF Born
<1>6. \A h \in Handles : (Attaching(h)' <=> Attaching(h)) /\ (Ending(h)' <=> Ending(h))
  BY DEF Attaching, Ending, DetachAsked, DetachAnswered
<1>7. Unborn' /\ NotYetBorn'
  BY <1>5, <1>6 DEF HInv, Unborn, NotYetBorn
<1>8. ToldOnce'
  <2> SUFFICES ASSUME NEW h \in Handles, told'[h], Telling(h)' PROVE FALSE
    BY DEF ToldOnce
  <2>1. ~told[h]
    BY <1>3 DEF HInv, ToldOnce
  <2>2. pcQueue[1].kind = "attached" /\ pcQueue[1].n = h
    BY <1>0, <2>1
  <2>3. PICK i \in 1..n2 : pcQueue'[i].kind = "attached" /\ pcQueue'[i].n = h
    BY DEF Telling
  <2>4. pcQueue[i + 1].kind = "attached" /\ pcQueue[i + 1].n = h /\ i + 1 \in 1..n
    BY <1>1, <2>3
  <2> QED
    BY <1>0, <2>2, <2>4 DEF HInv, TellingOnce
<1>9. AttachedOnce'
  BY DEF HInv, AttachedOnce
<1>10. TellingOnce'
  BY <1>1 DEF HInv, TellingOnce
<1>11. MappedBorn'
  <2> SUFFICES ASSUME NEW h \in Handles, pluginClientMap'[h] # "absent" PROVE Born(h)'
    BY DEF MappedBorn
  <2>1. CASE pluginClientMap[h] # "absent"
    BY <1>5, <2>1 DEF HInv, MappedBorn
  <2>2. CASE IsAbout(t) /\ t.n = h
    BY <1>0, <1>5, <2>2 DEF HInv, ToldFirst, Born
  <2> QED
    BY <2>1, <2>2
<1>12. EndingBorn' /\ ErasedGone'
  BY <1>5, <1>6 DEF HInv, EndingBorn, ErasedGone
<1>13. ToldFirst'
  <2> SUFFICES ASSUME NEW i \in 1..n2, IsAbout(pcQueue'[i]), ~told'[pcQueue'[i].n]
               PROVE  \E j \in 1..(i - 1) : /\ pcQueue'[j].kind = "attached"
                                            /\ pcQueue'[j].n = pcQueue'[i].n
    BY DEF ToldFirst, IsAbout
  <2> DEFINE h == pcQueue'[i].n
  <2>1. pcQueue'[i] = pcQueue[i + 1] /\ i + 1 \in 1..n
    BY <1>1
  <2>2. h \in Handles
    <3>1. pcQueue[i + 1] \in PcTasks
      BY <2>1 DEF TypeOK
    <3> QED
      BY <2>1, <3>1, AboutHandle
  <2>3. PICK j \in 1..i : pcQueue[j].kind = "attached" /\ pcQueue[j].n = h
    BY <2>1, <2>2 DEF HInv, ToldFirst
  <2>4. j # 1
    BY <1>0, <2>2, <2>3
  <2>5. j - 1 \in 1..(i - 1) /\ pcQueue'[j - 1] = pcQueue[j]
    BY <1>0, <1>2, <2>3, <2>4
  <2> QED
    BY <2>3, <2>5
<1>14. FoundFirst' /\ HeldFound'
  BY DEF FoundFirst, HeldFound
<1> QED
  BY <1>7, <1>8, <1>9, <1>10, <1>11, <1>12, <1>13, <1>14 DEF HInv

-----------------------------------------------------------------------------
(* How the queue of signaling-service changes.                              *)

LEMMA AppendQuiet ==
    ASSUME TypeOK, NEW e \in SsTasks, e.kind # "attached", ssQueue' = Append(ssQueue, e)
    PROVE  SsQuiet
<1>1. /\ Len(ssQueue') = Len(ssQueue) + 1
      /\ \A i \in 1..Len(ssQueue') : (i \in 1..Len(ssQueue) /\ ssQueue'[i] = ssQueue[i]) \/ ssQueue'[i] = e
  BY DEF TypeOK
<1>2. \A h \in Handles : Attaching(h)' => Attaching(h)
  BY <1>1 DEF Attaching
<1>3. AttachedOnce => AttachedOnce'
  BY <1>1 DEF AttachedOnce
<1> QED
  BY <1>2, <1>3 DEF SsQuiet

LEMMA AppendAnswers ==
    ASSUME TypeOK, NEW e \in SsTasks, ssQueue' = Append(ssQueue, e), NEW h, DetachAnswered(h)'
    PROVE  DetachAnswered(h) \/ (e.kind = "detached" /\ e.n = h)
<1>1. /\ Len(ssQueue') = Len(ssQueue) + 1
      /\ \A i \in 1..Len(ssQueue') : (i \in 1..Len(ssQueue) /\ ssQueue'[i] = ssQueue[i]) \/ ssQueue'[i] = e
  BY DEF TypeOK
<1> QED
  BY <1>1 DEF DetachAnswered

LEMMA SameQuiet ==
    ASSUME ssQueue' = ssQueue
    PROVE  SsQuiet /\ \A h : DetachAnswered(h)' <=> DetachAnswered(h)
BY DEF SsQuiet, Attaching, AttachedOnce, DetachAnswered

LEMMA TailFacts ==
    ASSUME TypeOK, ssQueue # <<>>, ssQueue' = Tail(ssQueue)
    PROVE  /\ Len(ssQueue') = Len(ssQueue) - 1 /\ Len(ssQueue) \in Nat \ {0}
           /\ Head(ssQueue) = ssQueue[1]
           /\ \A i \in 1..Len(ssQueue') : ssQueue'[i] = ssQueue[i + 1] /\ i + 1 \in 1..Len(ssQueue)
BY DEF TypeOK

LEMMA TakeQuiet ==
    ASSUME TypeOK, NEW kind, Take(kind)
    PROVE  SsQuiet /\ \A h : DetachAnswered(h)' => DetachAnswered(h)
<1>1. \A i \in 1..Len(ssQueue') : ssQueue'[i] = ssQueue[i + 1] /\ i + 1 \in 1..Len(ssQueue)
  BY TailFacts DEF Take
<1>2. \A h : (Attaching(h)' => Attaching(h)) /\ (DetachAnswered(h)' => DetachAnswered(h))
  BY <1>1 DEF Attaching, DetachAnswered
<1>3. AttachedOnce => AttachedOnce'
  BY <1>1, TailFacts DEF AttachedOnce, Take
<1> QED
  BY <1>2, <1>3 DEF SsQuiet

LEMMA PcSame ==
    ASSUME TypeOK, pcQueue' = pcQueue
    PROVE  PcGrows
BY DEF TypeOK, PcGrows

LEMMA PostGrows ==
    ASSUME TypeOK, NEW e \in PcTasks, pcQueue' = Append(pcQueue, e), e.kind # "attached",
           IsAbout(e) => Born(e.n)
    PROVE  PcGrows
<1>1. /\ Len(pcQueue') = Len(pcQueue) + 1 /\ Len(pcQueue) \in Nat
      /\ \A i \in 1..Len(pcQueue) : pcQueue'[i] = pcQueue[i]
      /\ \A i \in 1..Len(pcQueue') : i > Len(pcQueue) => pcQueue'[i] = e
  BY DEF TypeOK
<1> QED
  BY <1>1 DEF PcGrows

LEMMA RemoveGrows ==
    ASSUME TypeOK, NEW hs \in SUBSET Handles, \A h \in hs : Born(h), RemoveLocally(hs)
    PROVE  PcGrows
<1> DEFINE c == Cardinality(hs)
<1>1. PICK order \in [1..c -> hs] :
         pcQueue' = pcQueue \o [i \in 1..c |-> Task("cleanup", order[i], Nobody)]
  BY DEF RemoveLocally
<1>2. \A h \in hs : Task("cleanup", h, Nobody) \in PcTasks
  BY DEF Task, PcTasks
<1>3. c \in Nat
  BY CardinalityOfHandles
<1> DEFINE new == [i \in 1..c |-> Task("cleanup", order[i], Nobody)]
<1>4. new \in Seq(PcTasks) /\ Len(new) = c
  BY <1>2, <1>3
<1>9. pcQueue' = pcQueue \o new
  BY <1>1
<1> HIDE DEF new
<1>5. pcQueue \in Seq(PcTasks) /\ Len(pcQueue) \in Nat
  BY DEF TypeOK
<1>6. /\ Len(pcQueue') = Len(pcQueue) + c
      /\ \A i \in 1..(Len(pcQueue) + c) :
            pcQueue'[i] = IF i <= Len(pcQueue) THEN pcQueue[i] ELSE new[i - Len(pcQueue)]
  BY <1>4, <1>5, <1>9, ConcatProperties
<1>7. \A i \in 1..c : new[i].kind = "cleanup" /\ new[i].n \in hs
  BY DEF new, Task
<1>8. \A i \in 1..Len(pcQueue') : i > Len(pcQueue) => pcQueue'[i].kind = "cleanup" /\ pcQueue'[i].n \in hs
  BY <1>3, <1>5, <1>6, <1>7
<1> QED
  BY <1>3, <1>5, <1>6, <1>8 DEF PcGrows

LEMMA AppendFacts ==
    ASSUME NEW S, NEW queue \in Seq(S), NEW e \in S
    PROVE  /\ Len(Append(queue, e)) = Len(queue) + 1 /\ Len(queue) \in Nat
           /\ \A i \in 1..Len(Append(queue, e)) :
                 \/ i \in 1..Len(queue) /\ Append(queue, e)[i] = queue[i]
                 \/ i = Len(queue) + 1 /\ Append(queue, e)[i] = e
OBVIOUS

LEMMA NewTaskStep ==
    ASSUME TypeOK, TypeOK', HInv, pending' \subseteq pending,
           \/ ssQueue' = ssQueue
           \/ \E e \in SsTasks : /\ e.kind \notin {"attached", "detached"}
                                /\ ssQueue' = Append(ssQueue, e),
           UNCHANGED <<owner, pcQueue, told, erased, pluginClientMap, found, held>>
    PROVE  HInv'
<1>1. SsQuiet /\ \A h \in Handles : DetachAnswered(h)' => DetachAnswered(h)
  BY AppendQuiet, AppendAnswers, SameQuiet
<1>2. \A h \in Handles : Ending(h)' => Ending(h)
  BY <1>1 DEF Ending, DetachAsked
<1>3. PcGrows
  BY PcSame
<1> QED
  BY <1>1, <1>2, <1>3, GrowStep

LEMMA ServedStep ==
    ASSUME TypeOK, TypeOK', HInv, NEW kind, Take(kind), PcGrows,
           \A h \in Handles : DetachAsked(h)' => DetachAsked(h) \/ Born(h),
           UNCHANGED <<erased, pluginClientMap>>
    PROVE  HInv'
<1>1. SsQuiet /\ \A h \in Handles : DetachAnswered(h)' => DetachAnswered(h)
  BY TakeQuiet
<1>2. \A h \in Handles : Ending(h)' => Ending(h) \/ Born(h)
  BY <1>1 DEF Ending
<1>3. UNCHANGED <<told, erased, pluginClientMap, found, held, owner>>
  BY DEF Take
<1> QED
  BY <1>1, <1>2, <1>3, GrowStep

LEMMA SentAsks ==
    ASSUME NEW kind, NEW handle, NEW who, Send(kind, handle, who), NEW h, DetachAsked(h)'
    PROVE  DetachAsked(h) \/ (kind = "detach" /\ handle = h)
BY DEF Send, DetachAsked

LEMMA SentNothingAsks == ASSUME SendNothing, NEW h, DetachAsked(h)' PROVE DetachAsked(h)
BY DEF SendNothing, DetachAsked

-----------------------------------------------------------------------------
(* One lemma per action.                                                    *)

LEMMA CallInv ==
    ASSUME TypeOK, TypeOK', HInv, NEW kind, NEW n, NEW who, Task(kind, n, who) \in SsTasks,
           kind \notin {"attached", "detached"}, Call(kind, n, who)
    PROVE  HInv'
<1>1. Task(kind, n, who).kind = kind
  BY DEF Task
<1> QED
  BY <1>1, NewTaskStep DEF Call, serverVars, historyVars

LEMMA ClientInv == ASSUME TypeOK, TypeOK', HInv, ClientStep PROVE HInv'
<1> SUFFICES ASSUME NEW p \in Clients,
                    \/ CallAttach(p) \/ CallHangup(p) \/ CallDetach(p) \/ CallTrickle(p) \/ OpenPeer(p)
                    \/ \E m \in Messages : CallMessage(p, m)
             PROVE  HInv'
  BY DEF ClientStep
<1>1. CASE CallAttach(p)
  <2>1. Task("attach", 0, p) \in SsTasks
    BY DEF Task, SsTasks
  <2> QED
    BY <1>1, <2>1, CallInv DEF CallAttach
<1>2. handleId[p] \in 0..MaxHandle
  BY DEF TypeOK
<1>3. CASE CallHangup(p)
  <2>1. Task("hangup", handleId[p], p) \in SsTasks
    BY <1>2 DEF Task, SsTasks
  <2> QED
    BY <1>3, <2>1, CallInv DEF CallHangup
<1>4. CASE CallDetach(p)
  <2>1. Task("detach", handleId[p], p) \in SsTasks
    BY <1>2 DEF Task, SsTasks
  <2> QED
    BY <1>4, <2>1, CallInv DEF CallDetach
<1>5. CASE CallTrickle(p)
  <2>1. Task("trickle", handleId[p], p) \in SsTasks
    BY <1>2 DEF Task, SsTasks
  <2>2. Task("trickle", handleId[p], p).kind = "trickle"
    BY DEF Task
  <2> QED
    BY <1>5, <2>1, <2>2, NewTaskStep DEF CallTrickle, serverVars, historyVars
<1>6. CASE OpenPeer(p)
  BY <1>6, NewTaskStep DEF OpenPeer, serverVars, historyVars
<1>7. CASE \E m \in Messages : CallMessage(p, m)
  <2>1. PICK m \in Messages : CallMessage(p, m)
    BY <1>7
  <2>2. Task("message", handleId[p], m) \in SsTasks
    BY <1>2 DEF Task, SsTasks
  <2> QED
    BY <2>1, <2>2, CallInv DEF CallMessage
<1> QED
  BY <1>1, <1>3, <1>4, <1>5, <1>6, <1>7

LEMMA ArrivesInv ==
    ASSUME TypeOK, TypeOK', HInv, NEW kind \in {"opened", "down"}, Arrives(Task(kind, 0, Nobody)),
           pending' \subseteq pending,
           UNCHANGED <<owner, pcQueue, told, erased, pluginClientMap, found, held>>
    PROVE  HInv'
<1>1. Task(kind, 0, Nobody) \in SsTasks /\ Task(kind, 0, Nobody).kind = kind
  BY DEF Task, SsTasks
<1> QED
  BY <1>1, NewTaskStep DEF Arrives

LEMMA ReplyAttachInv ==
    ASSUME TypeOK, TypeOK', HInv, NEW q \in pending, ReplyAttach(q)
    PROVE  HInv'
<1>1. q.who \in Clients
  BY DEF TypeOK, ReplyAttach, Requests, Asked
<1>2. PICK g \in Handles : /\ owner[g] = 0
                           /\ owner' = [owner EXCEPT ![g] = q.session]
                           /\ Reply(q, Task("attached", g, q.who))
  BY DEF ReplyAttach
<1> DEFINE e == Task("attached", g, q.who)
<1>3. e \in SsTasks /\ e.kind = "attached" /\ e.n = g
  BY <1>1 DEF Task, SsTasks
<1>4. /\ ssQueue' = Append(ssQueue, e) /\ pending' \subseteq pending
      /\ UNCHANGED <<pcQueue, told, erased, pluginClientMap, found, held>>
  BY <1>2 DEF Reply, historyVars
<1> HIDE DEF e
<1>5. /\ Len(ssQueue') = Len(ssQueue) + 1 /\ Len(ssQueue) \in Nat
      /\ \A i \in 1..Len(ssQueue') :
            (i \in 1..Len(ssQueue) /\ ssQueue'[i] = ssQueue[i]) \/ (i = Len(ssQueue') /\ ssQueue'[i] = e)
  <2>1. ssQueue \in Seq(SsTasks)
    BY DEF TypeOK
  <2> QED
    BY <1>3, <1>4, <2>1, AppendFacts
<1>6. \A h \in Handles : Attaching(h)' => Attaching(h) \/ h = g
  BY <1>3, <1>5 DEF Attaching
<1>7. \A h \in Handles : (Telling(h)' <=> Telling(h)) /\ (Born(h)' <=> Born(h))
  BY <1>4 DEF Telling, Born
<1>8. \A h \in Handles : Ending(h)' => Ending(h)
  BY <1>3, <1>4, AppendAnswers DEF Ending, DetachAsked
<1>9. ~Attaching(g) /\ ~Born(g)
  BY <1>2 DEF HInv, Unborn
<1>10. Unborn'
  <2> SUFFICES ASSUME NEW h \in Handles, owner'[h] = 0 PROVE ~Attaching(h)' /\ ~Born(h)'
    BY DEF Unborn
  <2>1. CASE h = g
    <3>1. owner'[h] = q.session
      BY <1>2, <2>1 DEF TypeOK
    <3>2. q.session \in 1..sessions /\ sessions \in Nat
      BY DEF TypeOK, ReplyAttach
    <3> QED
      BY <3>1, <3>2
  <2>2. CASE h # g
    BY <1>2, <1>6, <1>7, <2>2 DEF TypeOK, HInv, Unborn
  <2> QED
    BY <2>1, <2>2
<1>11. NotYetBorn' /\ ToldOnce'
  BY <1>4, <1>6, <1>7, <1>9 DEF HInv, NotYetBorn, ToldOnce
<1>12. AttachedOnce'
  <2>1. \A i \in 1..Len(ssQueue) : ssQueue[i].kind = "attached" => ssQueue[i].n # g
    BY <1>9 DEF Attaching
  <2> QED
    BY <1>3, <1>5, <2>1 DEF HInv, AttachedOnce
<1>13. TellingOnce' /\ ToldFirst' /\ ErasedGone' /\ FoundFirst' /\ HeldFound'
  BY <1>4 DEF HInv, TellingOnce, ToldFirst, IsAbout, ErasedGone, Handled, FoundFirst, HeldFound
<1>14. MappedBorn' /\ EndingBorn'
  BY <1>4, <1>7, <1>8 DEF HInv, MappedBorn, EndingBorn
<1> QED
  BY <1>10, <1>11, <1>12, <1>13, <1>14 DEF HInv

LEMMA ReplyOtherInv ==
    ASSUME TypeOK, TypeOK', HInv, NEW q \in pending, ReplyOther(q)
    PROVE  HInv'
<1> DEFINE e == Task(Answer[q.kind], q.handle, q.who)
<1>1. e \in SsTasks
  BY AnswerTyped DEF ReplyOther
<1>2. /\ ssQueue' = Append(ssQueue, e) /\ pending' \subseteq pending /\ owner' = owner
      /\ UNCHANGED <<pcQueue, told, erased, pluginClientMap, found, held>>
  BY DEF ReplyOther, Reply, historyVars
<1>3. e.kind # "attached" /\ (e.kind = "detached" => q.kind = "detach" /\ e.n = q.handle)
  BY DEF ReplyOther, Answer, Task
<1> HIDE DEF e
<1>4. SsQuiet /\ PcGrows
  BY <1>1, <1>2, <1>3, AppendQuiet, PcSame
<1>5. \A h \in Handles : Ending(h)' => Ending(h)
  BY <1>1, <1>2, <1>3, AppendAnswers DEF Ending, DetachAsked
<1> QED
  BY <1>2, <1>4, <1>5, GrowStep

LEMMA EnvironmentInv == ASSUME TypeOK, TypeOK', HInv, Environment PROVE HInv'
<1>1. CASE Connect
  BY <1>1, NewTaskStep DEF Connect, serverVars, historyVars
<1>2. ASSUME NEW c \in Connections, ConnectionUp(c) PROVE HInv'
  BY <1>2, ArrivesInv DEF ConnectionUp, serverVars, historyVars
<1>3. ASSUME NEW c \in Connections, ConnectionDown(c) PROVE HInv'
  BY <1>3, ArrivesInv DEF ConnectionDown, historyVars
<1>4. ASSUME NEW q \in pending, ReplyCreate(q) PROVE HInv'
  <2> DEFINE e == Task("created", sessions', Nobody)
  <2>1. e \in SsTasks /\ e.kind = "created"
    BY <1>4 DEF TypeOK, ReplyCreate, Task, SsTasks
  <2> QED
    BY <1>4, <2>1, NewTaskStep DEF ReplyCreate, Reply, historyVars
<1>5. ASSUME NEW q \in pending, ReplyRefused(q) PROVE HInv'
  <2> DEFINE e == Task("refused", 0, q.who)
  <2>1. q.who \in Clients
    BY <1>5 DEF TypeOK, ReplyRefused, Requests, Asked
  <2>2. e \in SsTasks /\ e.kind = "refused"
    BY <2>1 DEF Task, SsTasks
  <2> QED
    BY <1>5, <2>2, NewTaskStep DEF ReplyRefused, Reply, historyVars
<1>6. ASSUME NEW q \in pending, Lose(q) PROVE HInv'
  BY <1>6, NewTaskStep DEF Lose, historyVars
<1>7. ASSUME NEW h \in Handles, ServerEvent(h) PROVE HInv'
  <2> DEFINE e == Task("event", h, Nobody)
  <2>1. e \in SsTasks /\ e.kind = "event"
    BY DEF Task, SsTasks
  <2> QED
    BY <1>7, <2>1, NewTaskStep DEF ServerEvent, serverVars, historyVars
<1>8. CASE Destroy
  <2> DEFINE e == Task("end", 0, Nobody)
  <2>1. e \in SsTasks /\ e.kind = "end"
    BY DEF Task, SsTasks
  <2> QED
    BY <1>8, <2>1, NewTaskStep DEF Destroy, serverVars, historyVars
<1> QED
  BY <1>1, <1>2, <1>3, <1>4, <1>5, <1>6, <1>7, <1>8, ReplyAttachInv, ReplyOtherInv DEF Environment

LEMMA SsAttachedInv == ASSUME TypeOK, TypeOK', HInv, SsAttached PROVE HInv'
<1>0. PICK g : g = Head(ssQueue).n
  OBVIOUS
<1> DEFINE e == Task("attached", g, Head(ssQueue).who)
<1>1. Head(ssQueue) \in SsTasks /\ Head(ssQueue).kind = "attached"
  BY SsTaken DEF SsAttached
<1>2. g \in Handles /\ e \in PcTasks /\ e.kind = "attached" /\ e.n = g
  BY <1>0, <1>1 DEF SsTasks, PcTasks, Task
<1>3. /\ pcQueue' = Append(pcQueue, e) /\ ssQueue # <<>> /\ ssQueue' = Tail(ssQueue)
      /\ pluginClientMap' = [pluginClientMap EXCEPT ![g] = Head(ssQueue).who]
      /\ UNCHANGED <<told, erased, found, held, owner, pending>>
  BY <1>0 DEF SsAttached, Take, Post, Adopt, SendNothing
<1>4. SsQuiet /\ \A h \in Handles : DetachAnswered(h)' => DetachAnswered(h)
  BY TakeQuiet DEF SsAttached
<1>5. /\ Len(ssQueue) \in Nat \ {0} /\ Head(ssQueue) = ssQueue[1] /\ Len(ssQueue') = Len(ssQueue) - 1
      /\ \A i \in 1..Len(ssQueue') : ssQueue'[i] = ssQueue[i + 1] /\ i + 1 \in 1..Len(ssQueue)
  BY <1>3, TailFacts
<1>6. Attaching(g) /\ ~Attaching(g)'
  <2>1. ssQueue[1].kind = "attached" /\ ssQueue[1].n = g /\ 1 \in 1..Len(ssQueue)
    BY <1>0, <1>1, <1>5
  <2>2. Attaching(g)
    BY <2>1 DEF Attaching
  <2>3. ASSUME NEW i \in 1..Len(ssQueue'), ssQueue'[i].kind = "attached", ssQueue'[i].n = g
        PROVE  FALSE
    <3>1. ssQueue[i + 1].kind = "attached" /\ ssQueue[i + 1].n = g /\ i + 1 \in 1..Len(ssQueue)
      BY <1>5, <2>3
    <3> QED
      BY <2>1, <3>1 DEF HInv, AttachedOnce
  <2> QED
    BY <2>2, <2>3 DEF Attaching
<1>7. ~Born(g) /\ ~Ending(g)
  BY <1>2, <1>6 DEF HInv, NotYetBorn, EndingBorn
<1> DEFINE n == Len(pcQueue)
<1>8. pcQueue \in Seq(PcTasks) /\ n \in Nat
  BY DEF TypeOK
<1> HIDE DEF e
<1>9. /\ Len(pcQueue') = n + 1
      /\ \A i \in 1..(n + 1) : \/ i \in 1..n /\ pcQueue'[i] = pcQueue[i]
                               \/ i = n + 1 /\ pcQueue'[i] = e
      /\ \A i \in 1..n : pcQueue'[i] = pcQueue[i]
      /\ pcQueue'[n + 1] = e
  BY <1>2, <1>3, <1>8, AppendFacts
<1>10. \A h \in Handles : Telling(h)' <=> Telling(h) \/ h = g
  BY <1>2, <1>8, <1>9 DEF Telling
<1>11. \A h \in Handles : Born(h)' <=> Born(h) \/ h = g
  BY <1>3, <1>10 DEF Born
<1>12. Unborn'
  <2> SUFFICES ASSUME NEW h \in Handles, owner[h] = 0 PROVE ~Attaching(h)' /\ ~Born(h)'
    BY <1>3 DEF Unborn
  <2>1. ~Attaching(h) /\ ~Born(h)
    BY DEF HInv, Unborn
  <2>2. h # g
    BY <1>6, <2>1
  <2> QED
    BY <1>4, <1>11, <2>1, <2>2 DEF SsQuiet
<1>13. NotYetBorn'
  BY <1>4, <1>6, <1>11 DEF HInv, SsQuiet, NotYetBorn
<1>14. ToldOnce'
  BY <1>3, <1>7, <1>10 DEF HInv, ToldOnce, Born
<1>15. AttachedOnce'
  BY <1>4 DEF HInv, SsQuiet
<1>16. TellingOnce'
  <2>1. \A i \in 1..n : pcQueue[i].kind = "attached" => pcQueue[i].n # g
    BY <1>7 DEF Born, Telling
  <2> QED
    BY <1>2, <1>8, <1>9, <2>1 DEF HInv, TellingOnce
<1>17. MappedBorn'
  BY <1>3, <1>11 DEF TypeOK, HInv, MappedBorn
<1>18. EndingBorn'
  BY <1>3, <1>4, <1>11 DEF HInv, EndingBorn, Ending, DetachAsked
<1>19. ToldFirst'
  <2> SUFFICES ASSUME NEW i \in 1..(n + 1), IsAbout(pcQueue'[i]), ~told[pcQueue'[i].n]
               PROVE  \E j \in 1..(i - 1) : /\ pcQueue'[j].kind = "attached"
                                            /\ pcQueue'[j].n = pcQueue'[i].n
    BY <1>3, <1>9 DEF ToldFirst, IsAbout
  <2>1. i \in 1..n /\ pcQueue'[i] = pcQueue[i]
    BY <1>2, <1>9 DEF IsAbout
  <2>2. PICK j \in 1..(i - 1) : pcQueue[j].kind = "attached" /\ pcQueue[j].n = pcQueue[i].n
    BY <2>1 DEF HInv, ToldFirst
  <2>3. pcQueue'[j] = pcQueue[j]
    BY <1>8, <1>9, <2>1
  <2> QED
    BY <2>1, <2>2, <2>3
<1>20. ErasedGone'
  <2> SUFFICES ASSUME NEW h \in Handles, erased[h] PROVE ~Handled(h)'
    BY <1>3 DEF ErasedGone
  <2>1. h # g
    BY <1>7 DEF Ending
  <2> QED
    BY <1>3, <2>1 DEF TypeOK, HInv, ErasedGone, Handled
<1>21. FoundFirst'
  <2> SUFFICES ASSUME found # 0
               PROVE  pcQueue' # <<>> /\ IsAbout(Head(pcQueue')) /\ Head(pcQueue').n = found
    BY <1>3 DEF FoundFirst, IsAbout
  <2>1. pcQueue # <<>> /\ IsAbout(Head(pcQueue)) /\ Head(pcQueue).n = found
    BY DEF HInv, FoundFirst
  <2>2. Head(pcQueue') = Head(pcQueue) /\ pcQueue' # <<>>
    BY <1>3, <1>8, <2>1
  <2> QED
    BY <2>1, <2>2
<1>22. HeldFound'
  BY <1>3 DEF HInv, HeldFound
<1> QED
  BY <1>12, <1>13, <1>14, <1>15, <1>16, <1>17, <1>18, <1>19, <1>20, <1>21, <1>22 DEF HInv

LEMMA SsDetachedInv == ASSUME TypeOK, TypeOK', HInv, SsDetached PROVE HInv'
<1> DEFINE g == Head(ssQueue).n
<1>1. Head(ssQueue) \in SsTasks /\ Head(ssQueue).kind = "detached"
  BY SsTaken DEF SsDetached
<1>2. g \in Handles
  BY <1>1 DEF SsTasks
<1>3. /\ ssQueue # <<>>
      /\ pluginClientMap' = [pluginClientMap EXCEPT ![g] = "absent"]
      /\ erased' = [erased EXCEPT ![g] = TRUE]
      /\ UNCHANGED <<told, found, held, owner, pending, pcQueue>>
  BY DEF SsDetached, Take, SendNothing
<1>4. SsQuiet /\ \A h \in Handles : DetachAnswered(h)' => DetachAnswered(h)
  BY TakeQuiet DEF SsDetached
<1>5. DetachAnswered(g)
  <2>1. Head(ssQueue) = ssQueue[1] /\ 1 \in 1..Len(ssQueue)
    BY <1>3 DEF TypeOK
  <2> QED
    BY <1>1, <2>1 DEF DetachAnswered
<1> HIDE DEF g
<1>6. Born(g)
  BY <1>2, <1>5 DEF HInv, EndingBorn, Ending
<1>7. \A h \in Handles : (Telling(h)' <=> Telling(h)) /\ (Born(h)' <=> Born(h))
  BY <1>3 DEF Telling, Born
<1>8. Unborn' /\ NotYetBorn' /\ ToldOnce'
  BY <1>3, <1>4, <1>7 DEF HInv, SsQuiet, Unborn, NotYetBorn, ToldOnce
<1>9. AttachedOnce'
  BY <1>4 DEF HInv, SsQuiet
<1>10. TellingOnce' /\ ToldFirst' /\ FoundFirst' /\ HeldFound'
  BY <1>3 DEF HInv, TellingOnce, ToldFirst, IsAbout, FoundFirst, HeldFound
<1>11. MappedBorn'
  BY <1>3, <1>7 DEF TypeOK, HInv, MappedBorn
<1>12. \A h \in Handles : erased'[h] => erased[h] \/ h = g
  BY <1>3 DEF TypeOK
<1>13. EndingBorn'
  BY <1>3, <1>4, <1>6, <1>7, <1>12 DEF HInv, EndingBorn, Ending, DetachAsked
<1>14. ErasedGone'
  <2> SUFFICES ASSUME NEW h \in Handles, erased'[h] PROVE ~Handled(h)'
    BY DEF ErasedGone
  <2>1. CASE h = g
    BY <1>2, <1>3, <2>1, ClientsAssumption DEF TypeOK, Handled
  <2>2. CASE h # g
    BY <1>3, <1>12, <2>2 DEF TypeOK, HInv, ErasedGone, Handled
  <2> QED
    BY <2>1, <2>2
<1> QED
  BY <1>8, <1>9, <1>10, <1>11, <1>13, <1>14 DEF HInv

LEMMA SsStepInv == ASSUME TypeOK, TypeOK', HInv, SsStep PROVE HInv'
<1> DEFINE t == Head(ssQueue)
<1>1. CASE SsOpened
  <2>1. PcGrows /\ \A h \in Handles : DetachAsked(h)' => DetachAsked(h)
    BY <1>1, PcSame, SentAsks DEF SsOpened
  <2> QED
    BY <1>1, <2>1, ServedStep DEF SsOpened
<1>2. CASE SsDown
  <2>1. PcGrows /\ \A h \in Handles : DetachAsked(h)' => DetachAsked(h)
    BY <1>2, PcSame, SentNothingAsks DEF SsDown
  <2> QED
    BY <1>2, <2>1, ServedStep DEF SsDown
<1>3. CASE SsCreated
  <2>1. Task("setConnected", 0, Nobody) \in PcTasks /\ Task("setConnected", 0, Nobody).kind = "setConnected"
    BY DEF Task, PcTasks
  <2>2. PcGrows
    BY <1>3, <2>1, PostGrows DEF SsCreated, Post, IsAbout
  <2>3. \A h \in Handles : DetachAsked(h)' => DetachAsked(h)
    BY <1>3, SentNothingAsks DEF SsCreated
  <2> QED
    BY <1>3, <2>2, <2>3, ServedStep DEF SsCreated
<1>4. CASE SsAttach
  <2>1. PcGrows /\ \A h \in Handles : DetachAsked(h)' => DetachAsked(h)
    BY <1>4, PcSame, SentAsks DEF SsAttach
  <2> QED
    BY <1>4, <2>1, ServedStep DEF SsAttach
<1>5. CASE SsRefused
  <2>1. t.who \in Clients
    BY <1>5, SsTaken DEF SsRefused, SsTasks
  <2>2. Task("refused", 0, t.who) \in PcTasks /\ Task("refused", 0, t.who).kind = "refused"
    BY <2>1 DEF Task, PcTasks
  <2>3. PcGrows
    BY <1>5, <2>2, PostGrows DEF SsRefused, Post, IsAbout
  <2>4. \A h \in Handles : DetachAsked(h)' => DetachAsked(h)
    BY <1>5, SentNothingAsks DEF SsRefused
  <2> QED
    BY <1>5, <2>3, <2>4, ServedStep DEF SsRefused
<1>6. ASSUME NEW kind \in {"message", "hangup"}, SsRequest(kind) PROVE HInv'
  <2>1. PcGrows
    BY <1>6, PcSame DEF SsRequest
  <2>2. \A h \in Handles : DetachAsked(h)' => DetachAsked(h)
    <3>1. CASE Handled(t.n)
      BY <1>6, <3>1, SentAsks DEF SsRequest
    <3>2. CASE ~Handled(t.n)
      BY <1>6, <3>2, SentNothingAsks DEF SsRequest
    <3> QED
      BY <3>1, <3>2
  <2> QED
    BY <1>6, <2>1, <2>2, ServedStep DEF SsRequest
<1>7. CASE SsTrickle
  <2>1. PcGrows /\ \A h \in Handles : DetachAsked(h)' => DetachAsked(h)
    BY <1>7, PcSame, SentAsks DEF SsTrickle
  <2> QED
    BY <1>7, <2>1, ServedStep DEF SsTrickle
<1>8. CASE SsMessaged
  <2>1. t.who \in Messages
    BY <1>8, SsTaken DEF SsMessaged, SsTasks
  <2>2. Task("callback", 0, t.who) \in PcTasks /\ Task("callback", 0, t.who).kind = "callback"
    BY <2>1 DEF Task, PcTasks
  <2>3. PcGrows
    BY <1>8, <2>2, PostGrows DEF SsMessaged, Post, IsAbout
  <2>4. \A h \in Handles : DetachAsked(h)' => DetachAsked(h)
    BY <1>8, SentNothingAsks DEF SsMessaged
  <2> QED
    BY <1>8, <2>3, <2>4, ServedStep DEF SsMessaged
<1>9. \A h \in Handles : Handled(h) => Born(h)
  BY ClientsAssumption DEF HInv, MappedBorn, Handled
<1>10. CASE SsDetach
  <2>1. CASE Handled(t.n)
    <3>1. t.n \in Handles /\ Born(t.n) /\ Post("cleanup", t.n, Nobody)
      BY <1>9, <1>10, <2>1 DEF SsDetach, Handled
    <3>2. /\ Task("cleanup", t.n, Nobody) \in PcTasks
          /\ Task("cleanup", t.n, Nobody).kind = "cleanup" /\ Task("cleanup", t.n, Nobody).n = t.n
      BY <3>1 DEF Task, PcTasks
    <3>3. PcGrows
      BY <3>1, <3>2, PostGrows DEF Post
    <3>4. \A h \in Handles : DetachAsked(h)' => DetachAsked(h) \/ h = t.n
      <4>1. CASE connected
        BY <1>10, <2>1, <4>1, SentAsks DEF SsDetach
      <4>2. CASE ~connected
        BY <1>10, <2>1, <4>2, SentNothingAsks DEF SsDetach
      <4> QED
        BY <4>1, <4>2
    <3> QED
      BY <1>10, <3>1, <3>3, <3>4, ServedStep DEF SsDetach
  <2>2. CASE ~Handled(t.n)
    <3>1. PcGrows /\ \A h \in Handles : DetachAsked(h)' => DetachAsked(h)
      BY <1>10, <2>2, PcSame, SentNothingAsks DEF SsDetach
    <3> QED
      BY <1>10, <3>1, ServedStep DEF SsDetach
  <2> QED
    BY <2>1, <2>2
<1>12. CASE SsEnd
  <2>1. PcGrows
    <3>1. CASE sessionId = 0
      BY <1>12, <3>1, PcSame DEF SsEnd
    <3>2. CASE sessionId # 0
      BY <1>9, <1>12, <3>2, RemoveGrows DEF SsEnd
    <3> QED
      BY <3>1, <3>2
  <2>2. \A h \in Handles : DetachAsked(h)' => DetachAsked(h)
    <3>1. CASE sessionId # 0 /\ connected
      BY <1>12, <3>1, SentAsks DEF SsEnd
    <3>2. CASE ~(sessionId # 0 /\ connected)
      BY <1>12, <3>2, SentNothingAsks DEF SsEnd
    <3> QED
      BY <3>1, <3>2
  <2> QED
    BY <1>12, <2>1, <2>2, ServedStep DEF SsEnd
<1>13. CASE SsDestroyed
  <2>1. PcGrows /\ \A h \in Handles : DetachAsked(h)' => DetachAsked(h)
    BY <1>13, PcSame, SentNothingAsks DEF SsDestroyed
  <2> QED
    BY <1>13, <2>1, ServedStep DEF SsDestroyed
<1>14. CASE SsEvent
  <2>1. PcGrows
    <3>1. CASE Handled(t.n)
      <4>1. t.n \in Handles /\ Born(t.n)
        BY <1>9, <3>1 DEF Handled
      <4>2. /\ Task("deliver", t.n, Nobody) \in PcTasks
            /\ Task("deliver", t.n, Nobody).kind = "deliver" /\ Task("deliver", t.n, Nobody).n = t.n
        BY <4>1 DEF Task, PcTasks
      <4> QED
        BY <1>14, <3>1, <4>1, <4>2, PostGrows DEF SsEvent, Post
    <3>2. CASE ~Handled(t.n)
      BY <1>14, <3>2, PcSame DEF SsEvent
    <3> QED
      BY <3>1, <3>2
  <2>2. \A h \in Handles : DetachAsked(h)' => DetachAsked(h)
    BY <1>14, SentNothingAsks DEF SsEvent
  <2> QED
    BY <1>14, <2>1, <2>2, ServedStep DEF SsEvent
<1> QED
  BY <1>1, <1>2, <1>3, <1>4, <1>5, <1>6, <1>7, <1>8, <1>10, <1>12, <1>13, <1>14,
     SsAttachedInv, SsDetachedInv DEF SsStep

\* What the three tasks about no handle, and those about one, change.
LEMMA PcStepInv == ASSUME TypeOK, TypeOK', HInv, PcStep PROVE HInv'
<1> DEFINE t == Head(pcQueue)
<1>1. CASE PcSetConnected \/ PcRefused \/ PcCallback
  <2>1. /\ pcQueue # <<>> /\ pcQueue' = Tail(pcQueue) /\ t.kind # "attached" /\ ~IsAbout(t)
        /\ UNCHANGED <<ssQueue, pending, erased, owner, told, pluginClientMap, found, held>>
    BY <1>1 DEF PcSetConnected, PcRefused, PcCallback, PcTake, IsAbout, serverVars
  <2>2. found = 0 /\ held = Nobody
    BY <2>1 DEF HInv, FoundFirst, HeldFound
  <2> QED
    BY <2>1, <2>2, PopStep DEF Handled
<1>2. CASE PcAttached
  <2>1. /\ pcQueue # <<>> /\ pcQueue' = Tail(pcQueue) /\ t.kind = "attached" /\ ~IsAbout(t)
        /\ told' = [told EXCEPT ![t.n] = TRUE]
        /\ UNCHANGED <<ssQueue, pending, erased, owner, pluginClientMap, found, held>>
    BY <1>2 DEF PcAttached, PcTake, IsAbout, serverVars
  <2>2. found = 0 /\ held = Nobody
    BY <2>1 DEF HInv, FoundFirst, HeldFound
  <2>3. \A h \in Handles : told'[h] <=> told[h] \/ t.n = h
    BY <2>1 DEF TypeOK
  <2> QED
    BY <2>1, <2>2, <2>3, PopStep DEF Handled
<1>3. CASE PcFind \/ PcFetch
  <2>1. pcQueue # <<>> /\ IsAbout(t) /\ t.kind # "attached"
    BY <1>3 DEF PcFind, PcFetch, LooksUp, IsAbout
  <2>2. UNCHANGED <<ssQueue, pending, erased, owner, told>>
    BY <1>3 DEF PcFind, PcFetch, serverVars, historyVars
  <2>3. \A h \in Handles : /\ pluginClientMap'[h] # "absent" => pluginClientMap[h] # "absent" \/ h = t.n
                           /\ Handled(h)' => Handled(h)
    <3>1. CASE PcFind
      BY <3>1 DEF PcFind, Handled
    <3>2. CASE PcFetch
      <4>1. found = t.n /\ found \in Handles /\ pluginClientMap' = Fetched
        BY <3>2, FetchedTyped DEF HInv, FoundFirst, PcFetch
      <4> QED
        BY <4>1, ClientsAssumption DEF TypeOK, Fetched, Handled
    <3> QED
      BY <1>3, <3>1, <3>2
  <2>4. CASE pcQueue' = Tail(pcQueue) /\ found' = 0 /\ held' = Nobody
    BY <2>1, <2>2, <2>3, <2>4, PopStep
  <2>5. CASE pcQueue' = pcQueue /\ found' = t.n /\ found' # 0 /\ pluginClientMap' = pluginClientMap
    <3>1. FoundFirst' /\ HeldFound'
      BY <2>1, <2>5 DEF FoundFirst, HeldFound, IsAbout
    <3>2. \A h \in Handles : /\ Attaching(h)' <=> Attaching(h)
                             /\ Telling(h)' <=> Telling(h)
                             /\ Born(h)' <=> Born(h)
                             /\ Ending(h)' <=> Ending(h)
      BY <2>2, <2>5 DEF Attaching, Telling, Born, Ending, DetachAsked, DetachAnswered
    <3>3. Unborn' /\ NotYetBorn' /\ ToldOnce' /\ MappedBorn' /\ EndingBorn'
      BY <2>2, <2>5, <3>2 DEF HInv, Unborn, NotYetBorn, ToldOnce, MappedBorn, EndingBorn
    <3>4. AttachedOnce' /\ TellingOnce' /\ ToldFirst' /\ ErasedGone'
      BY <2>2, <2>5 DEF HInv, AttachedOnce, TellingOnce, ToldFirst, IsAbout, ErasedGone, Handled
    <3> QED
      BY <3>1, <3>3, <3>4 DEF HInv
  <2>6. CASE PcFind
    <3>1. found = 0 /\ held = Nobody /\ t.n \in Handles
      BY <2>1, <2>6, AboutHandle DEF PcFind, PcIdle, HInv, HeldFound, TypeOK
    <3>2. CASE pluginClientMap[t.n] = "absent"
      BY <2>4, <2>6, <3>1, <3>2 DEF PcFind
    <3>3. CASE pluginClientMap[t.n] # "absent"
      BY <2>5, <2>6, <3>1, <3>3, Bounds DEF PcFind, Handles
    <3> QED
      BY <3>2, <3>3
  <2>7. CASE PcFetch
    <3>1. found = t.n /\ found # 0 /\ held = Nobody
      BY <2>7 DEF HInv, FoundFirst, PcFetch
    <3>2. CASE Handled(found)
      <4>1. pluginClientMap' = pluginClientMap
        BY <2>7, <3>2, ClientsAssumption DEF PcFetch, Fetched, Handled
      <4> QED
        BY <2>5, <2>7, <3>1, <3>2, <4>1 DEF PcFetch
    <3>3. CASE ~Handled(found)
      BY <2>4, <2>7, <3>1, <3>3 DEF PcFetch
    <3> QED
      BY <3>2, <3>3
  <2> QED
    BY <1>3, <2>6, <2>7
<1>4. CASE PcDeliver \/ PcCleanup
  <2>1. /\ pcQueue # <<>> /\ pcQueue' = Tail(pcQueue) /\ t.kind # "attached"
        /\ found' = 0 /\ held' = Nobody
        /\ UNCHANGED <<ssQueue, pending, erased, owner, told, pluginClientMap>>
    BY <1>4 DEF PcDeliver, PcCleanup, PcCalls, PcTake, serverVars
  <2> QED
    BY <2>1, PopStep DEF Handled
<1> QED
  BY <1>1, <1>2, <1>3, <1>4 DEF PcStep

-----------------------------------------------------------------------------
(* The theorems.                                                           *)

LEMMA InitType == ASSUME Init PROVE TypeOK
<1>1. ssQueue \in Seq(SsTasks) /\ pcQueue \in Seq(PcTasks)
  BY DEF Init
<1>2. pending \subseteq Requests
  BY DEF Init
<1>3. budget \in [calls : Nat, events : Nat]
  BY DEF Init
<1>4. /\ up \in [Connections -> {"None", "Connecting", "Open", "Down"}]
      /\ owner \in [Handles -> Nat]
      /\ pluginClientMap \in [Handles -> Clients \cup {"absent", "expired"}]
      /\ handleId \in [Clients -> 0..MaxHandle]
      /\ peer \in [Clients -> BOOLEAN]
  BY Bounds DEF Init
<1>5. /\ told \in [Handles -> BOOLEAN]
      /\ heard \in [Handles -> Nat]
      /\ erased \in [Handles -> BOOLEAN]
      /\ runs \in [Messages -> Nat]
  BY DEF Init
<1>6. /\ conn \in 0..MaxConn /\ asked \in Nat /\ sessions \in Nat
      /\ found \in 0..MaxHandle /\ held \in Clients \cup {Nobody} /\ sessionId \in Nat
      /\ sessionStatus \in {"CONNECTED", "DISCONNECTED"}
  BY Bounds DEF Init
<1>7. /\ waiting \in BOOLEAN /\ connected \in BOOLEAN /\ listening \in BOOLEAN
      /\ destroying \in BOOLEAN /\ late \in BOOLEAN
  BY DEF Init
<1> QED
  BY <1>1, <1>2, <1>3, <1>4, <1>5, <1>6, <1>7 DEF TypeOK

LEMMA InitInv == ASSUME Init PROVE HInv
<1>1. Len(ssQueue) = 0 /\ Len(pcQueue) = 0 /\ pending = {}
  BY DEF Init
<1>2. \A h \in Handles : ~Attaching(h) /\ ~Born(h) /\ ~Ending(h)
  BY <1>1 DEF Init, Attaching, Telling, Born, Ending, DetachAsked, DetachAnswered
<1>3. Unborn /\ NotYetBorn /\ ToldOnce /\ AttachedOnce /\ TellingOnce
  BY <1>1, <1>2 DEF Init, Unborn, NotYetBorn, ToldOnce, AttachedOnce, TellingOnce
<1>4. MappedBorn /\ EndingBorn /\ ToldFirst /\ ErasedGone /\ FoundFirst /\ HeldFound
  BY <1>1, <1>2 DEF Init, MappedBorn, EndingBorn, ToldFirst, ErasedGone, FoundFirst,
     HeldFound
<1> QED
  BY <1>3, <1>4 DEF HInv

LEMMA StutterType == ASSUME TypeOK, UNCHANGED vars PROVE TypeOK'
BY DEF vars, TypeOK, serverVars, sessionVars, clientVars, historyVars

LEMMA StutterInv == ASSUME HInv, UNCHANGED vars PROVE HInv'
<1>1. UNCHANGED <<ssQueue, pcQueue, pending, owner, told, erased, pluginClientMap, found, held>>
  BY DEF vars, serverVars, historyVars
<1> QED
  BY <1>1 DEF HInv, Unborn, NotYetBorn, ToldOnce, AttachedOnce, TellingOnce, MappedBorn, EndingBorn,
     ToldFirst, ErasedGone, FoundFirst, HeldFound, Attaching, Telling, Born, Ending, DetachAsked,
     DetachAnswered, IsAbout, Handled

\* What every reachable state of the session satisfies: the types, and where in
\* its life each handle is (signaling_client.cpp:88-110, 226-260, 446-454).
THEOREM SessionInvariance == Spec => [](TypeOK /\ HInv)
<1>1. Init => TypeOK /\ HInv
  BY InitType, InitInv
<1>2. TypeOK /\ HInv /\ [Next]_vars => (TypeOK /\ HInv)'
  <2> SUFFICES ASSUME TypeOK, HInv, [Next]_vars
               PROVE  TypeOK' /\ HInv'
    OBVIOUS
  <2>1. CASE UNCHANGED vars
    BY <2>1, StutterType, StutterInv
  <2>2. CASE Next
    <3>1. TypeOK'
      BY <2>2, NextType
    <3> QED
      BY <2>2, <3>1, EnvironmentInv, ClientInv, SsStepInv, PcStepInv DEF Next
  <2> QED
    BY <2>1, <2>2
<1> QED
  BY <1>1, <1>2, PTL DEF Spec

\* Type correctness of the session: ids and handles stay in the ranges of their
\* types, and every task and request has the arguments of its kind
\* (signaling_client.h, signaling_client.cpp).
THEOREM SessionTypeCorrect == Spec => []TypeOK
<1> QED
  BY SessionInvariance, PTL

-----------------------------------------------------------------------------
(* The session.  It is there from the first reply to create on, so every    *)
(* call, which is made in a session, is served in one, and the handles it   *)
(* names were given out in one.                                             *)

InSs == {ssQueue[i] : i \in 1..Len(ssQueue)}
InPc == {pcQueue[i] : i \in 1..Len(pcQueue)}
CallKinds == {"attach", "message", "hangup", "trickle", "detach"}

\* The handle was given out, in a session.
Owned(h) == h \in Handles /\ owner[h] # 0

SessionThere ==
    /\ sessionId <= sessions
    /\ sessionStatus = "CONNECTED" => sessionId # 0
    /\ \A h \in Handles : owner[h] <= sessions
    /\ \A p \in Clients : peer[p] => handleId[p] # 0

TasksInSession ==
    \A t \in InSs :
        /\ t.kind = "created" => t.n \in 1..sessions
        /\ t.kind \in CallKinds => sessionId # 0
        /\ t.kind = "trickle" => Owned(t.n)

\* On any connections: a session takes one that was open, and _connected goes
\* with the session until one is down.
ConnectionsInv ==
    /\ \A c \in Connections : c > conn => up[c] = "None"
    /\ sessions # 0 => \E c \in Connections : up[c] \in {"Open", "Down"}
    /\ connected \/ (\E t \in InPc : t.kind = "setConnected") => sessionId # 0
    /\ (\A c \in Connections : up[c] # "Down") =>
          /\ \A t \in InSs : t.kind # "down"
          /\ sessionId # 0 => connected \/ \E t \in InPc : t.kind = "setConnected"

\* Once the only connection is down, its last task is the one that says so, and
\* when that has run nothing is left that sets _connected.
DownQueued ==
    \E i \in 1..Len(ssQueue) :
        /\ ssQueue[i].kind = "down"
        /\ \A j \in 1..Len(ssQueue) : ssQueue[j].kind = "created" => j < i
DownNoted ==
    /\ \A t \in InSs : t.kind # "created"
    /\ \A t \in InPc : t.kind # "setConnected"
    /\ ~connected
DownInv ==
    conn = 1 /\ up[1] = "Down" /\ listening /\ ~late => DownQueued \/ DownNoted

SInv ==
    /\ SessionThere /\ TasksInSession /\ RequestsInSession /\ ClientReachable
    /\ ConnectionsInv /\ DownInv

\* A message is in one place: a call or a reply, a request, or a callback that
\* is queued or has run.
Whos(q) == {q[i].who : i \in 1..Len(q)} \cap Messages
OnceIn(q) == \A i, j \in 1..Len(q) : q[i].who \in Messages /\ q[i].who = q[j].who => i = j
Wanted == {q.who : q \in pending} \cap Messages
WantedOnce == \A q, r \in pending : q.who \in Messages /\ q.who = r.who => q = r
Ran == {m \in Messages : runs[m] # 0}
Apart(calls, requests, callbacks, done) ==
    /\ calls \cap requests = {} /\ calls \cap callbacks = {} /\ requests \cap callbacks = {}
    /\ done \cap (calls \cup requests \cup callbacks) = {}
MInv ==
    /\ OnceIn(ssQueue) /\ OnceIn(pcQueue) /\ WantedOnce
    /\ Apart(Whos(ssQueue), Wanted, Whos(pcQueue), Ran)
    /\ \A m \in Messages : runs[m] <= 1

-----------------------------------------------------------------------------
(* What a queue holds after a step.                                         *)

LEMMA SsAdds ==
    ASSUME TypeOK, NEW e \in SsTasks, ssQueue' = Append(ssQueue, e)
    PROVE  InSs' = InSs \cup {e}
<1>1. ssQueue \in Seq(SsTasks)
  BY DEF TypeOK
<1>2. /\ Len(ssQueue') = Len(ssQueue) + 1 /\ Len(ssQueue) \in Nat
      /\ \A i \in 1..Len(ssQueue) : ssQueue'[i] = ssQueue[i]
      /\ ssQueue'[Len(ssQueue) + 1] = e
  BY <1>1
<1> QED
  BY <1>2 DEF InSs

LEMMA SsDrops ==
    ASSUME TypeOK, NEW kind, Take(kind)
    PROVE  InSs = InSs' \cup {Head(ssQueue)} /\ Head(ssQueue).kind = kind
<1>1. /\ Len(ssQueue') = Len(ssQueue) - 1 /\ Len(ssQueue) \in Nat \ {0}
      /\ Head(ssQueue) = ssQueue[1]
      /\ \A i \in 1..Len(ssQueue') : ssQueue'[i] = ssQueue[i + 1] /\ i + 1 \in 1..Len(ssQueue)
  BY TailFacts DEF Take
<1>2. \A i \in 1..Len(ssQueue) : i = 1 \/ (i - 1 \in 1..Len(ssQueue') /\ ssQueue'[i - 1] = ssQueue[i])
  BY <1>1
<1>3. InSs' \subseteq InSs
  BY <1>1 DEF InSs
<1>4. \A i \in 1..Len(ssQueue) : ssQueue[i] \in InSs' \cup {Head(ssQueue)}
  BY <1>1, <1>2 DEF InSs
<1>5. Head(ssQueue) \in InSs
  BY <1>1 DEF InSs
<1> QED
  BY <1>3, <1>4, <1>5 DEF InSs, Take

LEMMA PcAdds ==
    ASSUME TypeOK, NEW e \in PcTasks, pcQueue' = Append(pcQueue, e)
    PROVE  InPc' = InPc \cup {e}
<1>1. pcQueue \in Seq(PcTasks)
  BY DEF TypeOK
<1>2. /\ Len(pcQueue') = Len(pcQueue) + 1 /\ Len(pcQueue) \in Nat
      /\ \A i \in 1..Len(pcQueue) : pcQueue'[i] = pcQueue[i]
      /\ pcQueue'[Len(pcQueue) + 1] = e
  BY <1>1
<1> QED
  BY <1>2 DEF InPc

LEMMA PcDrops ==
    ASSUME TypeOK, pcQueue # <<>>, pcQueue' = Tail(pcQueue)
    PROVE  InPc = InPc' \cup {Head(pcQueue)}
<1>1. /\ Len(pcQueue') = Len(pcQueue) - 1 /\ Len(pcQueue) \in Nat \ {0}
      /\ Head(pcQueue) = pcQueue[1]
      /\ \A i \in 1..Len(pcQueue') : pcQueue'[i] = pcQueue[i + 1] /\ i + 1 \in 1..Len(pcQueue)
  BY DEF TypeOK
<1>2. \A i \in 1..Len(pcQueue) : i = 1 \/ (i - 1 \in 1..Len(pcQueue') /\ pcQueue'[i - 1] = pcQueue[i])
  BY <1>1
<1> QED
  BY <1>1, <1>2 DEF InPc

LEMMA PcCleansUp ==
    ASSUME TypeOK, NEW hs \in SUBSET Handles, RemoveLocally(hs)
    PROVE  /\ Len(pcQueue) \in Nat /\ Len(pcQueue') \in Nat /\ Len(pcQueue) <= Len(pcQueue')
           /\ \A i \in 1..Len(pcQueue) : pcQueue'[i] = pcQueue[i]
           /\ \A i \in 1..Len(pcQueue') :
                 \/ i \in 1..Len(pcQueue)
                 \/ pcQueue'[i].kind = "cleanup" /\ pcQueue'[i].who = Nobody
<1> DEFINE c == Cardinality(hs)
<1>1. PICK order \in [1..c -> hs] :
         pcQueue' = pcQueue \o [i \in 1..c |-> Task("cleanup", order[i], Nobody)]
  BY DEF RemoveLocally
<1>2. c \in Nat
  BY CardinalityOfHandles
<1> DEFINE new == [i \in 1..c |-> Task("cleanup", order[i], Nobody)]
<1>3. new \in Seq(PcTasks) /\ Len(new) = c
  <2>1. \A h \in hs : Task("cleanup", h, Nobody) \in PcTasks
    BY DEF Task, PcTasks
  <2> QED
    BY <1>2, <2>1
<1>4. pcQueue' = pcQueue \o new
  BY <1>1
<1>5. \A i \in 1..c : new[i].kind = "cleanup" /\ new[i].who = Nobody
  BY DEF Task
<1> HIDE DEF new
<1>6. pcQueue \in Seq(PcTasks) /\ Len(pcQueue) \in Nat
  BY DEF TypeOK
<1>7. /\ Len(pcQueue') = Len(pcQueue) + c
      /\ \A i \in 1..(Len(pcQueue) + c) :
            pcQueue'[i] = IF i <= Len(pcQueue) THEN pcQueue[i] ELSE new[i - Len(pcQueue)]
  BY <1>3, <1>4, <1>6, ConcatProperties
<1>8. \A i \in 1..Len(pcQueue) : pcQueue'[i] = pcQueue[i]
  BY <1>2, <1>6, <1>7
<1>9. \A i \in 1..Len(pcQueue') : \/ i \in 1..Len(pcQueue)
                                  \/ i - Len(pcQueue) \in 1..c /\ pcQueue'[i] = new[i - Len(pcQueue)]
  BY <1>2, <1>6, <1>7
<1>10. Len(pcQueue') \in Nat /\ Len(pcQueue) <= Len(pcQueue')
  BY <1>2, <1>6, <1>7
<1> QED
  BY <1>5, <1>6, <1>8, <1>9, <1>10

-----------------------------------------------------------------------------
(* The parts a step leaves alone.                                           *)

LEMMA OutsideLeaves ==
    ASSUME TypeOK, Environment \/ ClientStep
    PROVE  UNCHANGED <<pcQueue, connected, sessionStatus, sessionId, listening, pluginClientMap,
                       handleId, told, erased, runs, late>>
BY DEF Environment, Connect, ConnectionUp, ConnectionDown, ReplyCreate, ReplyAttach, ReplyRefused,
   ReplyOther, Reply, Lose, ServerEvent, Destroy, ClientStep, CallAttach, CallHangup, CallDetach,
   CallTrickle, OpenPeer, CallMessage, Call, sessionVars, clientVars, historyVars

LEMMA ServiceLeaves ==
    ASSUME TypeOK, SsStep
    PROVE  UNCHANGED <<up, conn, sessions, owner, peer, runs>>
BY DEF SsStep, SsOpened, SsDown, SsCreated, SsAttach, SsAttached, SsRefused, SsRequest, SsTrickle,
   SsMessaged, SsDetach, SsDetached, SsEnd, SsDestroyed, SsEvent, Take

LEMMA ClientThreadLeaves ==
    ASSUME TypeOK, PcStep
    PROVE  UNCHANGED <<up, conn, pending, sessions, owner, ssQueue, sessionStatus, sessionId,
                       listening, handleId, erased, late>>
BY DEF PcStep, PcSetConnected, PcAttached, PcRefused, PcCallback, PcFind, PcFetch, PcDeliver, PcCleanup,
   PcCalls, LooksUp, PcTake, serverVars, sessionVars, clientVars, historyVars

-----------------------------------------------------------------------------
(* ClientReachable: a handle that a client calls with was born, and a reply *)
(* to attach brings one that was not.                                       *)

LEMMA ReachedBorn ==
    ASSUME TypeOK, HInv, ClientReachable, NEW p \in Clients, handleId[p] # 0
    PROVE  handleId[p] \in Handles /\ Born(handleId[p]) /\ Owned(handleId[p])
<1>1. handleId[p] \in Handles
  BY Bounds DEF TypeOK, Handles
<1>2. pluginClientMap[handleId[p]] # "absent" \/ erased[handleId[p]]
  BY ClientsAssumption DEF ClientReachable
<1>3. Born(handleId[p])
  BY <1>1, <1>2 DEF HInv, MappedBorn, EndingBorn, Ending
<1> QED
  BY <1>1, <1>3 DEF HInv, Unborn, Owned

LEMMA AttachedReachable ==
    ASSUME TypeOK, HInv, ClientReachable, SsAttached
    PROVE  ClientReachable'
<1>1. PICK h, who : h = Head(ssQueue).n /\ who = Head(ssQueue).who
  OBVIOUS
<1>2. Head(ssQueue) \in SsTasks /\ Head(ssQueue).kind = "attached"
  BY SsTaken DEF SsAttached
<1>3. h \in Handles /\ who \in Clients
  BY <1>1, <1>2 DEF SsTasks
<1>4. Attaching(h)
  <2>1. 1 \in 1..Len(ssQueue) /\ Head(ssQueue) = ssQueue[1]
    BY DEF TypeOK, SsAttached, Take
  <2> QED
    BY <1>1, <1>2, <2>1 DEF Attaching
<1>5. ~Born(h)
  BY <1>3, <1>4 DEF HInv, NotYetBorn
<1>6. /\ handleId' = [handleId EXCEPT ![who] = h] /\ erased' = erased
      /\ pluginClientMap' = [pluginClientMap EXCEPT ![h] = who]
  BY <1>1 DEF SsAttached, Adopt
<1> SUFFICES ASSUME NEW p \in Clients, handleId'[p] # 0
             PROVE  pluginClientMap'[handleId'[p]] = p \/ erased'[handleId'[p]]
  BY DEF ClientReachable
<1>7. CASE p = who
  BY <1>3, <1>6, <1>7 DEF TypeOK
<1>8. CASE p # who
  <2>1. handleId'[p] = handleId[p]
    BY <1>3, <1>6, <1>8 DEF TypeOK
  <2>2. handleId[p] # h /\ handleId[p] \in Handles
    BY <1>5, <2>1, ReachedBorn
  <2> QED
    BY <1>6, <2>1, <2>2 DEF TypeOK, ClientReachable
<1> QED
  BY <1>7, <1>8

LEMMA DetachedReachable ==
    ASSUME TypeOK, ClientReachable, SsDetached
    PROVE  ClientReachable'
<1>1. PICK h : h = Head(ssQueue).n
  OBVIOUS
<1>2. h \in Handles
  BY <1>1, SsTaken DEF SsDetached, SsTasks
<1>3. /\ handleId' = handleId /\ erased' = [erased EXCEPT ![h] = TRUE]
      /\ pluginClientMap' = [pluginClientMap EXCEPT ![h] = "absent"]
  BY <1>1 DEF SsDetached
<1> QED
  BY <1>2, <1>3 DEF TypeOK, ClientReachable

LEMMA FetchedReachable ==
    ASSUME TypeOK, ClientReachable, found # 0, pluginClientMap' = Fetched,
           UNCHANGED <<handleId, erased>>
    PROVE  ClientReachable'
<1>1. found \in Handles
  BY FetchedTyped
<1>2. \A h \in Handles : pluginClientMap[h] \in Clients => pluginClientMap'[h] = pluginClientMap[h]
  BY <1>1, ClientsAssumption DEF TypeOK, Fetched
<1>3. \A p \in Clients : handleId[p] # 0 => handleId[p] \in Handles
  BY Bounds DEF TypeOK, Handles
<1> QED
  BY <1>2, <1>3 DEF ClientReachable

LEMMA SameReachable ==
    ASSUME ClientReachable, UNCHANGED <<handleId, erased, pluginClientMap>>
    PROVE  ClientReachable'
BY DEF ClientReachable

LEMMA ReachableStep ==
    ASSUME TypeOK, HInv, ClientReachable, Next
    PROVE  ClientReachable'
<1>1. CASE Environment \/ ClientStep
  BY <1>1, OutsideLeaves, SameReachable
<1>2. CASE SsStep /\ ~SsAttached /\ ~SsDetached
  <2>1. UNCHANGED <<handleId, erased, pluginClientMap>>
    BY <1>2 DEF SsStep, SsOpened, SsDown, SsCreated, SsAttach, SsRefused, SsRequest, SsTrickle,
       SsMessaged, SsDetach, SsEnd, SsDestroyed, SsEvent
  <2> QED
    BY <2>1, SameReachable
<1>3. CASE PcStep /\ ~PcFetch
  <2>1. UNCHANGED <<handleId, erased, pluginClientMap>>
    BY <1>3 DEF PcStep, PcSetConnected, PcAttached, PcRefused, PcCallback, PcFind, PcDeliver,
       PcCleanup, PcCalls, PcTake, clientVars, historyVars
  <2> QED
    BY <2>1, SameReachable
<1>4. CASE PcFetch
  <2>1. found # 0 /\ pluginClientMap' = Fetched /\ UNCHANGED <<handleId, erased>>
    BY <1>4 DEF PcFetch, clientVars, historyVars
  <2> QED
    BY <2>1, FetchedReachable
<1> QED
  BY <1>1, <1>2, <1>3, <1>4, AttachedReachable, DetachedReachable DEF Next

-----------------------------------------------------------------------------
(* SessionThere, TasksInSession and RequestsInSession: what a step may add.  *)

TaskInSession(t) ==
    /\ t.kind = "created" => t.n \in 1..sessions'
    /\ t.kind \in CallKinds => sessionId # 0
    /\ t.kind = "trickle" => Owned(t.n)

RequestInSession(q) ==
    q.kind # "create" =>
        /\ q.session = sessionId /\ sessionId # 0
        /\ q.kind \notin {"attach", "destroy"} => Owned(q.handle)

OwnersGrow ==
    /\ sessions <= sessions'
    /\ \A h \in Handles : owner'[h] = owner[h] \/ (owner[h] = 0 /\ owner'[h] \in 1..sessions)

SessionParts == SessionThere /\ TasksInSession /\ RequestsInSession

LEMMA SessionStep ==
    ASSUME TypeOK, TypeOK', SessionParts, OwnersGrow,
           sessionId' = sessionId \/ sessionId' \in 1..sessions,
           sessionStatus' = "CONNECTED" => sessionStatus = "CONNECTED" \/ sessionId' # 0,
           \A p \in Clients : peer'[p] => handleId'[p] # 0,
           \A t \in InSs' : t \in InSs \/ TaskInSession(t),
           \A q \in pending' : q \in pending \/ RequestInSession(q)
    PROVE  SessionParts'
<1>1. sessions \in Nat /\ sessions' \in Nat /\ sessionId \in Nat /\ sessions <= sessions'
  BY DEF TypeOK, OwnersGrow
<1>2. sessionId # 0 => sessionId' # 0
  BY <1>1
<1>3. \A h \in Handles : owner[h] \in Nat /\ owner'[h] \in Nat
  BY DEF TypeOK
<1>4. \A h : Owned(h) => owner'[h] = owner[h] /\ Owned(h)'
  BY DEF OwnersGrow, Owned
<1>5. SessionThere'
  <2>1. sessionId' <= sessions'
    BY <1>1 DEF SessionParts, SessionThere
  <2>2. \A h \in Handles : owner'[h] <= sessions'
    BY <1>1, <1>3 DEF SessionParts, SessionThere, OwnersGrow
  <2>3. sessionStatus' = "CONNECTED" => sessionId' # 0
    BY <1>2 DEF SessionParts, SessionThere
  <2> QED
    BY <2>1, <2>2, <2>3 DEF SessionThere
<1>6. TasksInSession'
  <2> SUFFICES ASSUME NEW t \in InSs'
               PROVE  /\ t.kind = "created" => t.n \in 1..sessions'
                      /\ t.kind \in CallKinds => sessionId' # 0
                      /\ t.kind = "trickle" => Owned(t.n)'
    BY DEF TasksInSession, CallKinds
  <2>1. CASE t \in InSs
    BY <1>1, <1>2, <1>4, <2>1 DEF SessionParts, TasksInSession
  <2>2. CASE TaskInSession(t)
    BY <1>2, <1>4, <2>2 DEF TaskInSession
  <2> QED
    BY <2>1, <2>2
<1>7. RequestsInSession'
  <2> SUFFICES ASSUME NEW q \in pending', q.kind # "create"
               PROVE  /\ q.session \in 1..sessions'
                      /\ q.kind \notin {"attach", "destroy"} =>
                            /\ q.handle # 0
                            /\ owner'[q.handle] = q.session \/ sessions' > 1
    BY DEF RequestsInSession
  <2>1. CASE q \in pending
    <3>1. q.session \in 1..sessions
      BY <2>1 DEF SessionParts, RequestsInSession
    <3>2. ASSUME q.kind \notin {"attach", "destroy"}
          PROVE  q.handle # 0 /\ (owner'[q.handle] = q.session \/ sessions' > 1)
      <4>1. q.handle # 0 /\ (owner[q.handle] = q.session \/ sessions > 1)
        BY <2>1, <3>2 DEF SessionParts, RequestsInSession
      <4>2. q.handle \in Handles
        <5>1. q \in Requests
          BY <2>1 DEF TypeOK
        <5> QED
          BY <5>1, <3>2, <4>1, Bounds DEF Requests, Asked, Handles
      <4> QED
        BY <1>1, <1>4, <3>1, <4>1, <4>2 DEF Owned
    <3> QED
      BY <1>1, <3>1, <3>2
  <2>2. CASE RequestInSession(q)
    <3>1. q.session \in 1..sessions
      BY <1>1, <2>2 DEF RequestInSession, SessionParts, SessionThere
    <3>2. ASSUME q.kind \notin {"attach", "destroy"}
          PROVE  q.handle # 0 /\ (owner'[q.handle] = q.session \/ sessions' > 1)
      <4>1. Owned(q.handle)
        BY <2>2, <3>2 DEF RequestInSession
      <4>2. owner[q.handle] \in 1..sessions /\ owner'[q.handle] = owner[q.handle]
        BY <1>1, <1>3, <1>4, <4>1 DEF Owned, SessionParts, SessionThere
      <4>3. q.handle # 0
        BY <4>1, Bounds DEF Owned, Handles
      <4> QED
        BY <1>1, <3>1, <4>2, <4>3
    <3> QED
      BY <1>1, <3>1, <3>2
  <2> QED
    BY <2>1, <2>2
<1> QED
  BY <1>5, <1>6, <1>7 DEF SessionParts

\* The environment and the clients add at most one task.
Brought(e) == e \in SsTasks /\ ssQueue' = Append(ssQueue, e)

LEMMA OwnersSame == ASSUME TypeOK, UNCHANGED <<sessions, owner>> PROVE OwnersGrow
BY DEF TypeOK, OwnersGrow

LEMMA BroughtStep ==
    ASSUME TypeOK, TypeOK', SessionParts, OwnersGrow, pending' \subseteq pending,
           UNCHANGED <<sessionId, sessionStatus, handleId>>,
           \A p \in Clients : peer'[p] => peer[p] \/ handleId[p] # 0,
           \/ ssQueue' = ssQueue
           \/ \E e : Brought(e) /\ TaskInSession(e)
    PROVE  SessionParts'
<1>1. \A t \in InSs' : t \in InSs \/ TaskInSession(t)
  <2>1. CASE ssQueue' = ssQueue
    BY <2>1 DEF InSs
  <2>2. CASE \E e : Brought(e) /\ TaskInSession(e)
    BY <2>2, SsAdds DEF Brought
  <2> QED
    BY <2>1, <2>2
<1>2. \A p \in Clients : peer'[p] => handleId'[p] # 0
  BY DEF SessionParts, SessionThere
<1> QED
  BY <1>1, <1>2, SessionStep

LEMMA CalledInSession ==
    ASSUME TypeOK, TypeOK', SessionParts, NEW kind \in CallKinds \ {"trickle"}, NEW n, NEW who,
           Task(kind, n, who) \in SsTasks, Call(kind, n, who)
    PROVE  SessionParts'
<1>1. Task(kind, n, who).kind = kind
  BY DEF Task
<1>2. Brought(Task(kind, n, who)) /\ sessionId # 0
  BY DEF Call, Brought, SessionParts, SessionThere
<1>3. TaskInSession(Task(kind, n, who))
  BY <1>1, <1>2 DEF TaskInSession, CallKinds
<1>4. UNCHANGED <<sessions, owner, pending, sessionId, sessionStatus, handleId, peer>>
  BY DEF Call, serverVars, sessionVars, clientVars
<1> QED
  BY <1>2, <1>3, <1>4, OwnersSame, BroughtStep

LEMMA ClientSession ==
    ASSUME TypeOK, TypeOK', HInv, ClientReachable, SessionParts, ClientStep
    PROVE  SessionParts'
<1> SUFFICES ASSUME NEW p \in Clients,
                    \/ CallAttach(p) \/ CallHangup(p) \/ CallDetach(p) \/ CallTrickle(p) \/ OpenPeer(p)
                    \/ \E m \in Messages : CallMessage(p, m)
             PROVE  SessionParts'
  BY DEF ClientStep
<1>1. handleId[p] \in 0..MaxHandle
  BY DEF TypeOK
<1>2. CASE CallAttach(p)
  <2>1. Task("attach", 0, p) \in SsTasks
    BY DEF Task, SsTasks
  <2> QED
    BY <1>2, <2>1, CalledInSession DEF CallAttach, CallKinds
<1>3. CASE CallHangup(p)
  <2>1. Task("hangup", handleId[p], p) \in SsTasks
    BY <1>1 DEF Task, SsTasks
  <2> QED
    BY <1>3, <2>1, CalledInSession DEF CallHangup, CallKinds
<1>4. CASE CallDetach(p)
  <2>1. Task("detach", handleId[p], p) \in SsTasks
    BY <1>1 DEF Task, SsTasks
  <2> QED
    BY <1>4, <2>1, CalledInSession DEF CallDetach, CallKinds
<1>5. CASE \E m \in Messages : CallMessage(p, m)
  <2>1. PICK m \in Messages : CallMessage(p, m)
    BY <1>5
  <2>2. Task("message", handleId[p], m) \in SsTasks
    BY <1>1 DEF Task, SsTasks
  <2> QED
    BY <2>1, <2>2, CalledInSession DEF CallMessage, CallKinds
<1>6. CASE CallTrickle(p)
  <2> DEFINE e == Task("trickle", handleId[p], p)
  <2>1. e \in SsTasks /\ e.kind = "trickle" /\ e.n = handleId[p]
    BY <1>1 DEF Task, SsTasks
  <2>2. handleId[p] # 0 /\ sessionId # 0
    BY <1>6 DEF CallTrickle, SessionParts, SessionThere
  <2>3. Brought(e) /\ TaskInSession(e)
    BY <1>6, <2>1, <2>2, ReachedBorn DEF CallTrickle, Brought, TaskInSession
  <2>4. UNCHANGED <<sessions, owner, pending, sessionId, sessionStatus, handleId, peer>>
    BY <1>6 DEF CallTrickle, serverVars, sessionVars, clientVars
  <2> QED
    BY <2>3, <2>4, OwnersSame, BroughtStep
<1>7. CASE OpenPeer(p)
  <2>1. /\ UNCHANGED <<sessions, owner, pending, sessionId, sessionStatus, handleId, ssQueue>>
        /\ handleId[p] # 0 /\ peer' = [peer EXCEPT ![p] = TRUE]
    BY <1>7 DEF OpenPeer, serverVars, sessionVars
  <2> QED
    BY <2>1, OwnersSame, BroughtStep DEF TypeOK
<1> QED
  BY <1>2, <1>3, <1>4, <1>5, <1>6, <1>7

LEMMA EnvironmentSession ==
    ASSUME TypeOK, TypeOK', SessionParts, Environment
    PROVE  SessionParts'
<1>0. UNCHANGED <<sessionId, sessionStatus, handleId, peer>> /\ pending' \subseteq pending
  BY DEF Environment, Connect, ConnectionUp, ConnectionDown, ReplyCreate, ReplyAttach, ReplyRefused,
     ReplyOther, Reply, Lose, ServerEvent, Destroy, serverVars, sessionVars, clientVars
<1>1. CASE Connect \/ \E q \in pending : Lose(q)
  <2>1. UNCHANGED <<sessions, owner, ssQueue>>
    BY <1>1 DEF Connect, Lose, serverVars
  <2> QED
    BY <1>0, <2>1, OwnersSame, BroughtStep
<1>2. CASE \E c \in Connections : ConnectionUp(c) \/ ConnectionDown(c)
  <2>1. PICK kind \in {"opened", "down"} :
           Arrives(Task(kind, 0, Nobody)) /\ UNCHANGED <<sessions, owner>>
    BY <1>2 DEF ConnectionUp, ConnectionDown, serverVars
  <2>2. Task(kind, 0, Nobody) \in SsTasks /\ Task(kind, 0, Nobody).kind = kind
    BY DEF Task, SsTasks
  <2>3. ssQueue' = ssQueue \/ Brought(Task(kind, 0, Nobody))
    BY <2>1, <2>2 DEF Arrives, Brought
  <2>4. TaskInSession(Task(kind, 0, Nobody))
    BY <2>2 DEF TaskInSession, CallKinds
  <2> QED
    BY <1>0, <2>1, <2>3, <2>4, OwnersSame, BroughtStep
<1>3. ASSUME NEW q \in pending, ReplyCreate(q) PROVE SessionParts'
  <2> DEFINE e == Task("created", sessions', Nobody)
  <2>1. sessions \in Nat /\ sessions' = sessions + 1 /\ owner' = owner
    BY <1>3 DEF TypeOK, ReplyCreate
  <2>2. e \in SsTasks /\ e.kind = "created" /\ e.n = sessions'
    BY <2>1 DEF Task, SsTasks
  <2>3. Brought(e) /\ TaskInSession(e)
    BY <1>3, <2>1, <2>2 DEF ReplyCreate, Reply, Brought, TaskInSession, CallKinds
  <2>4. OwnersGrow
    BY <2>1 DEF OwnersGrow
  <2> QED
    BY <1>0, <2>3, <2>4, BroughtStep
<1>4. ASSUME NEW q \in pending, ReplyAttach(q) PROVE SessionParts'
  <2>1. q.who \in Clients /\ q.session \in 1..sessions /\ sessions' = sessions /\ sessions \in Nat
    BY <1>4 DEF TypeOK, ReplyAttach, Requests, Asked
  <2>2. PICK g \in Handles : /\ owner[g] = 0
                             /\ owner' = [owner EXCEPT ![g] = q.session]
                             /\ Reply(q, Task("attached", g, q.who))
    BY <1>4 DEF ReplyAttach
  <2> DEFINE e == Task("attached", g, q.who)
  <2>3. e \in SsTasks /\ e.kind = "attached"
    BY <2>1 DEF Task, SsTasks
  <2>4. Brought(e) /\ TaskInSession(e)
    BY <2>2, <2>3 DEF Reply, Brought, TaskInSession, CallKinds
  <2>5. OwnersGrow
    BY <2>1, <2>2 DEF TypeOK, OwnersGrow
  <2> QED
    BY <1>0, <2>4, <2>5, BroughtStep
<1>5. ASSUME NEW q \in pending, ReplyRefused(q) \/ ReplyOther(q) PROVE SessionParts'
  <2>1. PICK e : /\ e \in SsTasks /\ Reply(q, e) /\ UNCHANGED <<sessions, owner>>
                 /\ e.kind \in {"refused", "messaged", "detached", "destroyed"}
    <3>1. CASE ReplyRefused(q)
      <4>1. q.who \in Clients
        BY <3>1 DEF TypeOK, ReplyRefused, Requests, Asked
      <4>2. Task("refused", 0, q.who) \in SsTasks /\ Task("refused", 0, q.who).kind = "refused"
        BY <4>1 DEF Task, SsTasks
      <4> QED
        BY <3>1, <4>2 DEF ReplyRefused
    <3>2. CASE ReplyOther(q)
      <4>1. Task(Answer[q.kind], q.handle, q.who).kind \in {"messaged", "detached", "destroyed"}
        BY <3>2 DEF ReplyOther, Answer, Task
      <4>2. Task(Answer[q.kind], q.handle, q.who) \in SsTasks
        BY <3>2, AnswerTyped DEF ReplyOther
      <4> QED
        BY <3>2, <4>1, <4>2 DEF ReplyOther
    <3> QED
      BY <1>5, <3>1, <3>2
  <2>2. Brought(e) /\ TaskInSession(e)
    BY <2>1 DEF Reply, Brought, TaskInSession, CallKinds
  <2> QED
    BY <1>0, <2>1, <2>2, OwnersSame, BroughtStep
<1>6. ASSUME NEW h \in Handles, ServerEvent(h) PROVE SessionParts'
  <2> DEFINE e == Task("event", h, Nobody)
  <2>1. e \in SsTasks /\ e.kind = "event"
    BY DEF Task, SsTasks
  <2>2. Brought(e) /\ TaskInSession(e) /\ UNCHANGED <<sessions, owner>>
    BY <1>6, <2>1 DEF ServerEvent, Brought, TaskInSession, CallKinds, serverVars
  <2> QED
    BY <1>0, <2>2, OwnersSame, BroughtStep
<1>7. CASE Destroy
  <2> DEFINE e == Task("end", 0, Nobody)
  <2>1. e \in SsTasks /\ e.kind = "end"
    BY DEF Task, SsTasks
  <2>2. Brought(e) /\ TaskInSession(e) /\ UNCHANGED <<sessions, owner>>
    BY <1>7, <2>1 DEF Destroy, Brought, TaskInSession, CallKinds, serverVars
  <2> QED
    BY <1>0, <2>2, OwnersSame, BroughtStep
<1> QED
  BY <1>1, <1>2, <1>3, <1>4, <1>5, <1>6, <1>7 DEF Environment

LEMMA SentInSession ==
    ASSUME NEW kind, NEW handle, NEW who, Send(kind, handle, who),
           kind # "create" => sessionId # 0,
           kind \notin {"create", "attach", "destroy"} => Owned(handle)
    PROVE  \A q \in pending' : q \in pending \/ RequestInSession(q)
BY DEF Send, RequestInSession

LEMMA SentNothingInSession ==
    ASSUME SendNothing
    PROVE  \A q \in pending' : q \in pending \/ RequestInSession(q)
BY DEF SendNothing

\* A task taken from the queue leaves the rest of it, and the server, alone.
LEMMA ServedSession ==
    ASSUME TypeOK, TypeOK', SessionParts, NEW kind, Take(kind),
           \A q \in pending' : q \in pending \/ RequestInSession(q),
           sessionId' = sessionId \/ sessionId' \in 1..sessions,
           sessionStatus' = "CONNECTED" => sessionStatus = "CONNECTED" \/ sessionId' # 0,
           \A p \in Clients : handleId[p] # 0 => handleId'[p] # 0
    PROVE  SessionParts'
<1>1. OwnersGrow /\ peer' = peer
  BY OwnersSame DEF Take
<1>2. \A t \in InSs' : t \in InSs \/ TaskInSession(t)
  BY SsDrops
<1>3. \A p \in Clients : peer'[p] => handleId'[p] # 0
  BY <1>1 DEF SessionParts, SessionThere
<1> QED
  BY <1>1, <1>2, <1>3, SessionStep

LEMMA HeadInSession ==
    ASSUME TypeOK, SessionParts, NEW kind, Take(kind)
    PROVE  /\ Head(ssQueue).kind = kind
           /\ kind = "created" => Head(ssQueue).n \in 1..sessions
           /\ kind \in CallKinds => sessionId # 0
           /\ kind = "trickle" => Owned(Head(ssQueue).n)
BY SsDrops DEF SessionParts, TasksInSession

LEMMA HandledOwned ==
    ASSUME TypeOK, HInv, NEW h, Handled(h)
    PROVE  Owned(h)
BY ClientsAssumption DEF HInv, MappedBorn, Unborn, Handled, Owned

LEMMA ServiceSession ==
    ASSUME TypeOK, TypeOK', HInv, SessionParts, SsStep
    PROVE  SessionParts'
<1> DEFINE AskedWell == \A q \in pending' : q \in pending \/ RequestInSession(q)
           Session == UNCHANGED <<sessionId, sessionStatus>>
<1>1. CASE SsOpened
  <2>1. Take("opened") /\ AskedWell /\ Session /\ handleId' = handleId
    BY <1>1, SentInSession DEF SsOpened
  <2> QED
    BY <2>1, ServedSession
<1>2. CASE SsDown
  <2>1. Take("down") /\ AskedWell /\ Session /\ handleId' = handleId
    BY <1>2, SentNothingInSession DEF SsDown
  <2> QED
    BY <2>1, ServedSession
<1>3. CASE SsCreated
  <2>1. /\ Take("created") /\ AskedWell /\ sessionId' = Head(ssQueue).n /\ handleId' = handleId
    BY <1>3, SentNothingInSession DEF SsCreated
  <2>2. sessionId' \in 1..sessions /\ sessions \in Nat
    BY <2>1, HeadInSession DEF TypeOK
  <2> QED
    BY <2>1, <2>2, ServedSession
<1>4. CASE SsAttach
  <2>1. Take("attach") /\ Session /\ handleId' = handleId
    BY <1>4 DEF SsAttach
  <2>2. sessionId # 0
    BY <2>1, HeadInSession DEF CallKinds
  <2>3. AskedWell
    BY <1>4, <2>2, SentInSession DEF SsAttach
  <2> QED
    BY <2>1, <2>3, ServedSession
<1>5. CASE SsAttached
  <2>1. Take("attached") /\ AskedWell /\ Session
    BY <1>5, SentNothingInSession DEF SsAttached
  <2>2. Head(ssQueue).n \in Handles
    BY <2>1, SsTaken DEF SsTasks
  <2>3. \A p \in Clients : handleId[p] # 0 => handleId'[p] # 0
    BY <1>5, <2>2, Bounds DEF SsAttached, Adopt, TypeOK, Handles
  <2> QED
    BY <2>1, <2>3, ServedSession
<1>6. CASE SsRefused
  <2>1. Take("refused") /\ AskedWell /\ Session /\ handleId' = handleId
    BY <1>6, SentNothingInSession DEF SsRefused
  <2> QED
    BY <2>1, ServedSession
<1>7. ASSUME NEW kind \in {"message", "hangup"}, SsRequest(kind) PROVE SessionParts'
  <2>1. Take(kind) /\ Session /\ handleId' = handleId
    BY <1>7 DEF SsRequest
  <2>2. sessionId # 0
    BY <2>1, HeadInSession DEF CallKinds
  <2>3. AskedWell
    <3>1. CASE Handled(Head(ssQueue).n)
      BY <1>7, <2>2, <3>1, HandledOwned, SentInSession DEF SsRequest
    <3>2. CASE ~Handled(Head(ssQueue).n)
      BY <1>7, <3>2, SentNothingInSession DEF SsRequest
    <3> QED
      BY <3>1, <3>2
  <2> QED
    BY <2>1, <2>3, ServedSession
<1>8. CASE SsTrickle
  <2>1. Take("trickle") /\ Session /\ handleId' = handleId
    BY <1>8 DEF SsTrickle
  <2>2. sessionId # 0 /\ Owned(Head(ssQueue).n)
    BY <2>1, HeadInSession DEF CallKinds
  <2>3. AskedWell
    BY <1>8, <2>2, SentInSession DEF SsTrickle
  <2> QED
    BY <2>1, <2>3, ServedSession
<1>9. CASE SsMessaged
  <2>1. Take("messaged") /\ AskedWell /\ Session /\ handleId' = handleId
    BY <1>9, SentNothingInSession DEF SsMessaged
  <2> QED
    BY <2>1, ServedSession
<1>10. CASE SsDetach
  <2>1. Take("detach") /\ Session /\ handleId' = handleId
    BY <1>10 DEF SsDetach
  <2>2. sessionId # 0
    BY <2>1, HeadInSession DEF CallKinds
  <2>3. AskedWell
    <3>1. CASE Handled(Head(ssQueue).n) /\ connected
      BY <1>10, <2>2, <3>1, HandledOwned, SentInSession DEF SsDetach
    <3>2. CASE ~(Handled(Head(ssQueue).n) /\ connected)
      BY <1>10, <3>2, SentNothingInSession DEF SsDetach
    <3> QED
      BY <3>1, <3>2
  <2> QED
    BY <2>1, <2>3, ServedSession
<1>11. CASE SsDetached
  <2>1. Take("detached") /\ AskedWell /\ Session /\ handleId' = handleId
    BY <1>11, SentNothingInSession DEF SsDetached
  <2> QED
    BY <2>1, ServedSession
<1>12. CASE SsEnd
  <2>1. Take("end") /\ Session /\ handleId' = handleId
    BY <1>12 DEF SsEnd
  <2>2. AskedWell
    <3>1. CASE sessionId # 0 /\ connected
      BY <1>12, <3>1, SentInSession DEF SsEnd
    <3>2. CASE ~(sessionId # 0 /\ connected)
      BY <1>12, <3>2, SentNothingInSession DEF SsEnd
    <3> QED
      BY <3>1, <3>2
  <2> QED
    BY <2>1, <2>2, ServedSession
<1>13. CASE SsDestroyed
  <2>1. Take("destroyed") /\ AskedWell /\ Session /\ handleId' = handleId
    BY <1>13, SentNothingInSession DEF SsDestroyed
  <2> QED
    BY <2>1, ServedSession
<1>14. CASE SsEvent
  <2>1. Take("event") /\ AskedWell /\ Session /\ handleId' = handleId
    BY <1>14, SentNothingInSession DEF SsEvent
  <2> QED
    BY <2>1, ServedSession
<1> QED
  BY <1>1, <1>2, <1>3, <1>4, <1>5, <1>6, <1>7, <1>8, <1>9, <1>10, <1>11, <1>12, <1>13, <1>14
     DEF SsStep

LEMMA ClientThreadSession ==
    ASSUME TypeOK, TypeOK', SessionParts, PcStep
    PROVE  SessionParts'
<1>1. UNCHANGED <<pending, sessions, owner, ssQueue, sessionStatus, sessionId, handleId>>
  BY ClientThreadLeaves
<1>2. \A p \in Clients : peer'[p] => peer[p]
  <2>1. CASE PcCleanup
    BY <2>1 DEF PcCleanup, TypeOK
  <2>2. CASE ~PcCleanup
    <3>1. peer' = peer
      BY <2>2 DEF PcStep, PcSetConnected, PcAttached, PcRefused, PcCallback, PcFind, PcFetch,
         PcDeliver, clientVars
    <3> QED
      BY <3>1
  <2> QED
    BY <2>1, <2>2
<1> QED
  BY <1>1, <1>2, OwnersSame, BroughtStep

-----------------------------------------------------------------------------
(* What comes from outside the two threads.                                 *)

LEMMA PcSameContents == ASSUME pcQueue' = pcQueue PROVE InPc' = InPc
BY DEF InPc

LEMMA SsSameContents == ASSUME ssQueue' = ssQueue PROVE InSs' = InSs
BY DEF InSs

\* What the environment and the clients bring: the loss of a connection that is
\* down, a session over one that is open, and a message that is new, or whose
\* request was answered.
Fresh(m) ==
    /\ m \notin {ssQueue[i].who : i \in 1..Len(ssQueue)} \cup {q.who : q \in pending}
    /\ m \notin {pcQueue[i].who : i \in 1..Len(pcQueue)}
    /\ runs[m] = 0

Outside(e) ==
    /\ Brought(e)
    /\ e.kind = "down" => \E c \in Connections : up'[c] = "Down"
    /\ e.kind = "created" => up' = up /\ \E c \in Connections : up[c] = "Open"
    /\ e.who \in Messages => \/ pending' = pending /\ Fresh(e.who)
                             \/ \E q \in pending : q.who = e.who /\ pending' = pending \ {q}

LEMMA NoMessage ==
    /\ Nobody \notin Messages
    /\ \A p \in Clients : p \notin Messages
BY NobodyAssumption, MessagesAssumption

LEMMA CallBrings ==
    ASSUME NEW kind \in CallKinds, NEW n, NEW who, Task(kind, n, who) \in SsTasks,
           Call(kind, n, who), who \in Messages => Fresh(who)
    PROVE  \E e : Outside(e)
<1>1. Task(kind, n, who).kind = kind /\ Task(kind, n, who).who = who
  BY DEF Task
<1>2. Brought(Task(kind, n, who)) /\ pending' = pending
  BY DEF Call, Brought, serverVars
<1> QED
  BY <1>1, <1>2 DEF Outside, CallKinds

LEMMA ClientBrings ==
    ASSUME TypeOK, ClientStep
    PROVE  ssQueue' = ssQueue \/ \E e : Outside(e)
<1> SUFFICES ASSUME NEW p \in Clients,
                    \/ CallAttach(p) \/ CallHangup(p) \/ CallDetach(p) \/ CallTrickle(p) \/ OpenPeer(p)
                    \/ \E m \in Messages : CallMessage(p, m)
             PROVE  ssQueue' = ssQueue \/ \E e : Outside(e)
  BY DEF ClientStep
<1>1. handleId[p] \in 0..MaxHandle /\ p \notin Messages
  BY NoMessage DEF TypeOK
<1>2. /\ Task("attach", 0, p) \in SsTasks
      /\ Task("hangup", handleId[p], p) \in SsTasks
      /\ Task("detach", handleId[p], p) \in SsTasks
      /\ Task("trickle", handleId[p], p) \in SsTasks
      /\ \A m \in Messages : Task("message", handleId[p], m) \in SsTasks
  BY <1>1 DEF Task, SsTasks
<1>3. CASE CallAttach(p)
  BY <1>1, <1>2, <1>3, CallBrings DEF CallAttach, CallKinds
<1>4. CASE CallHangup(p)
  BY <1>1, <1>2, <1>4, CallBrings DEF CallHangup, CallKinds
<1>5. CASE CallDetach(p)
  BY <1>1, <1>2, <1>5, CallBrings DEF CallDetach, CallKinds
<1>6. CASE \E m \in Messages : CallMessage(p, m)
  <2>1. PICK m \in Messages : CallMessage(p, m)
    BY <1>6
  <2>2. Fresh(m) /\ Call("message", handleId[p], m)
    BY <2>1 DEF CallMessage, Fresh
  <2> QED
    BY <1>2, <2>2, CallBrings DEF CallKinds
<1>7. CASE CallTrickle(p)
  <2> DEFINE e == Task("trickle", handleId[p], p)
  <2>1. e.kind = "trickle" /\ e.who = p /\ Brought(e)
    BY <1>2, <1>7 DEF CallTrickle, Brought, Task
  <2> QED
    BY <1>1, <2>1 DEF Outside
<1>8. CASE OpenPeer(p)
  BY <1>8 DEF OpenPeer
<1> QED
  BY <1>3, <1>4, <1>5, <1>6, <1>7, <1>8

LEMMA EnvironmentBrings ==
    ASSUME TypeOK, Environment
    PROVE  ssQueue' = ssQueue \/ \E e : Outside(e)
<1>1. CASE Connect \/ \E q \in pending : Lose(q)
  BY <1>1 DEF Connect, Lose
<1>2. ASSUME NEW c \in Connections, ConnectionUp(c) PROVE ssQueue' = ssQueue \/ \E e : Outside(e)
  <2> DEFINE e == Task("opened", 0, Nobody)
  <2>1. e \in SsTasks /\ e.kind = "opened" /\ e.who = Nobody
    BY DEF Task, SsTasks
  <2>2. ssQueue' = ssQueue \/ Brought(e)
    BY <1>2, <2>1 DEF ConnectionUp, Arrives, Brought
  <2> QED
    BY <2>1, <2>2, NoMessage DEF Outside
<1>3. ASSUME NEW c \in Connections, ConnectionDown(c) PROVE ssQueue' = ssQueue \/ \E e : Outside(e)
  <2> DEFINE e == Task("down", 0, Nobody)
  <2>1. e \in SsTasks /\ e.kind = "down" /\ e.who = Nobody
    BY DEF Task, SsTasks
  <2>2. ssQueue' = ssQueue \/ Brought(e)
    BY <1>3, <2>1 DEF ConnectionDown, Arrives, Brought
  <2>3. up'[c] = "Down"
    BY <1>3 DEF TypeOK, ConnectionDown
  <2> QED
    BY <2>1, <2>2, <2>3, NoMessage DEF Outside
<1>4. ASSUME NEW q \in pending, ReplyCreate(q) PROVE \E e : Outside(e)
  <2> DEFINE e == Task("created", sessions', Nobody)
  <2>1. e \in SsTasks /\ e.kind = "created" /\ e.who = Nobody
    BY <1>4 DEF TypeOK, ReplyCreate, Task, SsTasks
  <2>2. Brought(e) /\ up' = up /\ up[q.conn] = "Open"
    BY <1>4, <2>1 DEF ReplyCreate, Reply, Brought
  <2>3. q.conn \in Connections
    BY DEF TypeOK, Requests, Asked
  <2> QED
    BY <2>1, <2>2, <2>3, NoMessage DEF Outside
<1>5. ASSUME NEW q \in pending, ReplyAttach(q) PROVE \E e : Outside(e)
  <2>1. q.who \in Clients
    BY <1>5 DEF TypeOK, ReplyAttach, Requests, Asked
  <2>2. PICK g \in Handles : Reply(q, Task("attached", g, q.who))
    BY <1>5 DEF ReplyAttach
  <2> DEFINE e == Task("attached", g, q.who)
  <2>3. e \in SsTasks /\ e.kind = "attached" /\ e.who = q.who
    BY <2>1 DEF Task, SsTasks
  <2>4. Brought(e)
    BY <2>2, <2>3 DEF Reply, Brought
  <2> QED
    BY <2>1, <2>3, <2>4, NoMessage DEF Outside
<1>6. ASSUME NEW q \in pending, ReplyRefused(q) PROVE \E e : Outside(e)
  <2> DEFINE e == Task("refused", 0, q.who)
  <2>1. q.who \in Clients
    BY <1>6 DEF TypeOK, ReplyRefused, Requests, Asked
  <2>2. e \in SsTasks /\ e.kind = "refused" /\ e.who = q.who
    BY <2>1 DEF Task, SsTasks
  <2>3. Brought(e)
    BY <1>6, <2>2 DEF ReplyRefused, Reply, Brought
  <2> QED
    BY <2>1, <2>2, <2>3, NoMessage DEF Outside
<1>7. ASSUME NEW q \in pending, ReplyOther(q) PROVE \E e : Outside(e)
  <2> DEFINE e == Task(Answer[q.kind], q.handle, q.who)
  <2>1. e \in SsTasks
    BY <1>7, AnswerTyped DEF ReplyOther
  <2>2. e.kind \in {"messaged", "detached", "destroyed"} /\ e.who = q.who
    BY <1>7 DEF ReplyOther, Answer, Task
  <2>3. Brought(e) /\ pending' = pending \ {q}
    BY <1>7, <2>1 DEF ReplyOther, Reply, Brought
  <2> QED
    BY <2>2, <2>3 DEF Outside
<1>8. ASSUME NEW h \in Handles, ServerEvent(h) PROVE \E e : Outside(e)
  <2> DEFINE e == Task("event", h, Nobody)
  <2>1. e \in SsTasks /\ e.kind = "event" /\ e.who = Nobody
    BY DEF Task, SsTasks
  <2>2. Brought(e)
    BY <1>8, <2>1 DEF ServerEvent, Brought
  <2> QED
    BY <2>1, <2>2, NoMessage DEF Outside
<1>9. CASE Destroy
  <2> DEFINE e == Task("end", 0, Nobody)
  <2>1. e \in SsTasks /\ e.kind = "end" /\ e.who = Nobody
    BY DEF Task, SsTasks
  <2>2. Brought(e)
    BY <1>9, <2>1 DEF Destroy, Brought
  <2> QED
    BY <2>1, <2>2, NoMessage DEF Outside
<1> QED
  BY <1>1, <1>2, <1>3, <1>4, <1>5, <1>6, <1>7, <1>8, <1>9 DEF Environment

-----------------------------------------------------------------------------
(* ConnectionsInv.                                                          *)

\* Only the environment changes a connection: a new one, or one there was.
Standing(c) == up[c] \in {"Open", "Down"}
LEMMA ConnectionsChange ==
    ASSUME TypeOK, ConnectionsInv, Environment \/ ClientStep
    PROVE  /\ \A c \in Connections : c > conn' => up'[c] = "None"
           /\ \A c \in Connections : Standing(c) => up'[c] \in {"Open", "Down"}
           /\ \A c \in Connections : up[c] = "Down" => up'[c] = "Down"
<1>1. CASE Connect
  BY <1>1 DEF Connect, TypeOK, ConnectionsInv, Standing, Connections
<1>2. ASSUME NEW c \in Connections, ConnectionUp(c) \/ ConnectionDown(c)
      PROVE  /\ \A d \in Connections : d > conn' => up'[d] = "None"
             /\ \A d \in Connections : Standing(d) => up'[d] \in {"Open", "Down"}
             /\ \A d \in Connections : up[d] = "Down" => up'[d] = "Down"
  BY <1>2 DEF ConnectionUp, ConnectionDown, TypeOK, ConnectionsInv, Standing
<1>3. CASE UNCHANGED <<up, conn>>
  BY <1>3 DEF ConnectionsInv, Standing
<1>4. CASE ClientStep
  <2>1. UNCHANGED <<up, conn>>
    BY <1>4 DEF ClientStep, CallAttach, CallHangup, CallDetach, CallTrickle, OpenPeer, CallMessage,
       Call
  <2> QED
    BY <1>3, <2>1
<1>5. CASE Environment /\ ~Connect /\ ~\E c \in Connections : ConnectionUp(c) \/ ConnectionDown(c)
  <2>1. UNCHANGED <<up, conn>>
    BY <1>5 DEF Environment, ReplyCreate, ReplyAttach, ReplyRefused, ReplyOther, Reply, Lose,
       ServerEvent, Destroy
  <2> QED
    BY <1>3, <2>1
<1> QED
  BY <1>1, <1>2, <1>4, <1>5

LEMMA SessionsOverConnections ==
    ASSUME TypeOK, Environment \/ ClientStep
    PROVE  sessions' = sessions \/ \E c \in Connections : Standing(c)
<1>1. ASSUME NEW q \in pending, ReplyCreate(q) PROVE \E c \in Connections : Standing(c)
  <2>1. q.conn \in Connections
    BY DEF TypeOK, Requests, Asked
  <2> QED
    BY <1>1, <2>1 DEF ReplyCreate, Reply, Standing
<1>2. CASE ~\E q \in pending : ReplyCreate(q)
  BY <1>2 DEF Environment, Connect, ConnectionUp, ConnectionDown, ReplyAttach, ReplyRefused,
     ReplyOther, Reply, Lose, ServerEvent, Destroy, ClientStep, CallAttach, CallHangup, CallDetach,
     CallTrickle, OpenPeer, CallMessage, Call, serverVars
<1> QED
  BY <1>1, <1>2

LEMMA OutsideConnections ==
    ASSUME TypeOK, ConnectionsInv, Environment \/ ClientStep
    PROVE  ConnectionsInv'
<1>1. /\ \A c \in Connections : c > conn' => up'[c] = "None"
      /\ \A c \in Connections : Standing(c) => up'[c] \in {"Open", "Down"}
      /\ \A c \in Connections : up[c] = "Down" => up'[c] = "Down"
  BY ConnectionsChange
<1>2. UNCHANGED <<sessionId, connected>> /\ InPc' = InPc
  BY OutsideLeaves, PcSameContents
<1>3. sessions' # 0 => \E c \in Connections : Standing(c)
  BY SessionsOverConnections DEF ConnectionsInv, Standing
<1>4. \A t \in InSs' : t.kind = "down" => t \in InSs \/ \E c \in Connections : up'[c] = "Down"
  <2>1. CASE ssQueue' = ssQueue
    BY <2>1, SsSameContents
  <2>2. CASE \E e : Outside(e)
    BY <2>2, SsAdds DEF Outside, Brought
  <2> QED
    BY <2>1, <2>2, ClientBrings, EnvironmentBrings
<1> QED
  BY <1>1, <1>2, <1>3, <1>4 DEF ConnectionsInv

\* What the tasks of signaling-service post to plugin-client.
Posts(e) ==
    /\ e \in PcTasks /\ pcQueue' = Append(pcQueue, e)
    /\ e.kind = "setConnected" => SsCreated
    /\ e.who \in Messages => SsMessaged /\ e.who = Head(ssQueue).who

LEMMA ServicePosts ==
    ASSUME TypeOK, SsStep
    PROVE  \/ pcQueue' = pcQueue
           \/ \E e : Posts(e)
           \/ \E hs \in SUBSET Handles : RemoveLocally(hs)
<1>1. CASE SsOpened \/ SsDown \/ SsAttach \/ SsRequest("message") \/ SsRequest("hangup") \/ SsTrickle
           \/ SsDetached \/ SsDestroyed
  BY <1>1 DEF SsOpened, SsDown, SsAttach, SsRequest, SsTrickle, SsDetached, SsDestroyed
<1>2. CASE SsCreated
  <2> DEFINE e == Task("setConnected", 0, Nobody)
  <2>1. e \in PcTasks /\ e.kind = "setConnected" /\ e.who = Nobody
    BY DEF Task, PcTasks
  <2>2. pcQueue' = Append(pcQueue, e)
    BY <1>2 DEF SsCreated, Post
  <2> QED
    BY <1>2, <2>1, <2>2, NoMessage DEF Posts
<1>3. CASE SsAttached
  <2> DEFINE e == Task("attached", Head(ssQueue).n, Head(ssQueue).who)
  <2>1. Head(ssQueue) \in SsTasks /\ Head(ssQueue).kind = "attached"
    BY <1>3, SsTaken DEF SsAttached
  <2>2. e \in PcTasks /\ e.kind = "attached" /\ e.who \in Clients
    BY <2>1 DEF SsTasks, Task, PcTasks
  <2>3. pcQueue' = Append(pcQueue, e)
    BY <1>3 DEF SsAttached, Post
  <2> QED
    BY <2>2, <2>3, NoMessage DEF Posts
<1>4. CASE SsRefused
  <2> DEFINE e == Task("refused", 0, Head(ssQueue).who)
  <2>1. Head(ssQueue) \in SsTasks /\ Head(ssQueue).kind = "refused"
    BY <1>4, SsTaken DEF SsRefused
  <2>2. e \in PcTasks /\ e.kind = "refused" /\ e.who \in Clients
    BY <2>1 DEF SsTasks, Task, PcTasks
  <2>3. pcQueue' = Append(pcQueue, e)
    BY <1>4 DEF SsRefused, Post
  <2> QED
    BY <2>2, <2>3, NoMessage DEF Posts
<1>5. CASE SsMessaged
  <2> DEFINE e == Task("callback", 0, Head(ssQueue).who)
  <2>1. Head(ssQueue) \in SsTasks /\ Head(ssQueue).kind = "messaged"
    BY <1>5, SsTaken DEF SsMessaged
  <2>2. e \in PcTasks /\ e.kind = "callback" /\ e.who = Head(ssQueue).who
    BY <2>1 DEF SsTasks, Task, PcTasks
  <2>3. pcQueue' = Append(pcQueue, e)
    BY <1>5 DEF SsMessaged, Post
  <2> QED
    BY <1>5, <2>2, <2>3 DEF Posts
<1>6. CASE SsDetach
  <2> DEFINE e == Task("cleanup", Head(ssQueue).n, Nobody)
  <2>1. CASE Handled(Head(ssQueue).n)
    <3>1. pcQueue' = Append(pcQueue, e)
      BY <1>6, <2>1 DEF SsDetach, Post
    <3>2. e \in PcTasks /\ e.kind = "cleanup" /\ e.who = Nobody
      BY <2>1 DEF Handled, Task, PcTasks
    <3> QED
      BY <3>1, <3>2, NoMessage DEF Posts
  <2>2. CASE ~Handled(Head(ssQueue).n)
    BY <1>6, <2>2 DEF SsDetach
  <2> QED
    BY <2>1, <2>2
<1>7. CASE SsEnd
  BY <1>7 DEF SsEnd
<1>8. CASE SsEvent
  <2> DEFINE e == Task("deliver", Head(ssQueue).n, Nobody)
  <2>1. CASE Handled(Head(ssQueue).n)
    <3>1. pcQueue' = Append(pcQueue, e)
      BY <1>8, <2>1 DEF SsEvent, Post
    <3>2. e \in PcTasks /\ e.kind = "deliver" /\ e.who = Nobody
      BY <2>1 DEF Handled, Task, PcTasks
    <3> QED
      BY <3>1, <3>2, NoMessage DEF Posts
  <2>2. CASE ~Handled(Head(ssQueue).n)
    BY <1>8, <2>2 DEF SsEvent
  <2> QED
    BY <2>1, <2>2
<1> QED
  BY <1>1, <1>2, <1>3, <1>4, <1>5, <1>6, <1>7, <1>8 DEF SsStep

LEMMA ServiceSetsConnected ==
    ASSUME TypeOK, SsStep
    PROVE  /\ InPc \subseteq InPc'
           /\ \A t \in InPc' : t.kind = "setConnected" => t \in InPc \/ SsCreated
<1>1. CASE pcQueue' = pcQueue
  BY <1>1, PcSameContents
<1>2. CASE \E e : Posts(e)
  BY <1>2, PcAdds DEF Posts
<1>3. ASSUME NEW hs \in SUBSET Handles, RemoveLocally(hs)
      PROVE  /\ InPc \subseteq InPc'
             /\ \A t \in InPc' : t.kind = "setConnected" => t \in InPc
  <2>1. /\ \A i \in 1..Len(pcQueue) : i \in 1..Len(pcQueue') /\ pcQueue'[i] = pcQueue[i]
        /\ \A i \in 1..Len(pcQueue') :
              i \in 1..Len(pcQueue) \/ pcQueue'[i].kind = "cleanup"
    BY <1>3, PcCleansUp
  <2> QED
    BY <2>1 DEF InPc
<1> QED
  BY <1>1, <1>2, <1>3, ServicePosts

LEMMA ServiceConnected ==
    ASSUME TypeOK, SsStep, ~SsCreated
    PROVE  UNCHANGED <<sessionId, sessionStatus>> /\ (connected' = connected \/ (SsDown /\ ~connected'))
BY DEF SsStep, SsOpened, SsDown, SsAttach, SsAttached, SsRefused, SsRequest, SsTrickle,
   SsMessaged, SsDetach, SsDetached, SsEnd, SsDestroyed, SsEvent

LEMMA ServiceTakes ==
    ASSUME TypeOK, SsStep
    PROVE  \E kind : Take(kind) /\ (kind = "down" <=> SsDown) /\ (kind = "created" <=> SsCreated)
BY DEF SsStep, SsOpened, SsDown, SsCreated, SsAttach, SsAttached, SsRefused, SsRequest, SsTrickle,
   SsMessaged, SsDetach, SsDetached, SsEnd, SsDestroyed, SsEvent, Take

LEMMA CreatedConnections ==
    ASSUME TypeOK, SessionParts, ConnectionsInv, SsCreated
    PROVE  ConnectionsInv'
<1>1. sessionId' # 0 /\ UNCHANGED <<up, conn, sessions>>
  <2>1. sessionId' \in 1..sessions /\ UNCHANGED <<up, conn, sessions>>
    BY HeadInSession DEF SsCreated, Take
  <2> QED
    BY <2>1
<1>2. InSs' \subseteq InSs
  BY SsDrops DEF SsCreated
<1>3. \E t \in InPc' : t.kind = "setConnected"
  <2>1. Task("setConnected", 0, Nobody) \in PcTasks /\ Task("setConnected", 0, Nobody).kind = "setConnected"
    BY DEF Task, PcTasks
  <2> QED
    BY <2>1, PcAdds DEF SsCreated, Post
<1> QED
  BY <1>1, <1>2, <1>3 DEF ConnectionsInv

LEMMA ServiceConnections ==
    ASSUME TypeOK, SessionParts, ConnectionsInv, SsStep
    PROVE  ConnectionsInv'
<1>1. CASE SsCreated
  BY <1>1, CreatedConnections
<1>2. CASE ~SsCreated
  <2>1. PICK kind : Take(kind) /\ (kind = "down" <=> SsDown)
    BY ServiceTakes
  <2>2. InSs' \subseteq InSs /\ (SsDown => \E t \in InSs : t.kind = "down")
    BY <2>1, SsDrops
  <2>3. (\E t \in InPc' : t.kind = "setConnected") <=> (\E t \in InPc : t.kind = "setConnected")
    BY <1>2, ServiceSetsConnected
  <2>4. sessionId' = sessionId /\ (connected' = connected \/ (SsDown /\ ~connected'))
    BY <1>2, ServiceConnected
  <2>5. UNCHANGED <<up, conn, sessions>>
    BY ServiceLeaves
  <2> QED
    BY <2>2, <2>3, <2>4, <2>5 DEF ConnectionsInv
<1> QED
  BY <1>1, <1>2

LEMMA ClientThreadPops ==
    ASSUME TypeOK, PcStep
    PROVE  \/ pcQueue' = pcQueue /\ connected' = connected
           \/ /\ pcQueue # <<>> /\ pcQueue' = Tail(pcQueue)
              /\ IF Head(pcQueue).kind = "setConnected" THEN connected' ELSE connected' = connected
BY DEF PcStep, PcSetConnected, PcAttached, PcRefused, PcCallback, PcFind, PcFetch, PcDeliver, PcCleanup,
   PcCalls, LooksUp, PcTake, sessionVars

LEMMA ClientThreadConnections ==
    ASSUME TypeOK, ConnectionsInv, PcStep
    PROVE  ConnectionsInv'
<1>1. UNCHANGED <<up, conn, sessions, sessionId>> /\ InSs' = InSs
  BY ClientThreadLeaves, SsSameContents
<1>2. CASE pcQueue' = pcQueue /\ connected' = connected
  BY <1>1, <1>2, PcSameContents DEF ConnectionsInv
<1>3. CASE pcQueue # <<>> /\ pcQueue' = Tail(pcQueue) /\ Head(pcQueue).kind = "setConnected" /\ connected'
  <2>1. InPc' \subseteq InPc /\ Head(pcQueue) \in InPc
    BY <1>3, PcDrops
  <2> QED
    BY <1>1, <1>3, <2>1 DEF ConnectionsInv
<1>4. CASE /\ pcQueue # <<>> /\ pcQueue' = Tail(pcQueue)
           /\ Head(pcQueue).kind # "setConnected" /\ connected' = connected
  <2>1. (\E t \in InPc' : t.kind = "setConnected") <=> (\E t \in InPc : t.kind = "setConnected")
    BY <1>4, PcDrops
  <2> QED
    BY <1>1, <1>4, <2>1 DEF ConnectionsInv
<1> QED
  BY <1>2, <1>3, <1>4, ClientThreadPops

-----------------------------------------------------------------------------
(* DownInv: the end of the only connection.                                 *)

LEMMA DownArrives ==
    ASSUME TypeOK, NEW e, Brought(e), e.kind = "down"
    PROVE  DownQueued'
<1>1. /\ Len(ssQueue') = Len(ssQueue) + 1 /\ Len(ssQueue) \in Nat
      /\ ssQueue'[Len(ssQueue) + 1] = e
  BY DEF TypeOK, Brought
<1>2. Len(ssQueue) + 1 \in 1..Len(ssQueue')
  BY <1>1
<1>3. \A j \in 1..Len(ssQueue') : ssQueue'[j].kind = "created" => j < Len(ssQueue) + 1
  BY <1>1
<1> QED
  BY <1>1, <1>2, <1>3 DEF DownQueued

LEMMA DownStaysQueued ==
    ASSUME TypeOK, NEW e, Brought(e), e.kind # "created", DownQueued
    PROVE  DownQueued'
<1>1. /\ Len(ssQueue') = Len(ssQueue) + 1 /\ Len(ssQueue) \in Nat
      /\ \A i \in 1..Len(ssQueue) : ssQueue'[i] = ssQueue[i]
      /\ ssQueue'[Len(ssQueue) + 1] = e
  BY DEF TypeOK, Brought
<1>2. PICK i \in 1..Len(ssQueue) :
         /\ ssQueue[i].kind = "down"
         /\ \A j \in 1..Len(ssQueue) : ssQueue[j].kind = "created" => j < i
  BY DEF DownQueued
<1>3. i \in 1..Len(ssQueue') /\ ssQueue'[i].kind = "down"
  BY <1>1, <1>2
<1>4. \A j \in 1..Len(ssQueue') : ssQueue'[j].kind = "created" => j < i
  BY <1>1, <1>2
<1> QED
  BY <1>3, <1>4 DEF DownQueued

\* The loss moves up in the queue, and nothing is created behind it.
LEMMA DownMovesUp ==
    ASSUME TypeOK, NEW kind, Take(kind), DownQueued
    PROVE  DownQueued' \/ (kind = "down" /\ \A t \in InSs' : t.kind # "created")
<1>1. /\ Len(ssQueue') = Len(ssQueue) - 1 /\ Len(ssQueue) \in Nat \ {0}
      /\ Head(ssQueue) = ssQueue[1] /\ Head(ssQueue).kind = kind
      /\ \A i \in 1..Len(ssQueue') : ssQueue'[i] = ssQueue[i + 1] /\ i + 1 \in 1..Len(ssQueue)
  BY TailFacts DEF Take
<1>2. PICK i \in 1..Len(ssQueue) :
         /\ ssQueue[i].kind = "down"
         /\ \A j \in 1..Len(ssQueue) : ssQueue[j].kind = "created" => j < i
  BY DEF DownQueued
<1>3. CASE i = 1
  <2>1. kind = "down"
    BY <1>1, <1>2, <1>3
  <2>2. \A j \in 1..Len(ssQueue') : ssQueue'[j].kind # "created"
    BY <1>1, <1>2, <1>3
  <2> QED
    BY <2>1, <2>2 DEF InSs
<1>4. CASE i # 1
  <2>1. i - 1 \in 1..Len(ssQueue') /\ ssQueue'[i - 1].kind = "down"
    BY <1>1, <1>2, <1>4
  <2>2. \A j \in 1..Len(ssQueue') : ssQueue'[j].kind = "created" => j < i - 1
    BY <1>1, <1>2
  <2> QED
    BY <2>1, <2>2 DEF DownQueued
<1> QED
  BY <1>3, <1>4

LEMMA OutsideDown ==
    ASSUME TypeOK, ConnectionsInv, DownInv, Environment \/ ClientStep
    PROVE  DownInv'
<1> SUFFICES ASSUME conn' = 1, up'[1] = "Down", listening', ~late'
             PROVE  DownQueued' \/ DownNoted'
  BY DEF DownInv
<1>1. UNCHANGED <<connected, listening, late>> /\ InPc' = InPc
  BY OutsideLeaves, PcSameContents
<1>2. ~Connect
  <2> SUFFICES ASSUME Connect PROVE FALSE
    OBVIOUS
  <2>1. 1 \in Connections /\ up' = [up EXCEPT ![1] = "Connecting"]
    BY Bounds DEF Connect, TypeOK, Connections
  <2> QED
    BY <2>1 DEF TypeOK
<1>3. ASSUME NEW c \in Connections, ConnectionDown(c) PROVE DownQueued'
  <2>1. Task("down", 0, Nobody) \in SsTasks /\ Task("down", 0, Nobody).kind = "down"
    BY DEF Task, SsTasks
  <2>2. Brought(Task("down", 0, Nobody))
    BY <1>1, <1>3, <2>1 DEF ConnectionDown, Arrives, Brought
  <2> QED
    BY <2>1, <2>2, DownArrives
<1>4. CASE ~\E c \in Connections : ConnectionDown(c)
  <2>1. conn' = conn /\ 1 \in Connections
    <3>1. conn' = conn
      BY <1>2, <1>4 DEF Environment, ConnectionUp, ReplyCreate, ReplyAttach, ReplyRefused,
         ReplyOther, Reply, Lose, ServerEvent, Destroy, ClientStep, CallAttach, CallHangup,
         CallDetach, CallTrickle, OpenPeer, CallMessage, Call
    <3> QED
      BY <3>1, Bounds DEF TypeOK, Connections
  <2>2. up[1] = "Down"
    <3>1. up' = up \/ \E c \in Connections : ConnectionUp(c)
      BY <1>2, <1>4 DEF Environment, ReplyCreate, ReplyAttach, ReplyRefused,
         ReplyOther, Reply, Lose, ServerEvent, Destroy, ClientStep, CallAttach, CallHangup,
         CallDetach, CallTrickle, OpenPeer, CallMessage, Call
    <3> QED
      BY <2>1, <3>1 DEF ConnectionUp, TypeOK
  <2>3. DownQueued \/ DownNoted
    BY <1>1, <2>1, <2>2 DEF DownInv
  <2>4. \A c \in Connections : up[c] # "Open"
    BY <2>1, <2>2 DEF ConnectionsInv, Connections
  <2>5. CASE ssQueue' = ssQueue
    <3>1. InSs' = InSs
      BY <2>5, SsSameContents
    <3> QED
      BY <1>1, <2>3, <2>5, <3>1 DEF DownQueued, DownNoted
  <2>6. ASSUME NEW e, Outside(e) PROVE DownQueued' \/ DownNoted'
    <3>1. Brought(e) /\ e.kind # "created"
      BY <2>4, <2>6 DEF Outside
    <3>2. CASE DownQueued
      BY <3>1, <3>2, DownStaysQueued
    <3>3. CASE DownNoted
      BY <1>1, <3>1, <3>3, SsAdds DEF DownNoted, Brought
    <3> QED
      BY <2>3, <3>2, <3>3
  <2> QED
    BY <2>5, <2>6, ClientBrings, EnvironmentBrings
<1> QED
  BY <1>3, <1>4

LEMMA ServiceDown ==
    ASSUME TypeOK, DownInv, SsStep
    PROVE  DownInv'
<1> SUFFICES ASSUME conn' = 1, up'[1] = "Down", listening', ~late'
             PROVE  DownQueued' \/ DownNoted'
  BY DEF DownInv
<1>1. UNCHANGED <<up, conn>>
  BY ServiceLeaves
<1>2. listening
  BY DEF SsStep, SsOpened, SsDown, SsCreated, SsAttach, SsAttached, SsRefused, SsRequest, SsTrickle,
     SsMessaged, SsDetach, SsDetached, SsEnd, SsDestroyed, SsEvent, TypeOK
<1>3. ~late /\ (SsDown => ~\E i \in 1..Len(pcQueue) : SetsConnected(i))
  <2>1. CASE SsDown
    BY <2>1 DEF SsDown
  <2>2. CASE ~SsDown
    <3>1. late' = late
      BY <2>2 DEF SsStep, SsOpened, SsCreated, SsAttach, SsAttached, SsRefused, SsRequest, SsTrickle,
         SsMessaged, SsDetach, SsDetached, SsEnd, SsDestroyed, SsEvent
    <3> QED
      BY <2>2, <3>1
  <2> QED
    BY <2>1, <2>2
<1>4. DownQueued \/ DownNoted
  BY <1>1, <1>2, <1>3 DEF DownInv
<1>5. PICK kind : Take(kind) /\ (kind = "down" <=> SsDown) /\ (kind = "created" <=> SsCreated)
  BY ServiceTakes
<1>6. InSs' \subseteq InSs /\ \E t \in InSs : t.kind = kind
  BY <1>5, SsDrops
<1>7. CASE DownNoted
  <2>1. ~SsCreated
    BY <1>5, <1>6, <1>7 DEF DownNoted
  <2> QED
    BY <1>6, <1>7, <2>1, ServiceSetsConnected, ServiceConnected DEF DownNoted
<1>8. CASE DownQueued /\ ~DownQueued'
  <2>1. kind = "down" /\ \A t \in InSs' : t.kind # "created"
    BY <1>5, <1>8, DownMovesUp
  <2>2. SsDown /\ pcQueue' = pcQueue /\ ~connected'
    BY <1>5, <2>1 DEF SsDown
  <2>3. \A t \in InPc' : t.kind # "setConnected"
    BY <1>3, <2>2, PcSameContents DEF InPc, SetsConnected
  <2> QED
    BY <2>1, <2>2, <2>3 DEF DownNoted
<1> QED
  BY <1>4, <1>7, <1>8

LEMMA ClientThreadDown ==
    ASSUME TypeOK, DownInv, PcStep
    PROVE  DownInv'
<1>1. UNCHANGED <<up, conn, ssQueue, listening, late>> /\ InSs' = InSs
  BY ClientThreadLeaves, SsSameContents
<1>2. DownQueued' <=> DownQueued
  BY <1>1 DEF DownQueued
<1>3. DownNoted => DownNoted'
  <2> SUFFICES ASSUME DownNoted PROVE DownNoted'
    OBVIOUS
  <2>1. CASE pcQueue' = pcQueue /\ connected' = connected
    BY <1>1, <2>1, PcSameContents DEF DownNoted
  <2>2. CASE pcQueue # <<>> /\ pcQueue' = Tail(pcQueue)
    <3>1. InPc' \subseteq InPc /\ Head(pcQueue) \in InPc
      BY <2>2, PcDrops
    <3>2. Head(pcQueue).kind # "setConnected"
      BY <3>1 DEF DownNoted
    <3>3. connected' = connected
      BY <2>2, <3>2, ClientThreadPops
    <3> QED
      BY <1>1, <3>1, <3>3 DEF DownNoted
  <2> QED
    BY <2>1, <2>2, ClientThreadPops
<1> QED
  BY <1>1, <1>2, <1>3 DEF DownInv

LEMMA SInvStep ==
    ASSUME TypeOK, TypeOK', HInv, SInv, Next
    PROVE  SInv'
<1>1. SessionParts
  BY DEF SInv, SessionParts
<1>2. ClientReachable'
  BY ReachableStep DEF SInv
<1>3. SessionParts'
  BY <1>1, ClientSession, EnvironmentSession, ServiceSession, ClientThreadSession DEF SInv, Next
<1>4. ConnectionsInv'
  BY <1>1, OutsideConnections, ServiceConnections, ClientThreadConnections DEF SInv, Next
<1>5. DownInv'
  BY OutsideDown, ServiceDown, ClientThreadDown DEF SInv, Next
<1> QED
  BY <1>2, <1>3, <1>4, <1>5 DEF SInv, SessionParts

\* What TLC checks of the connection follows.
LEMMA ConnectedFollows ==
    ASSUME TypeOK, SInv
    PROVE  ConnectedExact
<1> SUFFICES ASSUME conn = 1, Settled, ~late, listening
             PROVE  connected <=> up[1] = "Open" /\ sessionId # 0
  BY DEF ConnectedExact
<1>1. /\ \A t \in InPc : t.kind # "setConnected"
      /\ \A t \in InSs : t.kind \notin {"down", "created"}
  BY DEF Settled, SetsConnected, InPc, InSs
<1>2. 1 \in Connections /\ \A c \in Connections : c = 1 \/ up[c] = "None"
  BY Bounds DEF TypeOK, Connections, SInv, ConnectionsInv
<1>3. ASSUME connected PROVE up[1] = "Open" /\ sessionId # 0
  <2>1. sessionId # 0
    BY <1>3 DEF SInv, ConnectionsInv
  <2>2. sessions # 0
    BY <2>1 DEF TypeOK, SInv, SessionThere
  <2>3. up[1] \in {"Open", "Down"}
    BY <1>2, <2>2 DEF SInv, ConnectionsInv
  <2>4. up[1] # "Down"
    <3> SUFFICES ASSUME up[1] = "Down" PROVE FALSE
      OBVIOUS
    <3>1. DownQueued \/ DownNoted
      BY DEF SInv, DownInv
    <3>2. ~DownQueued
      BY DEF DownQueued, Settled
    <3> QED
      BY <1>3, <3>1, <3>2 DEF DownNoted
  <2> QED
    BY <2>1, <2>3, <2>4
<1>4. ASSUME up[1] = "Open", sessionId # 0 PROVE connected
  <2>1. \A c \in Connections : up[c] # "Down"
    BY <1>2, <1>4
  <2> QED
    BY <1>1, <1>4, <2>1 DEF SInv, ConnectionsInv
<1> QED
  BY <1>3, <1>4 DEF TypeOK

-----------------------------------------------------------------------------
(* MInv: where the message of a task is, before and after a step.           *)

LEMMA AppendWhos ==
    ASSUME NEW S, NEW queue \in Seq(S), NEW e \in S
    PROVE  /\ Whos(Append(queue, e)) = Whos(queue) \cup ({e.who} \cap Messages)
           /\ OnceIn(queue) /\ e.who \notin Whos(queue) => OnceIn(Append(queue, e))
<1>0. PICK q : q = Append(queue, e)
  OBVIOUS
<1>1. /\ Len(q) = Len(queue) + 1 /\ Len(queue) \in Nat
      /\ \A i \in 1..Len(queue) : q[i] = queue[i]
      /\ q[Len(queue) + 1] = e
      /\ \A i \in 1..Len(q) : i \in 1..Len(queue) \/ i = Len(queue) + 1
  BY <1>0
<1>2. Whos(q) = Whos(queue) \cup ({e.who} \cap Messages)
  BY <1>1 DEF Whos
<1>3. ASSUME OnceIn(queue), e.who \notin Whos(queue) PROVE OnceIn(q)
  <2>1. \A i \in 1..Len(queue) : queue[i].who \in Messages => queue[i].who # e.who
    BY <1>3 DEF Whos
  <2> QED
    BY <1>1, <1>3, <2>1 DEF OnceIn
<1> QED
  BY <1>0, <1>2, <1>3

LEMMA TailWhos ==
    ASSUME NEW S, NEW queue \in Seq(S), queue # <<>>
    PROVE  /\ Whos(queue) = Whos(Tail(queue)) \cup ({Head(queue).who} \cap Messages)
           /\ OnceIn(queue) => OnceIn(Tail(queue)) /\ Head(queue).who \notin Whos(Tail(queue))
<1>0. PICK q : q = Tail(queue)
  OBVIOUS
<1>1. /\ Len(q) = Len(queue) - 1 /\ Len(queue) \in Nat \ {0}
      /\ Head(queue) = queue[1]
      /\ \A i \in 1..Len(q) : q[i] = queue[i + 1] /\ i + 1 \in 1..Len(queue)
  BY <1>0
<1>2. \A i \in 1..Len(queue) : i = 1 \/ (i - 1 \in 1..Len(q) /\ q[i - 1] = queue[i])
  BY <1>1
<1>3. Whos(queue) = Whos(q) \cup ({Head(queue).who} \cap Messages)
  BY <1>1, <1>2 DEF Whos
<1>4. ASSUME OnceIn(queue) PROVE OnceIn(q) /\ Head(queue).who \notin Whos(q)
  <2>1. \A i, j \in 1..Len(queue) :
           queue[i].who \in Messages /\ queue[i].who = queue[j].who => i = j
    BY <1>4 DEF OnceIn
  <2>2. OnceIn(q)
    BY <1>1, <2>1 DEF OnceIn
  <2>3. \A i \in 1..Len(q) : q[i].who \in Messages => q[i].who # queue[1].who
    <3> SUFFICES ASSUME NEW i \in 1..Len(q), q[i].who \in Messages, q[i].who = queue[1].who
                 PROVE  FALSE
      OBVIOUS
    <3>1. q[i] = queue[i + 1] /\ i + 1 \in 1..Len(queue) /\ 1 \in 1..Len(queue) /\ i + 1 # 1
      BY <1>1
    <3> QED
      BY <2>1, <3>1
  <2> QED
    BY <1>1, <2>2, <2>3 DEF Whos
<1> QED
  BY <1>0, <1>3, <1>4

LEMMA CleansUpWhos ==
    ASSUME TypeOK, NEW hs \in SUBSET Handles, RemoveLocally(hs)
    PROVE  Whos(pcQueue') = Whos(pcQueue) /\ (OnceIn(pcQueue) => OnceIn(pcQueue'))
<1>1. /\ Len(pcQueue) \in Nat /\ Len(pcQueue') \in Nat /\ Len(pcQueue) <= Len(pcQueue')
      /\ \A i \in 1..Len(pcQueue) : pcQueue'[i] = pcQueue[i]
      /\ \A i \in 1..Len(pcQueue') : i \in 1..Len(pcQueue) \/ pcQueue'[i].who = Nobody
  BY PcCleansUp
<1>2. \A i \in 1..Len(pcQueue') : pcQueue'[i].who \in Messages => i \in 1..Len(pcQueue)
  BY <1>1, NoMessage
<1>3. Whos(pcQueue') = Whos(pcQueue)
  BY <1>1, <1>2 DEF Whos
<1>4. ASSUME OnceIn(pcQueue) PROVE OnceIn(pcQueue')
  BY <1>1, <1>2, <1>4 DEF OnceIn
<1> QED
  BY <1>3, <1>4

LEMMA OutsideOnce ==
    ASSUME TypeOK, MInv, Environment \/ ClientStep
    PROVE  MInv'
<1>1. UNCHANGED <<pcQueue, runs>> /\ Ran' = Ran
  BY OutsideLeaves DEF Ran
<1>2. pending' \subseteq pending
  BY DEF Environment, Connect, ConnectionUp, ConnectionDown, ReplyCreate, ReplyAttach, ReplyRefused,
     ReplyOther, Reply, Lose, ServerEvent, Destroy, ClientStep, CallAttach, CallHangup, CallDetach,
     CallTrickle, OpenPeer, CallMessage, Call, serverVars
<1>3. WantedOnce' /\ Wanted' \subseteq Wanted
  BY <1>2 DEF MInv, WantedOnce, Wanted
<1>4. CASE ssQueue' = ssQueue
  BY <1>1, <1>3, <1>4 DEF MInv, Apart
<1>5. ASSUME NEW e, Outside(e) PROVE MInv'
  <2>1. e \in SsTasks /\ ssQueue' = Append(ssQueue, e) /\ ssQueue \in Seq(SsTasks)
    BY <1>5 DEF Outside, Brought, TypeOK
  <2>2. /\ Whos(ssQueue') = Whos(ssQueue) \cup ({e.who} \cap Messages)
        /\ e.who \notin Whos(ssQueue) => OnceIn(ssQueue')
    BY <2>1, AppendWhos DEF MInv
  <2>3. CASE e.who \notin Messages
    <3>1. e.who \notin Whos(ssQueue)
      BY <2>3 DEF Whos
    <3> QED
      BY <1>1, <1>3, <2>2, <2>3, <3>1 DEF MInv, Apart
  <2>4. CASE e.who \in Messages /\ pending' = pending /\ Fresh(e.who)
    <3>1. e.who \notin Whos(ssQueue) \cup Wanted \cup Whos(pcQueue) \cup Ran
      BY <2>4 DEF Fresh, Whos, Wanted, Ran
    <3>2. Wanted' = Wanted
      BY <2>4 DEF Wanted
    <3>3. Apart(Whos(ssQueue'), Wanted', Whos(pcQueue'), Ran)
      BY <1>1, <2>2, <3>1, <3>2 DEF MInv, Apart
    <3> QED
      BY <1>1, <1>3, <2>2, <3>1, <3>3 DEF MInv
  <2>5. CASE e.who \in Messages /\ \E q \in pending : q.who = e.who /\ pending' = pending \ {q}
    <3>1. e.who \in Wanted /\ e.who \notin Wanted'
      BY <2>5 DEF MInv, WantedOnce, Wanted
    <3>2. e.who \notin Whos(ssQueue) \cup Whos(pcQueue) \cup Ran
      BY <3>1 DEF MInv, Apart
    <3>3. Apart(Whos(ssQueue'), Wanted', Whos(pcQueue'), Ran)
      BY <1>1, <1>3, <2>2, <3>1, <3>2 DEF MInv, Apart
    <3> QED
      BY <1>1, <1>3, <2>2, <3>2, <3>3 DEF MInv
  <2> QED
    BY <1>5, <2>3, <2>4, <2>5 DEF Outside
<1> QED
  BY <1>4, <1>5, ClientBrings, EnvironmentBrings

\* A request that signaling-service sends carries the message of its task.
Sends(q) ==
    /\ pending' = pending \cup {q}
    /\ q.who \in Messages => q.who = Head(ssQueue).who /\ pcQueue' = pcQueue

LEMMA SentSends ==
    ASSUME NEW kind, NEW handle, NEW who, Send(kind, handle, who),
           who \in Messages => who = Head(ssQueue).who /\ pcQueue' = pcQueue
    PROVE  pending' = pending \/ \E q : Sends(q)
<1>1. CASE conn # 0 /\ up[conn] = "Open"
  <2> DEFINE q == [id |-> asked', kind |-> kind, session |-> sessionId, handle |-> handle,
                   who |-> who, conn |-> conn]
  <2>1. pending' = pending \cup {q} /\ q.who = who
    BY <1>1 DEF Send
  <2> QED
    BY <2>1 DEF Sends
<1>2. CASE ~(conn # 0 /\ up[conn] = "Open")
  BY <1>2 DEF Send
<1> QED
  BY <1>1, <1>2

LEMMA ServiceSends ==
    ASSUME TypeOK, SsStep
    PROVE  pending' = pending \/ \E q : Sends(q)
<1>1. CASE SsDown \/ SsCreated \/ SsAttached \/ SsRefused \/ SsMessaged \/ SsDetached \/ SsDestroyed
           \/ SsEvent
  BY <1>1 DEF SsDown, SsCreated, SsAttached, SsRefused, SsMessaged, SsDetached, SsDestroyed, SsEvent,
     SendNothing
<1>2. CASE SsOpened
  BY <1>2, SentSends, NoMessage DEF SsOpened
<1>3. CASE SsAttach \/ SsTrickle
  BY <1>3, SentSends DEF SsAttach, SsTrickle
<1>4. ASSUME NEW kind \in {"message", "hangup"}, SsRequest(kind)
      PROVE  pending' = pending \/ \E q : Sends(q)
  <2>1. CASE Handled(Head(ssQueue).n)
    BY <1>4, <2>1, SentSends DEF SsRequest
  <2>2. CASE ~Handled(Head(ssQueue).n)
    BY <1>4, <2>2 DEF SsRequest, SendNothing
  <2> QED
    BY <2>1, <2>2
<1>5. CASE SsDetach
  <2>1. Head(ssQueue).who \notin Messages
    BY <1>5, SsTaken, NoMessage DEF SsDetach, SsTasks
  <2>2. CASE Handled(Head(ssQueue).n) /\ connected
    BY <1>5, <2>1, <2>2, SentSends DEF SsDetach
  <2>3. CASE ~(Handled(Head(ssQueue).n) /\ connected)
    BY <1>5, <2>3 DEF SsDetach, SendNothing
  <2> QED
    BY <2>2, <2>3
<1>6. CASE SsEnd
  <2>1. CASE sessionId # 0 /\ connected
    BY <1>6, <2>1, SentSends, NoMessage DEF SsEnd
  <2>2. CASE ~(sessionId # 0 /\ connected)
    BY <1>6, <2>2 DEF SsEnd, SendNothing
  <2> QED
    BY <2>1, <2>2
<1> QED
  BY <1>1, <1>2, <1>3, <1>4, <1>5, <1>6 DEF SsStep

LEMMA ServiceOnce ==
    ASSUME TypeOK, MInv, SsStep
    PROVE  MInv'
<1>0. PICK m : m = Head(ssQueue).who
  OBVIOUS
<1>1. UNCHANGED runs /\ Ran' = Ran
  BY ServiceLeaves DEF Ran
<1>2. ssQueue # <<>> /\ ssQueue' = Tail(ssQueue) /\ ssQueue \in Seq(SsTasks)
  BY ServiceTakes DEF Take, TypeOK
<1>3. /\ Whos(ssQueue) = Whos(ssQueue') \cup ({m} \cap Messages)
      /\ OnceIn(ssQueue') /\ m \notin Whos(ssQueue')
  BY <1>0, <1>2, TailWhos DEF MInv
\* The message of the task, if it has one, was nowhere else.
<1>4. m \in Messages => m \notin Wanted \cup Whos(pcQueue) \cup Ran
  BY <1>3 DEF MInv, Apart
<1>5. /\ pending' = pending => WantedOnce' /\ Wanted' = Wanted
      /\ \A q : Sends(q) => WantedOnce' /\ Wanted' = Wanted \cup ({q.who} \cap Messages)
  <2>1. pending' = pending => WantedOnce' /\ Wanted' = Wanted
    BY DEF MInv, WantedOnce, Wanted
  <2>2. ASSUME NEW q, Sends(q) PROVE WantedOnce' /\ Wanted' = Wanted \cup ({q.who} \cap Messages)
    <3>1. pending' = pending \cup {q} /\ q.who \notin Wanted
      BY <1>0, <1>4, <2>2 DEF Sends, Wanted
    <3>2. Wanted' = Wanted \cup ({q.who} \cap Messages)
      BY <3>1 DEF Wanted
    <3>3. WantedOnce'
      BY <3>1 DEF MInv, WantedOnce, Wanted
    <3> QED
      BY <3>2, <3>3
  <2> QED
    BY <2>1, <2>2
<1>6. CASE pcQueue' = pcQueue
  <2>1. WantedOnce' /\ Wanted' \subseteq Wanted \cup ({m} \cap Messages)
    BY <1>0, <1>5, ServiceSends DEF Sends
  <2>2. Apart(Whos(ssQueue'), Wanted', Whos(pcQueue'), Ran)
    BY <1>3, <1>4, <1>6, <2>1 DEF MInv, Apart
  <2> QED
    BY <1>1, <1>3, <1>6, <2>1, <2>2 DEF MInv
<1>7. CASE pcQueue' # pcQueue
  <2>1. WantedOnce' /\ Wanted' = Wanted
    BY <1>5, <1>7, ServiceSends DEF Sends
  <2>2. OnceIn(pcQueue') /\ Whos(pcQueue') \subseteq Whos(pcQueue) \cup ({m} \cap Messages)
    <3>1. ASSUME NEW e, Posts(e)
          PROVE  OnceIn(pcQueue') /\ Whos(pcQueue') \subseteq Whos(pcQueue) \cup ({m} \cap Messages)
      <4>1. e \in PcTasks /\ pcQueue' = Append(pcQueue, e) /\ pcQueue \in Seq(PcTasks)
        BY <3>1 DEF Posts, TypeOK
      <4>2. e.who \in Messages => e.who = m
        BY <1>0, <3>1 DEF Posts
      <4>3. e.who \notin Whos(pcQueue)
        BY <1>4, <4>2 DEF Whos
      <4> QED
        BY <4>1, <4>2, <4>3, AppendWhos DEF MInv
    <3>2. ASSUME NEW hs \in SUBSET Handles, RemoveLocally(hs)
          PROVE  OnceIn(pcQueue') /\ Whos(pcQueue') \subseteq Whos(pcQueue) \cup ({m} \cap Messages)
      BY <3>2, CleansUpWhos DEF MInv
    <3> QED
      BY <1>7, <3>1, <3>2, ServicePosts
  <2>3. Apart(Whos(ssQueue'), Wanted', Whos(pcQueue'), Ran)
    BY <1>3, <1>4, <2>1, <2>2 DEF MInv, Apart
  <2> QED
    BY <1>1, <1>3, <2>1, <2>2, <2>3 DEF MInv
<1> QED
  BY <1>6, <1>7

LEMMA ClientThreadOnce ==
    ASSUME TypeOK, MInv, PcStep
    PROVE  MInv'
<1>0. PICK m : m = Head(pcQueue).who
  OBVIOUS
<1>1. UNCHANGED <<ssQueue, pending>>
  BY ClientThreadLeaves
<1>2. WantedOnce' /\ Wanted' = Wanted
  BY <1>1 DEF MInv, WantedOnce, Wanted
<1>3. ASSUME pcQueue # <<>>, pcQueue' = Tail(pcQueue)
      PROVE  /\ Whos(pcQueue) = Whos(pcQueue') \cup ({m} \cap Messages)
             /\ OnceIn(pcQueue') /\ m \notin Whos(pcQueue')
  <2>1. pcQueue \in Seq(PcTasks)
    BY DEF TypeOK
  <2> QED
    BY <1>0, <1>3, <2>1, TailWhos DEF MInv
<1>4. CASE PcCallback
  <2>1. pcQueue # <<>> /\ pcQueue' = Tail(pcQueue) /\ runs' = [runs EXCEPT ![m] = @ + 1]
    BY <1>0, <1>4 DEF PcCallback, PcTake
  <2>2. m \in Messages
    <3>1. Head(pcQueue) \in PcTasks /\ Head(pcQueue).kind = "callback"
      BY <1>4, PcTaken DEF PcCallback
    <3> QED
      BY <1>0, <3>1 DEF PcTasks
  <2>3. m \notin Whos(ssQueue) \cup Wanted \cup Ran \cup Whos(pcQueue')
    BY <1>3, <2>1, <2>2 DEF MInv, Apart
  <2>4. runs[m] = 0
    BY <2>2, <2>3 DEF Ran
  <2>5. \A n \in Messages : runs'[n] = IF n = m THEN 1 ELSE runs[n]
    BY <2>1, <2>2, <2>4 DEF TypeOK
  <2>6. Ran' = Ran \cup {m} /\ \A n \in Messages : runs'[n] <= 1
    BY <2>2, <2>5 DEF Ran, MInv
  <2>7. Apart(Whos(ssQueue'), Wanted', Whos(pcQueue'), Ran')
    BY <1>1, <1>2, <1>3, <2>1, <2>3, <2>6 DEF MInv, Apart
  <2> QED
    BY <1>1, <1>2, <1>3, <2>1, <2>6, <2>7 DEF MInv
<1>5. CASE ~PcCallback
  <2>1. runs' = runs /\ Ran' = Ran
    BY <1>5 DEF PcStep, PcSetConnected, PcAttached, PcRefused, PcFind, PcFetch, PcDeliver,
       PcCleanup, historyVars, Ran
  <2>2. OnceIn(pcQueue') /\ Whos(pcQueue') \subseteq Whos(pcQueue)
    BY <1>3, ClientThreadPops DEF MInv
  <2>3. Apart(Whos(ssQueue'), Wanted', Whos(pcQueue'), Ran')
    BY <1>1, <1>2, <2>1, <2>2 DEF MInv, Apart
  <2> QED
    BY <1>1, <1>2, <2>1, <2>2, <2>3 DEF MInv
<1> QED
  BY <1>4, <1>5

LEMMA OnceFollows ==
    ASSUME TypeOK, MInv
    PROVE  MessageOnce
<1> SUFFICES ASSUME NEW m \in Messages
             PROVE  /\ runs[m] <= 1
                    /\ runs[m] = 1 => /\ \A q \in pending : q.who # m
                                      /\ \A i \in 1..Len(ssQueue) : ssQueue[i].who # m
                                      /\ \A i \in 1..Len(pcQueue) : pcQueue[i].who # m
  BY DEF MessageOnce
<1>1. runs[m] <= 1
  BY DEF MInv
<1>2. ASSUME runs[m] = 1 PROVE m \notin Whos(ssQueue) \cup Wanted \cup Whos(pcQueue)
  BY <1>2 DEF MInv, Apart, Ran
<1> QED
  BY <1>1, <1>2 DEF Whos, Wanted

-----------------------------------------------------------------------------
(* The theorems of the session.                                             *)

LEMMA InitSession == ASSUME Init PROVE SInv /\ MInv
<1>1. Len(ssQueue) = 0 /\ Len(pcQueue) = 0 /\ pending = {} /\ InSs = {} /\ InPc = {}
  BY DEF Init, InSs, InPc
<1>2. SessionThere /\ TasksInSession /\ RequestsInSession /\ ClientReachable
  BY <1>1 DEF Init, SessionThere, TasksInSession, RequestsInSession, ClientReachable
<1>3. ConnectionsInv
  BY <1>1 DEF Init, ConnectionsInv
<1>4. DownInv
  BY DEF Init, DownInv
<1>5. OnceIn(ssQueue) /\ OnceIn(pcQueue) /\ WantedOnce
  BY <1>1 DEF OnceIn, WantedOnce
<1>6. Whos(ssQueue) = {} /\ Whos(pcQueue) = {} /\ Wanted = {}
  BY <1>1 DEF Whos, Wanted
<1>7. MInv
  BY <1>5, <1>6 DEF Init, MInv, Apart
<1> QED
  BY <1>2, <1>3, <1>4, <1>7 DEF SInv

LEMMA StutterSession == ASSUME SInv, MInv, UNCHANGED vars PROVE SInv' /\ MInv'
<1>0. UNCHANGED <<up, conn, pending, sessions, owner, ssQueue, pcQueue, connected, sessionStatus,
                  sessionId, listening, pluginClientMap, handleId, peer, erased, runs, late>>
  BY DEF vars, serverVars, sessionVars, clientVars, historyVars
<1>1. InSs' = InSs /\ InPc' = InPc
  BY <1>0 DEF InSs, InPc
<1>2. SessionThere' /\ TasksInSession' /\ RequestsInSession' /\ ClientReachable'
  BY <1>0, <1>1 DEF SInv, SessionThere, TasksInSession, RequestsInSession, ClientReachable, Owned
<1>3. ConnectionsInv'
  BY <1>0, <1>1 DEF SInv, ConnectionsInv
<1>4. DownInv'
  BY <1>0, <1>1 DEF SInv, DownInv, DownQueued, DownNoted
<1>5. MInv'
  BY <1>0 DEF MInv, WantedOnce, Wanted, Ran
<1> QED
  BY <1>2, <1>3, <1>4, <1>5 DEF SInv

\* What every reachable state of the session satisfies besides: where its
\* requests, its connection and each message are.
THEOREM SessionKept == Spec => [](TypeOK /\ SInv /\ MInv)
<1>1. Init => SInv /\ MInv
  BY InitSession
<1>2. TypeOK /\ TypeOK' /\ HInv /\ (SInv /\ MInv) /\ [Next]_vars => (SInv /\ MInv)'
  <2> SUFFICES ASSUME TypeOK, TypeOK', HInv, SInv, MInv, [Next]_vars
               PROVE  SInv' /\ MInv'
    OBVIOUS
  <2>1. CASE UNCHANGED vars
    BY <2>1, StutterSession
  <2>2. CASE Next
    BY <2>2, SInvStep, OutsideOnce, ServiceOnce, ClientThreadOnce DEF Next
  <2> QED
    BY <2>1, <2>2
<1> QED
  BY <1>1, <1>2, SessionInvariance, PTL DEF Spec

\* The handle a client calls with reaches that client until its detach was
\* answered, for any clients and handles, however their calls, the replies and
\* the clean-ups of the two threads interleave (signaling_client.cpp:101-103).
THEOREM ClientIsReached == Spec => []ClientReachable
<1>1. SInv => ClientReachable
  BY DEF SInv
<1> QED
  BY <1>1, SessionKept, PTL

\* Every request is made in a session the server created and names a handle of
\* it, unless there was a second session (signaling_client.cpp:499).
THEOREM AskedInSession == Spec => []RequestsInSession
<1>1. SInv => RequestsInSession
  BY DEF SInv
<1> QED
  BY <1>1, SessionKept, PTL

\* On the only connection _connected tells whether the server can be reached,
\* except after a loss that overtook the task that sets it
\* (signaling_client.cpp:277-294).
THEOREM ConnectedIsExact == Spec => []ConnectedExact
<1>1. TypeOK /\ SInv => ConnectedExact
  BY ConnectedFollows
<1> QED
  BY <1>1, SessionKept, PTL

\* The callback of a message runs once at most, for any messages, clients and
\* handles, whatever is lost (signaling_client.cpp:148-181).
THEOREM CallbackOnce == Spec => []MessageOnce
<1>1. TypeOK /\ MInv => MessageOnce
  BY OnceFollows
<1> QED
  BY <1>1, SessionKept, PTL

-----------------------------------------------------------------------------
(* The refinement.  What is posted goes behind the task that plugin-client  *)
(* is in, so the handle it is giving an event of stays the same.            *)

LEMMA HeadKept ==
    ASSUME TypeOK, SsStep, pcQueue # <<>>
    PROVE  Head(pcQueue') = Head(pcQueue)
<1>1. pcQueue \in Seq(PcTasks) /\ Len(pcQueue) \in Nat \ {0} /\ Head(pcQueue) = pcQueue[1]
  BY DEF TypeOK
<1>2. CASE pcQueue' = pcQueue
  BY <1>2
<1>3. ASSUME NEW e, Posts(e)
      PROVE  Head(pcQueue') = Head(pcQueue)
  BY <1>1, <1>3 DEF Posts
<1>4. ASSUME NEW hs \in SUBSET Handles, RemoveLocally(hs)
      PROVE  Head(pcQueue') = Head(pcQueue)
  <2>1. Len(pcQueue') \in Nat /\ Len(pcQueue) <= Len(pcQueue') /\ pcQueue'[1] = pcQueue[1]
    BY <1>1, <1>4, PcCleansUp
  <2> QED
    BY <1>1, <2>1
<1> QED
  BY <1>2, <1>3, <1>4, ServicePosts

LEMMA GivingKept ==
    ASSUME TypeOK, HInv, Environment \/ ClientStep \/ SsStep
    PROVE  Giving' = Giving
<1>1. found' = found /\ held' = held
  BY DEF Environment, Connect, ConnectionUp, ConnectionDown, ReplyCreate, ReplyAttach, ReplyRefused,
     ReplyOther, Reply, Lose, ServerEvent, Destroy, ClientStep, CallAttach, CallHangup, CallDetach,
     CallTrickle, OpenPeer, CallMessage, Call, SsStep, SsOpened, SsDown, SsCreated, SsAttach,
     SsAttached, SsRefused, SsRequest, SsTrickle, SsMessaged, SsDetach, SsDetached, SsEnd,
     SsDestroyed, SsEvent, Take
<1>2. held # Nobody => pcQueue # <<>>
  BY DEF HInv, HeldFound, FoundFirst
<1>3. CASE Environment \/ ClientStep
  <2>1. pcQueue' = pcQueue
    BY <1>3, OutsideLeaves
  <2> QED
    BY <1>1, <2>1 DEF Giving
<1>4. CASE SsStep
  <2>1. held # Nobody => Head(pcQueue') = Head(pcQueue)
    BY <1>2, <1>4, HeadKept
  <2> QED
    BY <1>1, <2>1 DEF Giving
<1> QED
  BY <1>3, <1>4

\* A step that leaves what its client knows of a handle, or a step of its life.
LEMMA LifeStep ==
    ASSUME TypeOK, HInv, [Next]_vars
    PROVE  [Life!Next]_(Life!vars)
<1> USE DEF Life!vars
<1>1. CASE UNCHANGED vars
  BY <1>1 DEF vars, historyVars, Giving
<1>2. CASE Environment \/ ClientStep
  <2>1. UNCHANGED <<told, heard, erased>>
    BY <1>2 DEF Environment, Connect, ConnectionUp, ConnectionDown, ReplyCreate, ReplyAttach,
       ReplyRefused, ReplyOther, Reply, Lose, ServerEvent, Destroy, ClientStep, CallAttach,
       CallHangup, CallDetach, CallTrickle, OpenPeer, CallMessage, Call, historyVars
  <2> QED
    BY <1>2, <2>1, GivingKept
<1>3. CASE SsDetached
  <2> DEFINE h == Head(ssQueue).n
  <2>1. h \in Handles
    BY <1>3, SsTaken DEF SsDetached, SsTasks
  <2>2. Giving' = Giving
    BY <1>3, GivingKept DEF SsStep
  <2>3. Life!Erase(h)
    BY <1>3, <2>2 DEF SsDetached, Take, Life!Erase
  <2> QED
    BY <2>1, <2>3 DEF Life!Next
<1>4. CASE SsStep /\ ~SsDetached
  <2>1. UNCHANGED <<told, heard, erased>>
    BY <1>4 DEF SsStep, SsOpened, SsDown, SsCreated, SsAttach, SsAttached, SsRefused, SsRequest,
       SsTrickle, SsMessaged, SsDetach, SsEnd, SsDestroyed, SsEvent, Take
  <2> QED
    BY <1>4, <2>1, GivingKept
<1>5. CASE PcAttached
  <2> DEFINE h == Head(pcQueue).n
  <2>1. pcQueue # <<>> /\ Head(pcQueue).kind = "attached" /\ held' = held
    BY <1>5 DEF PcAttached, PcTake
  <2>2. h \in Handles
    BY <1>5, PcTaken DEF PcAttached, PcTasks
  <2>3. 1 \in 1..Len(pcQueue) /\ Head(pcQueue) = pcQueue[1]
    BY <2>1 DEF TypeOK
  <2>4. ~told[h]
    BY <2>1, <2>2, <2>3 DEF HInv, ToldOnce, Telling
  <2>5. Giving = 0 /\ Giving' = 0
    BY <2>1 DEF Giving, HInv, HeldFound, FoundFirst, IsAbout
  <2>6. Life!Tell(h)
    BY <1>5, <2>4, <2>5 DEF PcAttached, PcTake, Life!Tell
  <2> QED
    BY <2>2, <2>6 DEF Life!Next
<1>6. CASE PcFetch
  <2>1. /\ found # 0 /\ held = Nobody /\ found \in Handles
        /\ pcQueue # <<>> /\ IsAbout(Head(pcQueue)) /\ Head(pcQueue).n = found
        /\ UNCHANGED <<told, heard, erased>>
    BY <1>6, Bounds DEF PcFetch, HInv, FoundFirst, TypeOK, Handles, historyVars
  <2>2. Giving = 0
    BY <2>1 DEF Giving
  <2>3. CASE Handled(found) /\ Head(pcQueue).kind = "deliver"
    <3>1. held' # Nobody /\ found' = found /\ pcQueue' = pcQueue
      BY <1>6, <2>3, NobodyAssumption DEF PcFetch, Handled
    <3>2. Giving' = found
      BY <2>3, <3>1 DEF Giving
    <3>3. 1 \in 1..Len(pcQueue) /\ Head(pcQueue) = pcQueue[1]
      BY <2>1 DEF TypeOK
    <3>4. told[found] /\ ~erased[found]
      BY <2>1, <2>3, <3>3 DEF HInv, ToldFirst, ErasedGone
    <3>5. Life!Give(found)
      BY <2>1, <2>2, <3>2, <3>4 DEF Life!Give
    <3> QED
      BY <2>1, <3>5 DEF Life!Next
  <2>4. CASE Handled(found) /\ Head(pcQueue).kind # "deliver"
    <3>1. pcQueue' = pcQueue
      BY <1>6, <2>4 DEF PcFetch
    <3> QED
      BY <2>1, <2>2, <2>4, <3>1 DEF Giving
  <2>5. CASE ~Handled(found)
    <3>1. held' = Nobody
      BY <1>6, <2>1, <2>5 DEF PcFetch
    <3> QED
      BY <2>1, <2>2, <3>1 DEF Giving
  <2> QED
    BY <2>3, <2>4, <2>5
<1>7. CASE PcDeliver
  <2>1. /\ held # Nobody /\ held' = Nobody /\ Head(pcQueue).kind = "deliver"
        /\ heard' = [heard EXCEPT ![found] = @ + 1]
        /\ UNCHANGED <<told, erased>>
    BY <1>7 DEF PcDeliver, PcCalls, PcTake
  <2>2. found \in Handles
    BY <2>1, Bounds DEF HInv, HeldFound, TypeOK, Handles
  <2>3. Giving = found /\ Giving' = 0
    BY <2>1 DEF Giving
  <2>4. Life!Hear(found)
    BY <2>1, <2>3 DEF Life!Hear
  <2> QED
    BY <2>2, <2>4 DEF Life!Next
<1>8. CASE PcStep /\ ~PcAttached /\ ~PcFetch /\ ~PcDeliver
  <2>1. UNCHANGED <<told, heard, erased>>
    BY <1>8 DEF PcStep, PcSetConnected, PcRefused, PcCallback, PcFind, PcCleanup, PcCalls, PcTake,
       historyVars
  <2>2. CASE PcCleanup
    <3>1. Head(pcQueue).kind = "cleanup" /\ held' = Nobody
      BY <2>2 DEF PcCleanup, PcCalls, PcTake
    <3> QED
      BY <2>1, <3>1 DEF Giving
  <2>3. CASE PcSetConnected \/ PcRefused \/ PcCallback \/ PcFind
    <3>1. found = 0 /\ held' = held
      BY <2>3 DEF PcSetConnected, PcRefused, PcCallback, PcFind, PcIdle, PcTake, HInv, FoundFirst,
         IsAbout
    <3>2. held = Nobody
      BY <3>1 DEF HInv, HeldFound
    <3> QED
      BY <2>1, <3>1, <3>2 DEF Giving
  <2> QED
    BY <1>8, <2>2, <2>3 DEF PcStep
<1> QED
  BY <1>1, <1>2, <1>3, <1>4, <1>5, <1>6, <1>7, <1>8 DEF Next

\* To its plugin client each handle lives as HandleLife says, however many
\* clients, handles, sessions and connections there are and whatever is lost:
\* it is told once that it is attached, before its first event, and once the
\* detach was answered it gets no event but one whose look-up was through by
\* then (signaling_client.cpp:88-110, 253-263, 305-309, 446-454, 537-548).
THEOREM HandlesLive == Spec => LifeKept
<1>1. Init => Life!Init
  BY DEF Init, Life!Init, Giving
<1>2. TypeOK /\ HInv /\ [Next]_vars => [Life!Next]_(Life!vars)
  BY LifeStep
<1> QED
  BY <1>1, <1>2, SessionInvariance, PTL DEF Spec, LifeKept, Life!Spec
=============================================================================
