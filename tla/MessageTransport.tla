-------------------------- MODULE MessageTransport --------------------------
(***************************************************************************)
(* The request path of the client: JanusApiClient over MessageTransport    *)
(* over WebsocketEndpoint.  Four threads meet here.                        *)
(*   - the callers: the signaling-service thread (ServiceThread), which    *)
(*     makes every request and every connect, and the heartbeat thread,    *)
(*     which calls keepAlive directly;                                     *)
(*   - the websocket thread, on which ConnectionMetadata's handlers run;   *)
(*   - the message-transport thread, which looks callbacks up (mtQueue);   *)
(*   - signaling-service again, where callbacks and observers run          *)
(*     (ssQueue).                                                          *)
(* A call is one invocation of a JanusApiClient method; which method it is *)
(* makes no difference to the transport.  Its transaction is the text that *)
(* StringUtils::randomString computes from the clock alone, so the model   *)
(* takes the tick for the text.  Connections are numbered from 1, and 0 is *)
(* the code's -1.  Texts that do not parse, or have no "janus", are        *)
(* dropped on the websocket thread and change nothing.                     *)
(***************************************************************************)
EXTENDS Integers, Sequences

CONSTANTS
    Calls,          \* the requests that will ever be made
    NoCall,         \* no request
    Threads,        \* the threads that make requests
    ServiceThread,  \* the one of them that runs the signaling-service queue
    MaxTick,        \* bound: ticks of steady_clock, and so arrivals
    MaxConn         \* bound: connections opened

ASSUME CallsAssumption  == NoCall \notin Calls
ASSUME ThreadAssumption == ServiceThread \in Threads
ASSUME BoundAssumption  == MaxTick \in Nat \ {0} /\ MaxConn \in Nat

VARIABLES
    status,        \* ConnectionMetadata::_status of each connection
    nextId,        \* WebsocketEndpoint::_nextId: connections created so far
    connecting,    \* the connection whose id connect() has yet to return, or 0
    connectionId,  \* MessageTransport::_connectionId
    clock,         \* steady_clock
    transaction,   \* the transaction drawn by each call, 0 before
    sending,       \* the call each thread has sent but not yet registered
    sentOn,        \* the connection that took each call's text, or 0
    callbacks,     \* MessageTransport::_callbacksMap
    inbox,         \* history: what arrived, in the websocket thread's order
    mtQueue,       \* tasks of message-transport: indices in inbox
    ssQueue,       \* tasks of signaling-service: index and callback to run
    runs,          \* history: how often each call's callback has run
    last           \* history: index of the last arrival signaling-service saw

connectionVars == <<status, nextId, connecting, connectionId>>
callVars       == <<transaction, sending, sentOn>>
observedVars   == <<runs, last>>
vars == <<connectionVars, clock, callVars, callbacks, inbox, mtQueue, ssQueue, observedVars>>

Ticks       == 1..MaxTick
Connections == 1..MaxConn

Init ==
    /\ status = [c \in Connections |-> "None"]
    /\ nextId = 0
    /\ connecting = 0
    /\ connectionId = 0
    /\ clock = 1
    /\ transaction = [r \in Calls |-> 0]
    /\ sending = [t \in Threads |-> NoCall]
    /\ sentOn = [r \in Calls |-> 0]
    /\ callbacks = [x \in Ticks |-> NoCall]
    /\ inbox = <<>>
    /\ mtQueue = <<>>
    /\ ssQueue = <<>>
    /\ runs = [r \in Calls |-> 0]
    /\ last = 0

-----------------------------------------------------------------------------
(* The callers.                                                            *)

\* The service thread is in neither send() nor connect().
ServiceIdle == sending[ServiceThread] = NoCall /\ connecting = 0

Tick ==
    /\ clock < MaxTick
    /\ clock' = clock + 1
    /\ UNCHANGED <<connectionVars, transaction, sending, sentOn, callbacks, inbox,
                   mtQueue, ssQueue, observedVars>>

\* connect() creates the connection and starts it; the id is not assigned yet.
ConnectBegin ==
    /\ ServiceIdle
    /\ nextId < MaxConn
    /\ nextId' = nextId + 1
    /\ connecting' = nextId'
    /\ status' = [status EXCEPT ![nextId'] = "Connecting"]
    /\ UNCHANGED <<connectionId, clock, callVars, callbacks, inbox, mtQueue, ssQueue, observedVars>>

ConnectEnd ==
    /\ connecting # 0
    /\ connectionId' = connecting
    /\ connecting' = 0
    /\ UNCHANGED <<status, nextId, clock, callVars, callbacks, inbox, mtQueue, ssQueue, observedVars>>

\* A URL or a subprotocol that websocketpp refuses: connect() returns -1,
\* which replaces the id of a connection that may still be open.
ConnectRejected ==
    /\ ServiceIdle
    /\ connectionId' = 0
    /\ UNCHANGED <<status, nextId, connecting, clock, callVars, callbacks, inbox, mtQueue, ssQueue,
                   observedVars>>

\* A thread that is free to make the request r, which draws its transaction.
Draw(t, r) ==
    /\ sending[t] = NoCall
    /\ t = ServiceThread => connecting = 0
    /\ transaction[r] = 0
    /\ transaction' = [transaction EXCEPT ![r] = clock]

\* send() with no connection: no text, no callback, no error.
SendDropped(t, r) ==
    /\ Draw(t, r)
    /\ connectionId = 0
    /\ UNCHANGED <<connectionVars, clock, sending, sentOn, callbacks, inbox, mtQueue, ssQueue,
                   observedVars>>

\* The first half of send(): sendText().  On a connection that is not open
\* websocketpp reports an error, which is logged and otherwise ignored.
SendText(t, r) ==
    /\ Draw(t, r)
    /\ connectionId # 0
    /\ sending' = [sending EXCEPT ![t] = r]
    /\ sentOn' = [sentOn EXCEPT ![r] = IF status[connectionId] = "Open" THEN connectionId ELSE 0]
    /\ UNCHANGED <<connectionVars, clock, callbacks, inbox, mtQueue, ssQueue, observedVars>>

\* The second half of send(): the callback enters the map, under the mutex.
Register(t) ==
    /\ sending[t] # NoCall
    /\ callbacks' = [callbacks EXCEPT ![transaction[sending[t]]] = sending[t]]
    /\ sending' = [sending EXCEPT ![t] = NoCall]
    /\ UNCHANGED <<connectionVars, clock, transaction, sentOn, inbox, mtQueue, ssQueue,
                   observedVars>>

-----------------------------------------------------------------------------
(* The websocket thread: each handler posts one task to message-transport. *)

\* Mutant: the task overtakes those already posted.
PostInFront(queue, task) == <<task>> \o queue

Post(queue, task) == Append(queue, task)

\* What arrives from the network arrives in a later tick than anything done
\* before, so that two calls draw one transaction only between two arrivals.
Arrive(kind, r) ==
    /\ clock < MaxTick
    /\ clock' = clock + 1
    /\ inbox' = Append(inbox, [kind |-> kind, call |-> r])
    /\ mtQueue' = Post(mtQueue, Len(inbox'))
    /\ UNCHANGED <<nextId, connecting, connectionId, callVars, callbacks, ssQueue, observedVars>>

\* The handlers carry no connection: the listener cannot tell an old one's
\* failure from the current one's.
OnOpen(c) ==
    /\ status[c] = "Connecting"
    /\ status' = [status EXCEPT ![c] = "Open"]
    /\ Arrive("opened", NoCall)

OnFail(c) ==
    /\ status[c] = "Connecting"
    /\ status' = [status EXCEPT ![c] = "Failed"]
    /\ Arrive("failed", NoCall)

OnClose(c) ==
    /\ status[c] = "Open"
    /\ status' = [status EXCEPT ![c] = "Closed"]
    /\ Arrive("closed", NoCall)

Replied(r) == \E n \in 1..Len(inbox) : inbox[n] = [kind |-> "reply", call |-> r]

\* ack, success, error or server_info with the transaction of a request.
OnReply(c, r) ==
    /\ status[c] = "Open"
    /\ sentOn[r] = c
    /\ ~Replied(r)
    /\ UNCHANGED status
    /\ Arrive("reply", r)

\* Any other text: an event, trickle, webrtcup, hangup, timeout...
OnEvent(c) ==
    /\ status[c] = "Open"
    /\ UNCHANGED status
    /\ Arrive("message", NoCall)

-----------------------------------------------------------------------------
(* The message-transport thread.                                           *)

\* Mutant: the entry stays in the map when its callback is posted.
ForgetNothing(x) == callbacks

\* Mutant: the whole map is cleared.
ForgetAll(x) == [y \in Ticks |-> NoCall]

\* Mutant: the entry is overwritten with an empty callback, not erased.
ForgetByClearing(x) == [callbacks EXCEPT ![x] = "Empty"]

Forget(x) == [callbacks EXCEPT ![x] = NoCall]

\* Mutant: the reply is answered without a look at its transaction.
AnyRegistered(n) ==
    IF \E x \in Ticks : callbacks[x] # NoCall
    THEN callbacks[CHOOSE x \in Ticks : callbacks[x] # NoCall]
    ELSE NoCall

\* The callback registered under the transaction of reply n, if there is one.
CallbackFor(n) == callbacks[transaction[inbox[n].call]]

\* The task posted by onTextMessage for a reply.  The callback that the map
\* holds is wrapAsyncCallback's, which only posts to signaling-service.
MtReply ==
    /\ mtQueue # <<>>
    /\ LET n == Head(mtQueue) IN
        /\ inbox[n].kind = "reply"
        /\ ssQueue' = IF CallbackFor(n) = NoCall THEN ssQueue
                      ELSE Append(ssQueue, [n |-> n, call |-> CallbackFor(n)])
        /\ callbacks' = Forget(transaction[inbox[n].call])
    /\ mtQueue' = Tail(mtQueue)
    /\ UNCHANGED <<connectionVars, clock, callVars, inbox, observedVars>>

\* The task posted by notifyObservers: JanusApiClient::onOpened, onClosed,
\* onFailed or onMessage, each of which notifies its own observers in turn.
MtNotify ==
    /\ mtQueue # <<>>
    /\ inbox[Head(mtQueue)].kind # "reply"
    /\ ssQueue' = Append(ssQueue, [n |-> Head(mtQueue), call |-> NoCall])
    /\ mtQueue' = Tail(mtQueue)
    /\ UNCHANGED <<connectionVars, clock, callVars, callbacks, inbox, observedVars>>

-----------------------------------------------------------------------------
(* The signaling-service thread runs the task at the head of its queue.    *)

SsTake ==
    /\ ServiceIdle
    /\ ssQueue # <<>>
    /\ last' = Head(ssQueue).n
    /\ ssQueue' = Tail(ssQueue)
    /\ UNCHANGED <<connectionVars, clock, callVars, callbacks, inbox, mtQueue>>

SsCallback ==
    /\ SsTake
    /\ Head(ssQueue).call # NoCall
    /\ runs' = [runs EXCEPT ![Head(ssQueue).call] = @ + 1]

SsNotify ==
    /\ SsTake
    /\ Head(ssQueue).call = NoCall
    /\ UNCHANGED runs

-----------------------------------------------------------------------------
CallerStep(t) == Register(t) \/ (t = ServiceThread /\ ConnectEnd)

Websocket ==
    \E c \in Connections :
        \/ OnOpen(c) \/ OnFail(c) \/ OnClose(c) \/ OnEvent(c)
        \/ \E r \in Calls : OnReply(c, r)

MtStep == MtReply \/ MtNotify
SsStep == SsCallback \/ SsNotify

Next ==
    \/ Tick
    \/ ConnectBegin \/ ConnectEnd \/ ConnectRejected
    \/ \E t \in Threads : \/ Register(t)
                          \/ \E r \in Calls : SendText(t, r) \/ SendDropped(t, r)
    \/ Websocket
    \/ MtStep
    \/ SsStep

Spec == Init /\ [][Next]_vars

\* A thread that has begun a call returns from it, and the two queues are
\* served.  Nothing is assumed of the network, the server, the user or the
\* clock.
Fairness ==
    /\ \A t \in Threads : WF_vars(CallerStep(t))
    /\ WF_vars(MtStep)
    /\ WF_vars(SsStep)

FairSpec == Spec /\ Fairness

-----------------------------------------------------------------------------
(* Properties.                                                             *)

Statuses == {"None", "Connecting", "Open", "Failed", "Closed"}
Kinds    == {"opened", "failed", "closed", "message", "reply"}
Arrivals == [kind : Kinds, call : Calls \cup {NoCall}]
SsTasks  == [n : Nat, call : Calls \cup {NoCall}]

\* Every variable has its type, and the ids stay within what was created.
TypeOK ==
    /\ status \in [Connections -> Statuses]
    /\ nextId \in 0..MaxConn
    /\ connecting \in 0..MaxConn
    /\ connectionId \in 0..MaxConn
    /\ clock \in Ticks
    /\ transaction \in [Calls -> 0..MaxTick]
    /\ sending \in [Threads -> Calls \cup {NoCall}]
    /\ sentOn \in [Calls -> 0..MaxConn]
    /\ callbacks \in [Ticks -> Calls \cup {NoCall}]
    /\ inbox \in Seq(Arrivals)
    /\ mtQueue \in Seq(Nat)
    /\ ssQueue \in Seq(SsTasks)
    /\ runs \in [Calls -> Nat]
    /\ last \in Nat

\* What the server sends is seen by signaling-service in the order in which it
\* arrived, replies and notifications together, although the two kinds take
\* different paths through message-transport (message_transport.cpp:167-193).
\* The three parts: the tasks of each queue are in order, and every task of
\* signaling-service is older than every task of message-transport.
MtOrdered  == \A i, j \in 1..Len(mtQueue) : i < j => mtQueue[i] < mtQueue[j]
SsOrdered  == \A i, j \in 1..Len(ssQueue) : i < j => ssQueue[i].n < ssQueue[j].n
SsBeforeMt == \A i \in 1..Len(ssQueue), j \in 1..Len(mtQueue) : ssQueue[i].n < mtQueue[j]
SeenBefore == /\ \A i \in 1..Len(ssQueue) : last < ssQueue[i].n
              /\ \A j \in 1..Len(mtQueue) : last < mtQueue[j]
InOrder    == MtOrdered /\ SsOrdered /\ SsBeforeMt /\ SeenBefore

Queued(r) == \E i \in 1..Len(ssQueue) : ssQueue[i].call = r

\* The callback of a call runs at most once, and once it is on its way to
\* signaling-service it can be found nowhere else: not in the map, not in a
\* thread about to put it there (message_transport.cpp:71-81 and 172-183).
CallbackOnce ==
    \A r \in Calls :
        /\ runs[r] <= 1
        /\ (runs[r] = 1 \/ Queued(r)) => /\ \A x \in Ticks : callbacks[x] # r
                                         /\ \A t \in Threads : sending[t] # r
        /\ runs[r] = 1 => ~Queued(r)

Processed(r) ==
    \E n \in 1..Len(inbox) : /\ inbox[n] = [kind |-> "reply", call |-> r]
                             /\ \A j \in 1..Len(mtQueue) : mtQueue[j] # n

Alone(r) == \A q \in Calls : q # r => transaction[q] # transaction[r]

\* A reply that was processed has either completed its call, or come before the
\* call was registered, which then stays in the map: nothing else loses it, as
\* long as no other call drew the same transaction (send() registers after it
\* sends, message_transport.cpp:74-78).
LostOnlyByRace ==
    \A r \in Calls :
        Processed(r) /\ Alone(r) =>
            \/ runs[r] = 1
            \/ Queued(r)
            \/ \E t \in Threads : sending[t] = r
            \/ callbacks[transaction[r]] = r

\* A reply that finds its call registered makes the callback run, unless
\* another call draws the same transaction (message_transport.cpp:173-182,
\* janus_api_client.cpp:289-305).
Answered(r) ==
    /\ transaction[r] # 0
    /\ callbacks[transaction[r]] = r
    /\ \E j \in 1..Len(mtQueue) : inbox[mtQueue[j]] = [kind |-> "reply", call |-> r]

AnsweredRuns == \A r \in Calls : Answered(r) ~> (runs[r] = 1 \/ ~Alone(r))

\* Each callback that runs gets the reply to its own request: the transaction
\* that randomString "creates" identifies the request (string_utils.cpp:14).
OwnReply ==
    \A i \in 1..Len(ssQueue) :
        ssQueue[i].call # NoCall => inbox[ssQueue[i].n].call = ssQueue[i].call

\* The transport implements the promise of RequestReply.
Promise == INSTANCE RequestReply WITH Calls <- Calls, NoCall <- NoCall, MaxTick <- MaxTick,
                                      transaction <- transaction, inbox <- inbox,
                                      runs <- runs, last <- last
PromiseKept == Promise!Spec
=============================================================================
