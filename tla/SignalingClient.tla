-------------------------- MODULE SignalingClient --------------------------
(***************************************************************************)
(* SignalingClient: the session with the Janus server and the handles of   *)
(* the plugin clients in it.  Its code runs on two threads.                *)
(*   - signaling-service runs every public operation (a caller on another  *)
(*     thread posts the call and waits for it), the callbacks of replies   *)
(*     and the observer's handlers; these are the tasks of ssQueue;        *)
(*   - plugin-client runs the lambdas that the former posts to             *)
(*     _eventHandlerThread (pcQueue), and from them, or for the user, the  *)
(*     operations of PluginClient, each a call to signaling-service.       *)
(* Below it the transport is taken as RequestReply promises: what arrives  *)
(* is consumed in order, and any reply may get lost.  Handles and sessions *)
(* are numbered from 1 by the server; 0 is the code's -1.                  *)
(***************************************************************************)
EXTENDS Integers, Sequences, FiniteSets

CONSTANTS
    Clients,    \* the plugin clients (a publisher, a subscriber)
    Messages,   \* the messages they will send
    Nobody,     \* no client, no message
    MaxHandle,  \* bound: handles the server gives out
    MaxConn,    \* bound: connections
    MaxCalls,   \* bound: calls of the plugin clients
    MaxEvents   \* bound: events of the server

ASSUME NobodyAssumption  == Nobody \notin Clients \cup Messages
ASSUME ClientsAssumption == "absent" \notin Clients /\ "expired" \notin Clients
ASSUME MessagesAssumption == Clients \cap Messages = {}
ASSUME BoundsAssumption  == {MaxHandle, MaxConn, MaxCalls, MaxEvents} \subseteq Nat

VARIABLES
    up,               \* the state of each connection
    conn,             \* the latest connection
    pending,          \* requests on their way to the server or in it
    asked,            \* how many requests were sent
    sessions,         \* how many sessions the server created
    owner,            \* the session of each handle the server gave out, 0 before
    budget,           \* [calls, events]: how many were made, for the bounds
    ssQueue,          \* the tasks of signaling-service
    pcQueue,          \* the tasks of plugin-client
    waiting,          \* plugin-client waits for its call to signaling-service
    found,            \* the handle that the task of plugin-client has found in the map, or 0
    held,             \* the client that the task has fetched from the map, or Nobody
    connected,        \* _connected
    sessionStatus,    \* _sessionStatus
    sessionId,        \* _sessionId
    pluginClientMap,  \* _pluginClientMap: a client, "absent" or "expired"
    listening,        \* whether SignalingClient observes JanusApiClient
    destroying,       \* main has asked for the end of the session
    handleId,         \* PluginContext::handleId of each client
    peer,             \* whether each client has a PeerConnection
    told,             \* history: onAttached(true) was called for the handle
    heard,            \* history: events of the handle given to its client
    erased,           \* history: the handle was erased from the map
    runs,             \* history: how often each message's callback ran
    late              \* history: the connection went while _connected = true was queued

serverVars  == <<pending, asked, sessions, owner>>
sessionVars == <<connected, sessionStatus, sessionId, listening, destroying>>
clientVars  == <<handleId, peer>>
historyVars == <<told, heard, erased, runs, late>>
vars == <<up, conn, serverVars, budget, ssQueue, pcQueue, waiting, found, held,
          sessionVars, pluginClientMap, clientVars, historyVars>>

Handles     == 1..MaxHandle
Connections == 1..MaxConn

Task(kind, n, who) == [kind |-> kind, n |-> n, who |-> who]

Init ==
    /\ up = [c \in Connections |-> "None"]
    /\ conn = 0
    /\ pending = {}
    /\ asked = 0
    /\ sessions = 0
    /\ owner = [h \in Handles |-> 0]
    /\ budget = [calls |-> 0, events |-> 0]
    /\ ssQueue = <<>>
    /\ pcQueue = <<>>
    /\ waiting = FALSE
    /\ found = 0
    /\ held = Nobody
    /\ connected = FALSE
    /\ sessionStatus = "DISCONNECTED"
    /\ sessionId = 0
    /\ pluginClientMap = [h \in Handles |-> "absent"]
    /\ listening = TRUE
    /\ destroying = FALSE
    /\ handleId = [p \in Clients |-> 0]
    /\ peer = [p \in Clients |-> FALSE]
    /\ told = [h \in Handles |-> FALSE]
    /\ heard = [h \in Handles |-> 0]
    /\ erased = [h \in Handles |-> FALSE]
    /\ runs = [m \in Messages |-> 0]
    /\ late = FALSE

\* getHandler, for the thread that is alone in changing the map: the client the
\* handle is mapped to.  Handle -1 and a handle not in the map have none.
Handled(h) == h \in Handles /\ pluginClientMap[h] \in Clients

-----------------------------------------------------------------------------
(* The connection and the server.                                          *)

Arrives(task) == ssQueue' = IF listening THEN Append(ssQueue, task) ELSE ssQueue

\* The user presses "connect" (again): main calls connect().
Connect ==
    /\ ~destroying
    /\ conn < MaxConn
    /\ conn' = conn + 1
    /\ up' = [up EXCEPT ![conn'] = "Connecting"]
    /\ UNCHANGED <<serverVars, budget, ssQueue, pcQueue, waiting, found, held, sessionVars,
                   pluginClientMap, clientVars, historyVars>>

ConnectionUp(c) ==
    /\ up[c] = "Connecting"
    /\ up' = [up EXCEPT ![c] = "Open"]
    /\ Arrives(Task("opened", 0, Nobody))
    /\ UNCHANGED <<conn, serverVars, budget, pcQueue, waiting, found, held, sessionVars,
                   pluginClientMap, clientVars, historyVars>>

\* The connection fails or is closed; what was asked on it is not answered.
ConnectionDown(c) ==
    /\ up[c] \in {"Connecting", "Open"}
    /\ up' = [up EXCEPT ![c] = "Down"]
    /\ pending' = {q \in pending : q.conn # c}
    /\ Arrives(Task("down", 0, Nobody))
    /\ UNCHANGED <<conn, asked, sessions, owner, budget, pcQueue, waiting, found, held, sessionVars,
                   pluginClientMap, clientVars, historyVars>>

\* A reply reaches its callback, if the connection of its request still stands.
Reply(q, task) ==
    /\ up[q.conn] = "Open"
    /\ pending' = pending \ {q}
    /\ ssQueue' = Append(ssQueue, task)
    /\ UNCHANGED <<up, conn, asked, budget, pcQueue, waiting, found, held, sessionVars,
                   pluginClientMap, clientVars, historyVars>>

ReplyCreate(q) ==
    /\ q.kind = "create"
    /\ sessions' = sessions + 1
    /\ Reply(q, Task("created", sessions', Nobody))
    /\ UNCHANGED owner

\* In a session it created, the server gives out the handles in order.
ReplyAttach(q) ==
    /\ q.kind = "attach"
    /\ q.session \in 1..sessions
    /\ \E h \in Handles :
        /\ owner[h] = 0 /\ \A g \in 1..(h - 1) : owner[g] # 0
        /\ owner' = [owner EXCEPT ![h] = q.session]
        /\ Reply(q, Task("attached", h, q.who))
    /\ UNCHANGED sessions

ReplyRefused(q) ==
    /\ q.kind = "attach"
    /\ Reply(q, Task("refused", 0, q.who))
    /\ UNCHANGED <<sessions, owner>>

Answer == [message |-> "messaged", detach |-> "detached", destroy |-> "destroyed"]

\* success, ack or error alike: the callbacks below do not look at it, except
\* a message's, which passes it on.
ReplyOther(q) ==
    /\ q.kind \in DOMAIN Answer
    /\ Reply(q, Task(Answer[q.kind], q.handle, q.who))
    /\ UNCHANGED <<sessions, owner>>

\* A reply that comes before its callback is registered, or finds another's;
\* and those to hangup and trickle, which change nothing.
Lose(q) ==
    /\ pending' = pending \ {q}
    /\ UNCHANGED <<up, conn, asked, sessions, owner, budget, ssQueue, pcQueue, waiting, found, held,
                   sessionVars, pluginClientMap, clientVars, historyVars>>

\* Any message with a sender: event, trickle, webrtcup, hangup, media...  The
\* server may still send one for a handle it was asked to detach.
ServerEvent(h) ==
    /\ listening
    /\ owner[h] # 0
    /\ \E c \in Connections : up[c] = "Open"
    /\ budget.events < MaxEvents
    /\ budget' = [budget EXCEPT !.events = @ + 1]
    /\ ssQueue' = Append(ssQueue, Task("event", h, Nobody))
    /\ UNCHANGED <<up, conn, serverVars, pcQueue, waiting, found, held, sessionVars,
                   pluginClientMap, clientVars, historyVars>>

-----------------------------------------------------------------------------
(* The plugin clients, on plugin-client, and main.                         *)

PcIdle == ~waiting /\ found = 0

\* Mutant: PluginClient does not look whether there is a session.
CallAnyTime(kind, n, who) ==
    /\ PcIdle
    /\ budget.calls < MaxCalls
    /\ budget' = [budget EXCEPT !.calls = @ + 1]
    /\ ssQueue' = Append(ssQueue, Task(kind, n, who))
    /\ waiting' = TRUE
    /\ UNCHANGED <<up, conn, serverVars, pcQueue, found, held, sessionVars, pluginClientMap,
                   clientVars, historyVars>>

\* PluginClient makes a call of SignalingClient: it sees that there is a
\* session, reads its handle, posts the call and waits.
Call(kind, n, who) ==
    /\ PcIdle
    /\ sessionStatus = "CONNECTED"
    /\ budget.calls < MaxCalls
    /\ budget' = [budget EXCEPT !.calls = @ + 1]
    /\ ssQueue' = Append(ssQueue, Task(kind, n, who))
    /\ waiting' = TRUE
    /\ UNCHANGED <<up, conn, serverVars, pcQueue, found, held, sessionVars, pluginClientMap,
                   clientVars, historyVars>>

CallAttach(p)  == Call("attach", 0, p)
CallHangup(p)  == Call("hangup", handleId[p], p)
CallDetach(p)  == Call("detach", handleId[p], p)

\* Each message is sent once.
CallMessage(p, m) ==
    /\ m \notin {ssQueue[i].who : i \in 1..Len(ssQueue)} \cup {q.who : q \in pending}
    /\ m \notin {pcQueue[i].who : i \in 1..Len(pcQueue)}
    /\ runs[m] = 0
    /\ Call("message", handleId[p], m)

\* OnIceCandidate, on the thread of the PeerConnection, which waits instead of
\* plugin-client.
CallTrickle(p) ==
    /\ peer[p]
    /\ sessionStatus = "CONNECTED"
    /\ budget.calls < MaxCalls
    /\ budget' = [budget EXCEPT !.calls = @ + 1]
    /\ ssQueue' = Append(ssQueue, Task("trickle", handleId[p], p))
    /\ UNCHANGED <<up, conn, serverVars, pcQueue, waiting, found, held, sessionVars,
                   pluginClientMap, clientVars, historyVars>>

\* An attached client negotiates: prepareStreams creates the PeerConnection.
OpenPeer(p) ==
    /\ PcIdle
    /\ ~peer[p]
    /\ handleId[p] # 0 /\ told[handleId[p]]
    /\ peer' = [peer EXCEPT ![p] = TRUE]
    /\ UNCHANGED <<up, conn, serverVars, budget, ssQueue, pcQueue, waiting, found, held,
                   sessionVars, pluginClientMap, handleId, historyVars>>

\* The program ends: main calls cleanup() and waits.
Destroy ==
    /\ ~destroying
    /\ destroying' = TRUE
    /\ ssQueue' = Append(ssQueue, Task("end", 0, Nobody))
    /\ UNCHANGED <<up, conn, serverVars, budget, pcQueue, waiting, found, held, connected,
                   sessionStatus, sessionId, listening, pluginClientMap, clientVars, historyVars>>

-----------------------------------------------------------------------------
(* signaling-service runs the task at the head of its queue.               *)

\* Mutant: signaling-service waits for plugin-client before each task.
TakeIfIdle(kind) ==
    /\ ~waiting
    /\ ssQueue # <<>>
    /\ Head(ssQueue).kind = kind
    /\ ssQueue' = Tail(ssQueue)
    /\ UNCHANGED <<up, conn, sessions, owner, budget, found, held, destroying, peer, told, heard,
                   runs>>

Take(kind) ==
    /\ ssQueue # <<>>
    /\ Head(ssQueue).kind = kind
    /\ ssQueue' = Tail(ssQueue)
    /\ UNCHANGED <<up, conn, sessions, owner, budget, found, held, destroying, peer, told, heard,
                   runs>>

\* Mutant: the task runs before those already posted.
PostFirst(kind, n, who) == pcQueue' = <<Task(kind, n, who)>> \o pcQueue

Post(kind, n, who) == pcQueue' = Append(pcQueue, Task(kind, n, who))

\* JanusApiClient sends the request on the latest connection, if that is open.
Send(kind, handle, who) ==
    /\ asked' = asked + 1
    /\ pending' =
        IF conn # 0 /\ up[conn] = "Open"
        THEN pending \cup {[id |-> asked', kind |-> kind, session |-> sessionId,
                            handle |-> handle, who |-> who, conn |-> conn]}
        ELSE pending

SendNothing == UNCHANGED <<pending, asked>>

\* onOpened: createSession.
SsOpened ==
    /\ Take("opened")
    /\ Send("create", 0, Nobody)
    /\ UNCHANGED <<pcQueue, waiting, connected, sessionStatus, sessionId, listening,
                   pluginClientMap, handleId, erased, late>>

SetsConnected(i) == pcQueue[i].kind = "setConnected"

\* Mutant: the loss of the connection is not noted.
DownIgnored ==
    /\ Take("down")
    /\ SendNothing
    /\ UNCHANGED <<pcQueue, waiting, sessionVars, pluginClientMap, handleId, erased, late>>

\* onClosed and onFailed.
SsDown ==
    /\ Take("down")
    /\ connected' = FALSE
    /\ late' = (late \/ \E i \in 1..Len(pcQueue) : SetsConnected(i))
    /\ SendNothing
    /\ UNCHANGED <<pcQueue, waiting, sessionStatus, sessionId, listening, pluginClientMap, handleId,
                   erased>>

\* The callback of createSession; _connected is left to plugin-client.
SsCreated ==
    /\ Take("created")
    /\ sessionId' = Head(ssQueue).n
    /\ sessionStatus' = "CONNECTED"
    /\ Post("setConnected", 0, Nobody)
    /\ SendNothing
    /\ UNCHANGED <<waiting, connected, listening, pluginClientMap, handleId, erased, late>>

SsAttach ==
    /\ Take("attach")
    /\ Send("attach", 0, Head(ssQueue).who)
    /\ waiting' = FALSE
    /\ UNCHANGED <<pcQueue, connected, sessionStatus, sessionId, listening, pluginClientMap,
                   handleId, erased, late>>

\* Mutant: the client is given the code's "no handle".
MapOnly(h, p) ==
    /\ handleId' = [handleId EXCEPT ![p] = -1]
    /\ pluginClientMap' = [pluginClientMap EXCEPT ![h] = p]

\* Mutant: the map is left as it is.
ContextOnly(h, p) ==
    /\ handleId' = [handleId EXCEPT ![p] = h]
    /\ UNCHANGED pluginClientMap

Adopt(h, p) ==
    /\ handleId' = [handleId EXCEPT ![p] = h]
    /\ pluginClientMap' = [pluginClientMap EXCEPT ![h] = p]

\* The callback of attach.
SsAttached ==
    /\ Take("attached")
    /\ Adopt(Head(ssQueue).n, Head(ssQueue).who)
    /\ Post("attached", Head(ssQueue).n, Head(ssQueue).who)
    /\ SendNothing
    /\ UNCHANGED <<waiting, connected, sessionStatus, sessionId, listening, erased, late>>

SsRefused ==
    /\ Take("refused")
    /\ Post("refused", 0, Head(ssQueue).who)
    /\ SendNothing
    /\ UNCHANGED <<waiting, connected, sessionStatus, sessionId, listening, pluginClientMap,
                   handleId, erased, late>>

\* sendMessage, hangup: a request, if the handle is mapped to a client.
SsRequest(kind) ==
    /\ Take(kind)
    /\ IF Handled(Head(ssQueue).n) THEN Send(kind, Head(ssQueue).n, Head(ssQueue).who)
                                   ELSE SendNothing
    /\ waiting' = FALSE
    /\ UNCHANGED <<pcQueue, connected, sessionStatus, sessionId, listening, pluginClientMap,
                   handleId, erased, late>>

\* sendTrickleCandidate does not look the handle up.
SsTrickle ==
    /\ Take("trickle")
    /\ Send("trickle", Head(ssQueue).n, Head(ssQueue).who)
    /\ UNCHANGED <<pcQueue, waiting, connected, sessionStatus, sessionId, listening,
                   pluginClientMap, handleId, erased, late>>

\* Mutant: an acknowledgement and the answer after it both run the callback.
MessagedTwice ==
    /\ Take("messaged")
    /\ pcQueue' = pcQueue \o [i \in 1..2 |-> Task("callback", 0, Head(ssQueue).who)]
    /\ SendNothing
    /\ UNCHANGED <<waiting, connected, sessionStatus, sessionId, listening, pluginClientMap,
                   handleId, erased, late>>

SsMessaged ==
    /\ Take("messaged")
    /\ Post("callback", 0, Head(ssQueue).who)
    /\ SendNothing
    /\ UNCHANGED <<waiting, connected, sessionStatus, sessionId, listening, pluginClientMap,
                   handleId, erased, late>>

\* destroyHandle with a request: nothing is sent while _connected is false.
SsDetach ==
    /\ Take("detach")
    /\ LET h == Head(ssQueue).n IN
        IF Handled(h)
        THEN /\ Post("cleanup", h, Nobody)
             /\ IF connected THEN Send("detach", h, Head(ssQueue).who) ELSE SendNothing
        ELSE UNCHANGED pcQueue /\ SendNothing
    /\ waiting' = FALSE
    /\ UNCHANGED <<connected, sessionStatus, sessionId, listening, pluginClientMap, handleId,
                   erased, late>>

\* destroyHandle with noRequest, for the handles hs in the order of the map.
RemoveLocally(hs) ==
    \E order \in [1..Cardinality(hs) -> hs] :
        /\ \A i, j \in 1..Cardinality(hs) : i # j => order[i] # order[j]
        /\ pcQueue' = pcQueue \o [i \in 1..Cardinality(hs) |-> Task("cleanup", order[i], Nobody)]

\* The callback of detach, whatever the server replied.
SsDetached ==
    /\ Take("detached")
    /\ pluginClientMap' = [pluginClientMap EXCEPT ![Head(ssQueue).n] = "absent"]
    /\ erased' = [erased EXCEPT ![Head(ssQueue).n] = TRUE]
    /\ SendNothing
    /\ UNCHANGED <<pcQueue, waiting, connected, sessionStatus, sessionId, listening, handleId,
                   late>>

\* cleanup: destroySession with cleanupHandles.
SsEnd ==
    /\ Take("end")
    /\ IF sessionId = 0 THEN UNCHANGED pcQueue
                        ELSE RemoveLocally({h \in Handles : Handled(h)})
    /\ IF sessionId # 0 /\ connected THEN Send("destroy", 0, Nobody) ELSE SendNothing
    /\ UNCHANGED <<waiting, connected, sessionStatus, sessionId, listening, pluginClientMap,
                   handleId, erased, late>>

\* The callback of destroySession.
SsDestroyed ==
    /\ Take("destroyed")
    /\ listening' = FALSE
    /\ SendNothing
    /\ UNCHANGED <<pcQueue, waiting, connected, sessionStatus, sessionId, pluginClientMap, handleId,
                   erased, late>>

\* onMessage.
SsEvent ==
    /\ Take("event")
    /\ IF Handled(Head(ssQueue).n) THEN Post("deliver", Head(ssQueue).n, Nobody)
                                   ELSE UNCHANGED pcQueue
    /\ SendNothing
    /\ UNCHANGED <<waiting, connected, sessionStatus, sessionId, listening, pluginClientMap,
                   handleId, erased, late>>

-----------------------------------------------------------------------------
(* plugin-client runs the task at the head of its queue.                   *)

PcTake(kind) ==
    /\ ~waiting
    /\ pcQueue # <<>>
    /\ Head(pcQueue).kind = kind
    /\ pcQueue' = Tail(pcQueue)
    /\ UNCHANGED <<up, conn, serverVars, budget, ssQueue, waiting, sessionStatus, sessionId,
                   listening, destroying, handleId, erased, late>>

\* The callback that onOpened gives to createSession.
PcSetConnected ==
    /\ PcTake("setConnected")
    /\ connected' = TRUE
    /\ UNCHANGED <<found, held, pluginClientMap, peer, told, heard, runs>>

PcAttached ==
    /\ PcTake("attached")
    /\ told' = [told EXCEPT ![Head(pcQueue).n] = TRUE]
    /\ UNCHANGED <<found, held, connected, pluginClientMap, peer, heard, runs>>

PcRefused ==
    /\ PcTake("refused")
    /\ UNCHANGED <<found, held, connected, pluginClientMap, peer, told, heard, runs>>

PcCallback ==
    /\ PcTake("callback")
    /\ runs' = [runs EXCEPT ![Head(pcQueue).who] = @ + 1]
    /\ UNCHANGED <<found, held, connected, pluginClientMap, peer, told, heard>>

\* A task for a handle calls getHandler again, now on this thread, which first
\* looks for the handle...
LooksUp == pcQueue # <<>> /\ Head(pcQueue).kind \in {"deliver", "cleanup"}

PcFind ==
    /\ PcIdle
    /\ LooksUp
    /\ LET h == Head(pcQueue).n IN
        IF pluginClientMap[h] = "absent" THEN pcQueue' = Tail(pcQueue) /\ UNCHANGED found
                                         ELSE found' = h /\ UNCHANGED pcQueue
    /\ UNCHANGED <<up, conn, serverVars, budget, ssQueue, waiting, held, sessionVars,
                   pluginClientMap, clientVars, historyVars>>

\* ... and then reads it with operator[], which creates an entry, without a
\* client, if signaling-service has erased it meanwhile.
Fetched == IF pluginClientMap[found] = "absent"
           THEN [pluginClientMap EXCEPT ![found] = "expired"]
           ELSE pluginClientMap

\* Mutant: the client is taken from a copy of the entry that was found.
FetchesErased ==
    /\ found # 0 /\ held = Nobody /\ LooksUp
    /\ pluginClientMap' = Fetched
    /\ held' \in {p \in Clients : handleId[p] = found}
    /\ UNCHANGED <<up, conn, serverVars, budget, ssQueue, pcQueue, waiting, found, sessionVars,
                   clientVars, historyVars>>

PcFetch ==
    /\ found # 0 /\ held = Nobody /\ LooksUp
    /\ pluginClientMap' = Fetched
    /\ IF Handled(found)
       THEN held' = pluginClientMap[found] /\ UNCHANGED <<found, pcQueue>>
       ELSE found' = 0 /\ pcQueue' = Tail(pcQueue) /\ UNCHANGED held
    /\ UNCHANGED <<up, conn, serverVars, budget, ssQueue, waiting, sessionVars, clientVars,
                   historyVars>>

\* The client is called through the pointer that was fetched, whatever became
\* of the handle meanwhile.
PcCalls(kind) ==
    /\ held # Nobody
    /\ PcTake(kind)
    /\ found' = 0
    /\ held' = Nobody

PcDeliver ==
    /\ PcCalls("deliver")
    /\ heard' = [heard EXCEPT ![found] = @ + 1]
    /\ UNCHANGED <<connected, pluginClientMap, peer, told, runs>>

\* Mutant: the clean-up leaves the PeerConnection open.
CleanupForgets ==
    /\ PcCalls("cleanup")
    /\ UNCHANGED <<connected, pluginClientMap, peer, told, heard, runs>>

PcCleanup ==
    /\ PcCalls("cleanup")
    /\ peer' = [peer EXCEPT ![held] = FALSE]
    /\ UNCHANGED <<connected, pluginClientMap, told, heard, runs>>

-----------------------------------------------------------------------------
Environment ==
    \/ Connect
    \/ \E c \in Connections : ConnectionUp(c) \/ ConnectionDown(c)
    \/ \E q \in pending : ReplyCreate(q) \/ ReplyAttach(q) \/ ReplyRefused(q) \/ ReplyOther(q) \/ Lose(q)
    \/ \E h \in Handles : ServerEvent(h)
    \/ Destroy

ClientStep ==
    \E p \in Clients :
        \/ CallAttach(p) \/ CallHangup(p) \/ CallDetach(p) \/ CallTrickle(p) \/ OpenPeer(p)
        \/ \E m \in Messages : CallMessage(p, m)

SsStep ==
    \/ SsOpened \/ SsDown \/ SsCreated
    \/ SsAttach \/ SsAttached \/ SsRefused
    \/ SsRequest("message") \/ SsRequest("hangup") \/ SsTrickle \/ SsMessaged
    \/ SsDetach \/ SsDetached
    \/ SsEnd \/ SsDestroyed
    \/ SsEvent

PcStep ==
    \/ PcSetConnected \/ PcAttached \/ PcRefused \/ PcCallback
    \/ PcFind \/ PcFetch \/ PcDeliver \/ PcCleanup

Next == Environment \/ ClientStep \/ SsStep \/ PcStep

Spec == Init /\ [][Next]_vars

\* The two threads run the tasks of their queues.  Nothing is assumed of the
\* network, the server and the user.
FairSpec == Spec /\ WF_vars(SsStep) /\ WF_vars(PcStep)

-----------------------------------------------------------------------------
(* Properties.                                                             *)

\* What each kind of task and of request is about.
SsTasks ==
    [kind : {"opened", "down", "created", "end", "destroyed"}, n : Nat, who : {Nobody}]
        \cup [kind : {"attach", "refused"}, n : {0}, who : Clients]
        \cup [kind : {"attached"}, n : Handles, who : Clients]
        \cup [kind : {"detached"}, n : Handles, who : Clients]
        \cup [kind : {"event"}, n : Handles, who : {Nobody}]
        \cup [kind : {"hangup", "trickle", "detach"}, n : 0..MaxHandle, who : Clients]
        \cup [kind : {"message", "messaged"}, n : 0..MaxHandle, who : Messages]
PcTasks ==
    [kind : {"setConnected"}, n : {0}, who : {Nobody}]
        \cup [kind : {"attached"}, n : Handles, who : Clients]
        \cup [kind : {"refused"}, n : {0}, who : Clients]
        \cup [kind : {"callback"}, n : {0}, who : Messages]
        \cup [kind : {"deliver", "cleanup"}, n : Handles, who : {Nobody}]
Asked(kinds, handles, people) ==
    [id : Nat, kind : kinds, session : Nat, handle : handles, who : people, conn : Connections]
Requests ==
    Asked({"create", "destroy"}, {0}, {Nobody})
        \cup Asked({"attach"}, {0}, Clients)
        \cup Asked({"hangup", "trickle"}, 0..MaxHandle, Clients)
        \cup Asked({"detach"}, Handles, Clients)
        \cup Asked({"message"}, Handles, Messages)

\* Every variable has its type.
TypeOK ==
    /\ up \in [Connections -> {"None", "Connecting", "Open", "Down"}]
    /\ conn \in 0..MaxConn
    /\ pending \subseteq Requests
    /\ asked \in Nat
    /\ sessions \in Nat
    /\ owner \in [Handles -> Nat]
    /\ budget \in [calls : Nat, events : Nat]
    /\ ssQueue \in Seq(SsTasks)
    /\ pcQueue \in Seq(PcTasks)
    /\ waiting \in BOOLEAN
    /\ found \in 0..MaxHandle
    /\ held \in Clients \cup {Nobody}
    /\ connected \in BOOLEAN
    /\ sessionStatus \in {"CONNECTED", "DISCONNECTED"}
    /\ sessionId \in Nat
    /\ pluginClientMap \in [Handles -> Clients \cup {"absent", "expired"}]
    /\ listening \in BOOLEAN
    /\ destroying \in BOOLEAN
    /\ handleId \in [Clients -> 0..MaxHandle]
    /\ peer \in [Clients -> BOOLEAN]
    /\ told \in [Handles -> BOOLEAN]
    /\ heard \in [Handles -> Nat]
    /\ erased \in [Handles -> BOOLEAN]
    /\ runs \in [Messages -> Nat]
    /\ late \in BOOLEAN

\* The handle a client calls with reaches that client until its detach was
\* answered, however often it was attached (signaling_client.cpp:101-103).
ClientReachable ==
    \A p \in Clients :
        handleId[p] # 0 => \/ pluginClientMap[handleId[p]] = p
                          \/ erased[handleId[p]]

\* A request is made in a session that the server created, and one about a
\* handle names a handle of that session, unless the user connected again,
\* which replaces the session under its handles (signaling_client.cpp:499).
RequestsInSession ==
    \A q \in pending :
        q.kind # "create" =>
            /\ q.session \in 1..sessions
            /\ q.kind \notin {"attach", "destroy"} =>
                  /\ q.handle # 0
                  /\ owner[q.handle] = q.session \/ sessions > 1

\* On the only connection, _connected tells whether the server can be reached,
\* as soon as the tasks that set it have run, unless the one that makes it
\* true was overtaken by the loss of the connection, which then goes unnoticed
\* (signaling_client.cpp:277-294).
Settled ==
    /\ \A i \in 1..Len(pcQueue) : ~SetsConnected(i)
    /\ \A i \in 1..Len(ssQueue) : ssQueue[i].kind \notin {"down", "created"}

ConnectedExact ==
    conn = 1 /\ Settled /\ ~late /\ listening => (connected <=> up[1] = "Open" /\ sessionId # 0)

\* The callback of a message runs once at most, and not while its request, its
\* reply or its call is still on the way (signaling_client.cpp:148-181).
MessageOnce ==
    \A m \in Messages :
        /\ runs[m] <= 1
        /\ runs[m] = 1 => /\ \A q \in pending : q.who # m
                          /\ \A i \in 1..Len(ssQueue) : ssQueue[i].who # m
                          /\ \A i \in 1..Len(pcQueue) : pcQueue[i].who # m

\* The handle whose event plugin-client is giving to the client it has fetched.
Giving == IF held # Nobody /\ Head(pcQueue).kind = "deliver" THEN found ELSE 0

\* To its plugin client a handle lives as HandleLife says: no event before
\* onAttached(true), and once the detach was answered only the one that was
\* already being given, although signaling-service erases the handle without a
\* lock while plugin-client looks it up twice and then calls the client
\* (signaling_client.cpp:101-110, 260, 446-454, 537-548).
Life == INSTANCE HandleLife WITH Handles <- Handles, told <- told, giving <- Giving,
                                 heard <- heard, erased <- erased
LifeKept == Life!Spec

\* A call that plugin-client waits for is answered: signaling-service never
\* waits for it in turn (weak_proxy.cpp:10-23).
CallReturns == waiting ~> ~waiting

\* The clean-up that a detach posts closes the PeerConnection of the client,
\* unless the reply to the detach erased the handle first, in which case it is
\* never closed (signaling_client.cpp:226-234 and 260).
CleanupDone ==
    \A h \in Handles, p \in Clients :
        (/\ pluginClientMap[h] = p
         /\ \E i \in 1..Len(pcQueue) : pcQueue[i] = Task("cleanup", h, Nobody))
            ~> (~peer[p] \/ erased[h])

\* A handle that the end of the session removes leaves the map: the branch is
\* there for "only removing the handle locally" (signaling_client.cpp:239-247).
LocallyRemoved ==
    \A h \in Handles :
        (/\ ssQueue # <<>> /\ Head(ssQueue).kind = "end"
         /\ sessionId # 0 /\ Handled(h))
            ~> pluginClientMap[h] = "absent"
=============================================================================
