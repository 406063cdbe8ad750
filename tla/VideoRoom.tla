----------------------------- MODULE VideoRoom -----------------------------
(***************************************************************************)
(* VideoRoom: a visit to a video room.  VideoRoomClient ("pub") is in the  *)
(* room and hears of the feeds, VideoRoomSubscriber ("sub") subscribes to  *)
(* them, ParticipantsContrller and the list of main name them.  The user's *)
(* calls and the server's messages are tasks of plugin-client; each of the *)
(* two clients has one handle, which signaling-service sets.               *)
(***************************************************************************)
EXTENDS Integers, Sequences, FiniteSets

CONSTANTS
    Feeds,       \* the other publishers
    MaxCalls,    \* bound: calls the user makes
    MaxChanges   \* bound: changes of the feeds

ASSUME FeedsAssumption == IsFiniteSet(Feeds)

VARIABLES
    toServer,    \* requests on their way to the server, in order
    tasks,       \* the tasks of plugin-client
    held,        \* the handle whose client its event has fetched, or 0
    lefts,       \* how often main is yet to be told onLeaveRoom
    handleId,    \* PluginContext::handleId of the two clients
    mapped,      \* the handles in _pluginClientMap
    attached,    \* VideoRoomSubscriber::_attached
    joinTask,    \* VideoRoomSubscriber::_joinTask, the list it was made with
    known,       \* the keys of _participantsMap
    list,        \* how often the list of main shows each feed
    handles,     \* server: the handles it gave out, each with its client
    live,        \* server: those that are not detached
    room,        \* server: the publisher's handles that are in the room
    subs,        \* server: the feeds each subscriber's handle is subscribed to
    members,     \* server: the subscriber's handles that joined
    feed,        \* server: what each feed does
    budget,      \* how many calls and changes there were, for the bounds
    visits,      \* history: how often the room was entered
    missed,      \* history: the feeds not asked for or refused, and why
    ran,         \* history: whether joinTask ran
    early,       \* history: a list came while the first subscription was made
    gone,        \* history: the room was left, and not entered again
    dead,        \* history: a detach of the subscriber was asked for
    late         \* history: the subscriber attached around a detach

serverVars  == <<handles, live, room, subs, members, feed>>
clientVars  == <<handleId, mapped, attached, joinTask, known>>
historyVars == <<visits, missed, ran, early, gone, dead, late>>
vars == <<toServer, tasks, held, lefts, clientVars, list, serverVars, budget, historyVars>>

Clients == {"pub", "sub"}
Msg(kind, who, h, feeds) == [kind |-> kind, who |-> who, h |-> h, feeds |-> feeds]
Occurrences(f, s) == Cardinality({i \in 1..Len(s) : s[i] = f})
Elements(s) == {s[i] : i \in 1..Len(s)}
Publishing == {f \in Feeds : feed[f] = "publishing"}
Orders(S) == {o \in [1..Cardinality(S) -> S] : S = Elements(o)}

Init ==
    /\ toServer = <<>> /\ tasks = <<>> /\ held = 0 /\ lefts = 0
    /\ handleId = [c \in Clients |-> 0]
    /\ mapped = {}
    /\ attached = FALSE
    /\ joinTask = <<>>
    /\ known = {}
    /\ list = [f \in Feeds |-> 0]
    /\ handles = <<>>
    /\ live = {} /\ members = {}
    /\ room = {}
    /\ subs = <<>>
    /\ feed \in [Feeds -> {"away", "publishing"}]
    /\ budget = [calls |-> 0, changes |-> 0]
    /\ visits = 0
    /\ missed = {}
    /\ ran = TRUE
    /\ early = FALSE
    /\ gone = TRUE
    /\ dead = FALSE
    /\ late = FALSE

-----------------------------------------------------------------------------
(* The server, as the code relies on it: it takes the requests in order.   *)
(* What it sends passes signaling-service at once; it may be as late as    *)
(* the request it answers, or the change it tells of.                      *)

Posts(kind, who, h, feeds) == tasks' = Append(tasks, Msg(kind, who, h, feeds))

\* onMessage of signaling-service: the handle must be in the map.
Tells(kind, who, h, feeds) ==
    IF h \in mapped THEN Posts(kind, who, h, feeds) ELSE UNCHANGED tasks

\* Each of the publisher's handles in the room is told.
TellRoom(kind, f) ==
    \E order \in Orders(room \cap mapped) :
        tasks' = tasks \o [i \in DOMAIN order |-> Msg(kind, "pub", order[i], <<f>>)]

Changes(f, from, to) ==
    /\ feed[f] \in from
    /\ budget.changes < MaxChanges
    /\ budget' = [budget EXCEPT !.changes = @ + 1]
    /\ feed' = [feed EXCEPT ![f] = to]
    /\ UNCHANGED <<toServer, held, lefts, clientVars, list, handles, live, room, members,
                   visits, ran, early, gone, dead, late>>

Publish(f) ==
    /\ Changes(f, {"away", "here"}, "publishing")
    /\ TellRoom("publishers", f)
    /\ UNCHANGED <<subs, missed>>

Unpublish(f) ==
    /\ Changes(f, {"publishing"}, "here")
    /\ TellRoom("unpublished", f)
    /\ subs' = [h \in DOMAIN subs |-> subs[h] \ {f}]
    /\ missed' = {m \in missed : m[1] # f}

Leave(f) ==
    /\ Changes(f, {"here"}, "away")
    /\ TellRoom("leaving", f)
    /\ UNCHANGED <<subs, missed>>

Serve(kind) ==
    /\ toServer # <<>>
    /\ Head(toServer).kind = kind
    /\ toServer' = Tail(toServer)
    /\ UNCHANGED <<held, lefts, attached, joinTask, known, list, feed, budget, ran, early, gone,
                   dead, late>>

\* The reply sets the handle and maps it.
ServeAttach ==
    /\ Serve("attach")
    /\ LET who == Head(toServer).who
           h   == Len(handles) + 1
       IN /\ handles' = Append(handles, who)
          /\ live' = live \cup {h}
          /\ subs' = Append(subs, {})
          /\ handleId' = [handleId EXCEPT ![who] = h]
          /\ mapped' = mapped \cup {h}
          /\ Posts("attached", who, h, <<>>)
    /\ UNCHANGED <<room, members, visits, missed>>

\* The publisher gets the feeds that publish, in some order.
ServeJoin ==
    /\ Serve("join")
    /\ LET h == Head(toServer).h IN
        IF h \in live \ room
        THEN /\ room' = room \cup {h}
             /\ visits' = visits + 1
             /\ \E order \in Orders(Publishing) : Tells("publishers", "pub", h, order)
        ELSE UNCHANGED <<room, visits, tasks>>
    /\ UNCHANGED <<handleId, mapped, handles, live, subs, members, missed>>

\* Whatever the reply says, its callback is run, and tells main.
ServeLeave ==
    /\ Serve("leave")
    /\ LET h == Head(toServer).h IN
        /\ room' = room \ {h}
        /\ Posts("left", "pub", h, <<>>)
    /\ UNCHANGED <<handleId, mapped, handles, live, subs, members, visits, missed>>

\* A subscriber joins with a feed, and later subscribes to more.
ServeSubscribe(kind) ==
    /\ Serve(kind)
    /\ LET h == Head(toServer).h
           f == Head(toServer).feeds[1]
       IN IF h \notin live \/ (kind = "subjoin" <=> h \in members)
          THEN missed' = missed \cup {<<f, "dead">>} /\ UNCHANGED <<subs, members, tasks>>
          ELSE /\ UNCHANGED missed
               /\ IF feed[f] # "publishing" THEN UNCHANGED <<subs, members, tasks>>
                  ELSE /\ subs' = [subs EXCEPT ![h] = @ \cup {f}]
                       /\ members' = members \cup {h}
                       /\ IF kind = "subjoin" THEN Tells("subscribed", "sub", h, <<>>)
                                              ELSE UNCHANGED tasks
    /\ UNCHANGED <<handleId, mapped, handles, live, room, visits>>

\* The reply takes the handle off the map.
ServeDetach ==
    /\ Serve("detach")
    /\ LET h == Head(toServer).h IN
        /\ live' = live \ {h}
        /\ room' = room \ {h}
        /\ members' = members \ {h}
        /\ subs' = [subs EXCEPT ![h] = {}]
        /\ mapped' = mapped \ {h}
    /\ UNCHANGED <<tasks, handleId, handles, visits, missed>>

-----------------------------------------------------------------------------
(* plugin-client.                                                          *)

PcTake(kind) ==
    /\ tasks # <<>>
    /\ Head(tasks).kind = kind
    /\ tasks' = Tail(tasks)
    /\ UNCHANGED <<handleId, mapped, serverVars, budget, visits>>

\* A task that is not an event's.
PcRuns(kind) == PcTake(kind) /\ UNCHANGED held

\* An event's task first fetches the client from the map, or finds none...
Events == {"publishers", "unpublished", "leaving", "subscribed"}

PcFetch ==
    /\ tasks # <<>>
    /\ Head(tasks).kind \in Events
    /\ held = 0
    /\ IF Head(tasks).h \in mapped THEN held' = Head(tasks).h /\ UNCHANGED tasks
                                  ELSE tasks' = Tail(tasks) /\ UNCHANGED held
    /\ UNCHANGED <<toServer, lefts, clientVars, list, serverVars, budget, historyVars>>

\* ... and then calls it, even if the handle was taken off the map meanwhile.
PcHears(kind) ==
    /\ held # 0
    /\ PcTake(kind)
    /\ held' = 0

\* A request goes out if its handle is in the map.
Sent(m) == IF m.kind = "attach" \/ m.h \in mapped THEN <<m>> ELSE <<>>
Asks(m) == toServer' = toServer \o Sent(m)

Keeps == UNCHANGED <<lefts, list, attached, joinTask, known, missed, ran, early>>

PcAttach ==
    /\ PcRuns("attach")
    /\ Asks(Msg("attach", "pub", 0, <<>>))
    /\ gone' = FALSE
    /\ UNCHANGED <<dead, late>> /\ Keeps

PcCall(kind) ==
    /\ PcRuns(kind)
    /\ Asks(Msg(kind, "pub", handleId["pub"], <<>>))
    /\ UNCHANGED <<gone, dead, late>> /\ Keeps

\* The subscriber's handle is asked for.
Attaching == \E i \in 1..Len(toServer) : toServer[i].kind = "attach" /\ toServer[i].who = "sub"

\* Mutant: the subscriber is forgotten.
DetachPublisher ==
    /\ PcRuns("detach")
    /\ Asks(Msg("detach", "pub", handleId["pub"], <<>>))
    /\ gone' = TRUE
    /\ UNCHANGED <<dead, late>> /\ Keeps

\* VideoRoomClient::detach: both clients are detached.
PcDetach ==
    /\ PcRuns("detach")
    /\ toServer' = toServer \o Sent(Msg("detach", "pub", handleId["pub"], <<>>))
                            \o Sent(Msg("detach", "sub", handleId["sub"], <<>>))
    /\ gone' = TRUE
    /\ dead' = (dead \/ handleId["sub"] # 0)
    /\ late' = (late \/ Attaching)
    /\ Keeps

\* Of the feeds of a list, only the last one's streams are asked for.
Requested(feeds) == <<feeds[Len(feeds)]>>
Skipped(feeds) == {<<f, "notLast">> : f \in Elements(feeds) \ Elements(Requested(feeds))}

\* join and subscribe, on the handle the subscriber has now.
AskFor(kind, feeds) ==
    LET f == Requested(feeds)
        h == handleId["sub"]
    IN /\ Asks(Msg(kind, "sub", h, f))
       /\ missed' = missed \cup Skipped(feeds)
                           \cup (IF h \in mapped THEN {} ELSE {<<f[1], "dead">>})

\* Mutant: each list makes a subscription of its own.
NeverReuses == FALSE

Reuses == attached

SubscribeTo(feeds) ==
    IF Reuses
    THEN AskFor("subscribe", feeds) /\ UNCHANGED <<joinTask, ran, early, late>>
    ELSE /\ Asks(Msg("attach", "sub", 0, <<>>))
         /\ joinTask' = feeds
         /\ ran' = FALSE
         /\ missed' = IF ran THEN missed
                      ELSE missed \cup {<<f, "replaced">> : f \in Elements(joinTask)}
         /\ early' = (early \/ (joinTask # <<>> /\ ~attached))
         /\ late' = (late \/ gone)

\* Mutant: the task waits for the server's "attached".
JoinOnceAttached == attached

JoinDue == joinTask # <<>>

\* onAttached of the subscriber runs the task there is.
PcAttached ==
    /\ PcRuns("attached")
    /\ IF Head(tasks).who = "sub" /\ JoinDue
       THEN AskFor("subjoin", joinTask) /\ ran' = TRUE
       ELSE UNCHANGED <<toServer, missed, ran>>
    /\ UNCHANGED <<lefts, list, attached, joinTask, known, early, gone, dead, late>>

\* onMessage of the publisher: the feeds join the list, and are subscribed to.
\* main takes the notices in their order, and nothing else reads the list.
\* addParticipant does not look whether the feed is there.
PcPublishers ==
    /\ PcHears("publishers")
    /\ LET feeds == Head(tasks).feeds IN
        IF feeds # <<>>
        THEN /\ known' = known \cup Elements(feeds)
             /\ list' = [f \in Feeds |-> list[f] + Occurrences(f, feeds)]
             /\ SubscribeTo(feeds)
        ELSE UNCHANGED <<known, list, toServer, joinTask, ran, missed, early, late>>
    /\ UNCHANGED <<lefts, attached, gone, dead>>

\* Mutants: one is taken off that is not there, or stays.
TakeOffAlways(f) == [list EXCEPT ![f] = @ - 1]
LetStay(f) == list

TakeOff(f) == IF list[f] > 0 THEN [list EXCEPT ![f] = @ - 1] ELSE list

\* removeParticipant, of the controller and of the list.
PcRemove(kind) ==
    /\ PcHears(kind)
    /\ LET f == Head(tasks).feeds[1] IN
        list' = IF f \in known THEN TakeOff(f) ELSE list
    /\ UNCHANGED <<toServer, lefts, attached, joinTask, known, missed, ran, early, gone, dead, late>>

\* onMessage of the subscriber.
PcSubscribed ==
    /\ PcHears("subscribed")
    /\ attached' = TRUE
    /\ UNCHANGED <<toServer, lefts, list, joinTask, known, missed, ran, early, gone, dead, late>>

\* The callback of leave: onLeaveRoom.
PcLeft ==
    /\ PcRuns("left")
    /\ lefts' = lefts + 1
    /\ UNCHANGED <<toServer, list, attached, joinTask, known, missed, ran, early, gone, dead, late>>

-----------------------------------------------------------------------------
(* main.  A call waits until plugin-client has run it.                     *)

Calls == {"attach", "join", "leave", "detach"}

Main ==
    /\ \A i \in 1..Len(tasks) : tasks[i].kind \notin Calls
    /\ UNCHANGED <<toServer, held, list, clientVars, serverVars, historyVars>>

UserCall(kind) ==
    /\ Main
    /\ gone <=> kind = "attach"
    /\ budget.calls < MaxCalls
    /\ budget' = [budget EXCEPT !.calls = @ + 1]
    /\ tasks' = Append(tasks, Msg(kind, "pub", 0, <<>>))
    /\ UNCHANGED lefts

\* onLeaveRoom: the clients are detached; the list stays as it is.
MainLeft ==
    /\ Main
    /\ lefts > 0
    /\ lefts' = lefts - 1
    /\ tasks' = Append(tasks, Msg("detach", "pub", 0, <<>>))
    /\ UNCHANGED budget

-----------------------------------------------------------------------------
Server ==
    \/ \E f \in Feeds : Publish(f) \/ Unpublish(f) \/ Leave(f)
    \/ ServeAttach \/ ServeJoin \/ ServeLeave \/ ServeDetach
    \/ ServeSubscribe("subjoin") \/ ServeSubscribe("subscribe")

PcStep ==
    \/ PcAttach \/ PcCall("join") \/ PcCall("leave") \/ PcDetach
    \/ PcAttached \/ PcFetch \/ PcPublishers \/ PcSubscribed \/ PcLeft
    \/ PcRemove("unpublished") \/ PcRemove("leaving")

User == UserCall("attach") \/ UserCall("join") \/ UserCall("leave")

Next == Server \/ PcStep \/ MainLeft \/ User

Spec == Init /\ [][Next]_vars

-----------------------------------------------------------------------------
(* Properties.                                                             *)

Handles == 1..Len(handles)
CallTasks == [kind : Calls, who : {"pub"}, h : {0}, feeds : {<<>>}]
Messages ==
    [kind : {"attached"}, who : Clients, h : Nat \ {0}, feeds : {<<>>}]
        \cup [kind : {"publishers"}, who : {"pub"}, h : Nat, feeds : Seq(Feeds)]
        \cup [kind : {"unpublished", "leaving"}, who : {"pub"}, h : Nat, feeds : {<<f>> : f \in Feeds}]
        \cup [kind : {"subscribed"}, who : {"sub"}, h : Nat, feeds : {<<>>}]
        \cup [kind : {"left"}, who : {"pub"}, h : Nat, feeds : {<<>>}]
Requests ==
    [kind : {"attach"}, who : Clients, h : {0}, feeds : {<<>>}]
        \cup [kind : {"join", "leave"}, who : {"pub"}, h : Nat, feeds : {<<>>}]
        \cup [kind : {"detach"}, who : Clients, h : Nat, feeds : {<<>>}]
        \cup [kind : {"subjoin", "subscribe"}, who : {"sub"}, h : Nat, feeds : {<<f>> : f \in Feeds}]

\* Every variable has its type, and what goes out names a handle that was given.
TypeOK ==
    /\ toServer \in Seq(Requests)
    /\ \A i \in 1..Len(toServer) : toServer[i].h \in 0..Len(handles)
    /\ tasks \in Seq(CallTasks \cup Messages)
    /\ held \in Nat
    /\ lefts \in Nat
    /\ handleId \in [Clients -> 0..Len(handles)]
    /\ mapped \subseteq Handles
    /\ joinTask \in Seq(Feeds)
    /\ known \subseteq Feeds
    /\ list \in [Feeds -> Nat]
    /\ handles \in Seq(Clients)
    /\ live \subseteq Handles /\ members \subseteq Handles /\ room \subseteq Handles
    /\ subs \in [Handles -> SUBSET Feeds]
    /\ feed \in [Feeds -> {"away", "here", "publishing"}]
    /\ budget \in [calls : Nat, changes : Nat]
    /\ visits \in Nat
    /\ missed \subseteq Feeds \X {"notLast", "replaced", "dead"}
    /\ {attached, ran, early, gone, dead, late} \subseteq BOOLEAN

Quiet == toServer = <<>> /\ tasks = <<>> /\ lefts = 0
Subscribers == {h \in live : handles[h] = "sub"}
Followers(f) == {h \in Subscribers : f \in subs[h]}

\* With the client's handle in the room, each feed that publishes is subscribed to as soon as all is
\* quiet, but for the three ways in which the code forgets one: a list in which
\* it is not the last (video_room_subscriber.cpp:92-104), a second list that
\* replaces the task of the first before it ran (:71-79), and a request on a
\* handle that is dead, since _attached outlives a detach, or that is not a
\* subscriber, since two handles were asked for (:67).
FeedsFollowed ==
    Quiet /\ handleId["pub"] \in room =>
        \A f \in Publishing :
            \/ Followers(f) # {}
            \/ <<f, "notLast">> \in missed
            \/ <<f, "replaced">> \in missed
            \/ <<f, "dead">> \in missed /\ (dead \/ early)

\* The media of a feed comes once, however the lists, the replies and the
\* visits cross, unless a list came while the first subscription was being
\* made, for which the code attaches again (video_room_subscriber.cpp:65-80).
FollowedOnce == early \/ \A f \in Feeds : Cardinality(Followers(f)) <= 1

\* A visit that is over leaves no subscriber on the server, unless the
\* subscriber was attaching around the detach, which then did not name its
\* handle (video_room_client.cpp:73-78).
LeftBehind == Quiet /\ gone /\ ~early /\ ~late => Subscribers = {}

\* As soon as all is quiet, the list shows a feed that publishes, and on the
\* first visit once, and no other: each earlier visit may leave one behind,
\* since the list is not cleared, and none is lost to the notices that tell of
\* one feed twice (participants_list_view.cpp:26-73, ui.cpp:148-157).
ListCounts ==
    Quiet => \A f \in Feeds :
        /\ list[f] <= visits
        /\ room # {} => IF f \in Publishing THEN list[f] >= 1 ELSE list[f] <= visits - 1
=============================================================================
