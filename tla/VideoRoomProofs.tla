-------------------------- MODULE VideoRoomProofs --------------------------
(***************************************************************************)
(* Proofs about VideoRoom, for any feeds and any number of calls: its type *)
(* invariant, that a feed is followed by one subscription, that a visit    *)
(* leaves no subscriber behind, that a feed is followed or was forgotten   *)
(* in one of the three ways that FeedsFollowed names, and how often the    *)
(* list shows a feed.                                                      *)
(***************************************************************************)
EXTENDS VideoRoom, FiniteSetTheorems, TLAPS

-----------------------------------------------------------------------------
(* Queues, requests and tasks.                                             *)

Tasks == CallTasks \cup Messages

LEMMA AppendAt ==
    ASSUME NEW S, NEW s \in Seq(S), NEW e \in S
    PROVE  /\ Append(s, e) \in Seq(S)
           /\ Len(s) \in Nat
           /\ Len(Append(s, e)) = Len(s) + 1
           /\ \A i \in 1..Len(s) : Append(s, e)[i] = s[i]
           /\ Append(s, e)[Len(s) + 1] = e
OBVIOUS

LEMMA BudgetSpent ==
    ASSUME NEW b \in [calls : Nat, changes : Nat]
    PROVE  /\ [b EXCEPT !.calls = @ + 1] \in [calls : Nat, changes : Nat]
           /\ [b EXCEPT !.changes = @ + 1] \in [calls : Nat, changes : Nat]
OBVIOUS

LEMMA TailAt ==
    ASSUME NEW S, NEW s \in Seq(S), s # <<>>
    PROVE  /\ Tail(s) \in Seq(S)
           /\ Len(s) \in Nat \ {0}
           /\ Len(Tail(s)) = Len(s) - 1
           /\ \A i \in 1..(Len(s) - 1) : Tail(s)[i] = s[i + 1]
           /\ Head(s) = s[1]
           /\ Head(s) \in S
OBVIOUS

\* A function on 1..n is a sequence, which grows by one.
LEMMA FunctionGrown ==
    ASSUME NEW S, NEW n \in Nat, NEW s \in [1..n -> S], NEW e \in S
    PROVE  /\ s \in Seq(S) /\ Len(s) = n
           /\ Append(s, e) \in [1..(n + 1) -> S]
           /\ \A i \in 1..n : Append(s, e)[i] = s[i]
           /\ Append(s, e)[n + 1] = e
<1>1. s \in Seq(S) /\ Len(s) = n
  OBVIOUS
<1>2. /\ Append(s, e) \in Seq(S) /\ Len(Append(s, e)) = n + 1
      /\ \A i \in 1..n : Append(s, e)[i] = s[i]
      /\ Append(s, e)[n + 1] = e
  BY <1>1, AppendAt
<1>3. Append(s, e) \in [1..(n + 1) -> S]
  <2>1. \A t \in Seq(S) : t \in [1..Len(t) -> S]
    OBVIOUS
  <2>2. Append(s, e) \in [1..Len(Append(s, e)) -> S]
    BY <1>2, <2>1
  <2> QED
    BY <1>2, <2>2, Zenon
<1> QED
  BY <1>1, <1>2, <1>3

LEMMA ConcatAt ==
    ASSUME NEW S, NEW s \in Seq(S), NEW t \in Seq(S)
    PROVE  /\ s \o t \in Seq(S)
           /\ Len(s) \in Nat /\ Len(t) \in Nat
           /\ Len(s \o t) = Len(s) + Len(t)
           /\ \A i \in 1..Len(s) : (s \o t)[i] = s[i]
           /\ \A i \in 1..Len(t) : (s \o t)[Len(s) + i] = t[i]
OBVIOUS

\* A request that Sent lets out is the last of the queue.
LEMMA SentAt ==
    ASSUME NEW q \in Seq(Requests), NEW m \in Requests
    PROVE  /\ q \o Sent(m) \in Seq(Requests)
           /\ Len(q) \in Nat
           /\ Len(q \o Sent(m)) \in {Len(q), Len(q) + 1}
           /\ \A i \in 1..Len(q) : (q \o Sent(m))[i] = q[i]
           /\ Len(q \o Sent(m)) = Len(q) + 1 =>
                 /\ (q \o Sent(m))[Len(q) + 1] = m
                 /\ m.kind = "attach" \/ m.h \in mapped
           /\ m.kind = "attach" \/ m.h \in mapped => Len(q \o Sent(m)) = Len(q) + 1
<1>1. CASE m.kind = "attach" \/ m.h \in mapped
  <2>1. Sent(m) = <<m>> /\ <<m>> \in Seq(Requests) /\ Len(<<m>>) = 1 /\ <<m>>[1] = m
    BY <1>1 DEF Sent
  <2> QED
    BY <1>1, <2>1, ConcatAt
<1>2. CASE ~(m.kind = "attach" \/ m.h \in mapped)
  <2>1. q \o Sent(m) = q
    BY <1>2 DEF Sent
  <2> QED
    BY <1>2, <2>1
<1> QED
  BY <1>1, <1>2

LEMMA RequestTypes ==
    ASSUME NEW m \in Requests
    PROVE  /\ m.h \in Nat /\ m.who \in Clients
           /\ m.kind \in {"attach", "join", "leave", "detach", "subjoin", "subscribe"}
           /\ m.kind \in {"subjoin", "subscribe"} =>
                 m.who = "sub" /\ m.feeds[1] \in Feeds /\ m.feeds = <<m.feeds[1]>>
           /\ m.kind \in {"join", "leave"} => m.who = "pub"
           /\ m.kind = "attach" => m.h = 0
BY DEF Requests, Clients

LEMMA TaskTypes ==
    ASSUME NEW m \in Tasks
    PROVE  /\ m.h \in Nat
           /\ m.kind = "attached" => m.who \in Clients
           /\ m.kind = "publishers" => m.feeds \in Seq(Feeds)
           /\ m.kind \in {"unpublished", "leaving"} => m.feeds[1] \in Feeds
BY DEF Tasks, CallTasks, Messages, Calls, Clients

LEMMA RequestMade ==
    /\ \A c \in Clients : Msg("attach", c, 0, <<>>) \in Requests
    /\ \A kind \in {"join", "leave", "detach"}, h \in Nat : Msg(kind, "pub", h, <<>>) \in Requests
    /\ \A c \in Clients, h \in Nat : Msg("detach", c, h, <<>>) \in Requests
    /\ \A kind \in {"subjoin", "subscribe"}, h \in Nat, f \in Feeds : Msg(kind, "sub", h, <<f>>) \in Requests
BY DEF Requests, Msg, Clients

LEMMA TaskMade ==
    /\ \A kind \in Calls : Msg(kind, "pub", 0, <<>>) \in Tasks
    /\ \A c \in Clients, h \in Nat \ {0} : Msg("attached", c, h, <<>>) \in Tasks
    /\ \A h \in Nat, fs \in Seq(Feeds) : Msg("publishers", "pub", h, fs) \in Tasks
    /\ \A kind \in {"unpublished", "leaving"}, h \in Nat, f \in Feeds : Msg(kind, "pub", h, <<f>>) \in Tasks
    /\ \A h \in Nat : Msg("subscribed", "sub", h, <<>>) \in Tasks
    /\ \A h \in Nat : Msg("left", "pub", h, <<>>) \in Tasks
BY DEF Tasks, CallTasks, Messages, Msg

LEMMA Handling ==
    ASSUME TypeOK
    PROVE  /\ Len(handles) \in Nat
           /\ \A h \in Handles : h \in Nat \ {0}
           /\ \A c \in Clients : handleId[c] \in Nat /\ (handleId[c] # 0 => handleId[c] \in Handles)
           /\ room \subseteq Nat /\ mapped \subseteq Nat
           /\ "pub" \in Clients /\ "sub" \in Clients
BY DEF TypeOK, Handles, Clients

-----------------------------------------------------------------------------
(* The types.                                                              *)

RequestsTyped ==
    /\ toServer \in Seq(Requests)
    /\ \A i \in 1..Len(toServer) : toServer[i].h \in 0..Len(handles)
TasksTyped == tasks \in Seq(Tasks)

\* An order of a finite set is a sequence of its elements, each once.
LEMMA OrderOf ==
    ASSUME NEW S, IsFiniteSet(S), NEW order \in Orders(S)
    PROVE  /\ order \in Seq(S)
           /\ DOMAIN order = 1..Len(order)
           /\ Len(order) \in Nat
           /\ \A x \in S : \E i \in 1..Len(order) : order[i] = x
           /\ \A i \in 1..Len(order) : order[i] \in S
           /\ \A i, j \in 1..Len(order) : order[i] = order[j] => i = j
<1> DEFINE n == Cardinality(S)
<1>1. n \in Nat
  BY FS_CardinalityType
<1>2. order \in [1..n -> S] /\ S = Elements(order)
  BY DEF Orders
<1> HIDE DEF n
<1>3. order \in Seq(S) /\ Len(order) = n /\ DOMAIN order = 1..n
  BY <1>1, <1>2
<1>4. \A x \in S : \E i \in 1..n : order[i] = x
  BY <1>2, <1>3 DEF Elements
<1>5. \A i, j \in 1..n : order[i] = order[j] => i = j
  <2>1. order \in Surjection(1..n, S)
    BY <1>2, <1>4 DEF Surjection
  <2>2. IsFiniteSet(1..n) /\ Cardinality(1..n) = n
    BY <1>1, FS_Interval
  <2>3. Cardinality(1..n) = Cardinality(S)
    BY <2>2 DEF n
  <2>4. order \in Injection(1..n, S)
    BY <2>1, <2>2, <2>3, FS_SurjSameCardinalityImpliesInj
  <2> QED
    BY <2>4 DEF Injection, IsInjective
<1> QED
  BY <1>1, <1>2, <1>3, <1>4, <1>5

LEMMA HandlesFinite == ASSUME TypeOK, NEW S \in SUBSET Handles PROVE IsFiniteSet(S)
<1>1. Len(handles) \in Nat
  BY Handling
<1>2. IsFiniteSet(1..Len(handles))
  BY <1>1, FS_Interval
<1> QED
  BY <1>2, FS_Subset DEF Handles

LEMMA PublishingFinite == IsFiniteSet(Publishing)
BY FeedsAssumption, FS_Subset DEF Publishing

\* What TellRoom adds: one task for each handle of the room that is mapped.
LEMMA RoomTold ==
    ASSUME TypeOK, NEW kind \in {"publishers", "unpublished", "leaving"}, NEW f \in Feeds,
           TellRoom(kind, f)
    PROVE  \E told \in Seq(Tasks) :
              /\ tasks' = tasks \o told
              /\ \A i \in 1..Len(told) :
                    \E h \in room \cap mapped : told[i] = Msg(kind, "pub", h, <<f>>)
              /\ \A h \in room \cap mapped :
                    \E i \in 1..Len(told) : told[i] = Msg(kind, "pub", h, <<f>>)
              /\ \A i, j \in 1..Len(told) : told[i].h = told[j].h => i = j
<1> DEFINE R == room \cap mapped
<1>1. PICK order \in Orders(R) :
          tasks' = tasks \o [i \in DOMAIN order |-> Msg(kind, "pub", order[i], <<f>>)]
  BY DEF TellRoom
<1>2. IsFiniteSet(R)
  BY HandlesFinite DEF TypeOK
<1> HIDE DEF R
<1>3. /\ DOMAIN order = 1..Len(order)
      /\ Len(order) \in Nat
      /\ \A x \in R : \E i \in 1..Len(order) : order[i] = x
      /\ \A i \in 1..Len(order) : order[i] \in R
      /\ \A i, j \in 1..Len(order) : order[i] = order[j] => i = j
  BY <1>2, OrderOf
<1> DEFINE told == [i \in 1..Len(order) |-> Msg(kind, "pub", order[i], <<f>>)]
<1>4. \A h \in R : Msg(kind, "pub", h, <<f>>) \in Tasks
  <2>1. R \subseteq Nat
    BY Handling DEF R
  <2>2. <<f>> \in Seq(Feeds)
    OBVIOUS
  <2> QED
    BY <2>1, <2>2, TaskMade
<1>5. told \in Seq(Tasks) /\ Len(told) = Len(order)
  BY <1>3, <1>4
<1>6. tasks' = tasks \o told
  BY <1>1, <1>3
<1>7. \A i \in 1..Len(told) : \E h \in R : told[i] = Msg(kind, "pub", h, <<f>>)
  BY <1>3, <1>5
<1>8. \A h \in R : \E i \in 1..Len(told) : told[i] = Msg(kind, "pub", h, <<f>>)
  BY <1>3, <1>5
<1>9. \A i, j \in 1..Len(told) : told[i].h = told[j].h => i = j
  <2>1. \A i \in 1..Len(told) : told[i].h = order[i]
    BY <1>5 DEF Msg
  <2> QED
    BY <1>3, <1>5, <2>1
<1> QED
  BY <1>5, <1>6, <1>7, <1>8, <1>9 DEF R

LEMMA RequestServed ==
    ASSUME TypeOK, toServer # <<>>, toServer' = Tail(toServer),
           Len(handles') \in Nat, Len(handles) <= Len(handles')
    PROVE  RequestsTyped'
<1>1. \A i \in 1..Len(Tail(toServer)) : i + 1 \in 1..Len(toServer) /\ Tail(toServer)[i] = toServer[i + 1]
  BY TailAt DEF TypeOK
<1>2. Tail(toServer) \in Seq(Requests)
  BY TailAt DEF TypeOK
<1>3. 0..Len(handles) \subseteq 0..Len(handles')
  BY Handling
<1> QED
  BY <1>1, <1>2, <1>3 DEF RequestsTyped, TypeOK

LEMMA RequestsKept ==
    ASSUME TypeOK, UNCHANGED <<toServer, handles>>
    PROVE  RequestsTyped'
BY DEF RequestsTyped, TypeOK

\* One more request, on a handle that was given.
LEMMA QueueGrown ==
    ASSUME NEW q \in Seq(Requests), NEW n, \A i \in 1..Len(q) : q[i].h \in n,
           NEW m \in Requests, m.h \in n
    PROVE  /\ q \o Sent(m) \in Seq(Requests)
           /\ \A i \in 1..Len(q \o Sent(m)) : (q \o Sent(m))[i].h \in n
<1> DEFINE grown == q \o Sent(m)
<1>1. /\ grown \in Seq(Requests) /\ Len(q) \in Nat
      /\ Len(grown) \in {Len(q), Len(q) + 1}
      /\ \A i \in 1..Len(q) : grown[i] = q[i]
      /\ Len(grown) = Len(q) + 1 => grown[Len(q) + 1] = m
  BY SentAt
<1> HIDE DEF grown
<1>2. \A i \in 1..Len(grown) : i \in 1..Len(q) \/ (i = Len(q) + 1 /\ Len(grown) = Len(q) + 1)
  BY <1>1
<1>3. \A i \in 1..Len(grown) : grown[i].h \in n
  BY <1>1, <1>2
<1> QED
  BY <1>1, <1>3 DEF grown

LEMMA RequestAsked ==
    ASSUME TypeOK, NEW m \in Requests, m.h \in 0..Len(handles), Asks(m), UNCHANGED handles
    PROVE  RequestsTyped'
BY QueueGrown, Handling DEF RequestsTyped, TypeOK, Asks

LEMMA TaskTaken ==
    ASSUME TypeOK, tasks # <<>>, tasks' = Tail(tasks)
    PROVE  TasksTyped' /\ Head(tasks) \in Tasks
BY TailAt DEF TypeOK, Tasks, TasksTyped

LEMMA TaskPosted ==
    ASSUME TypeOK, NEW m \in Tasks, tasks' = Append(tasks, m)
    PROVE  TasksTyped'
BY AppendAt DEF TypeOK, Tasks, TasksTyped

LEMMA TasksAdded ==
    ASSUME TypeOK, NEW told \in Seq(Tasks), tasks' = tasks \o told
    PROVE  TasksTyped'
BY ConcatAt DEF TypeOK, Tasks, TasksTyped

\* The types but for the queues.
RestTyped ==
    /\ held \in Nat
    /\ lefts \in Nat
    /\ handleId \in [Clients -> 0..Len(handles)]
    /\ mapped \subseteq Handles
    /\ joinTask \in Seq(Feeds)
    /\ known \subseteq Feeds
    /\ list \in [Feeds -> Nat]
    /\ handles \in Seq(Clients)
    /\ live \subseteq Handles /\ members \subseteq Handles /\ room \subseteq Handles
    /\ subs \in [Handles -> SUBSET Feeds]
    /\ feed \in [Feeds -> {"away", "here", "publishing"}]
    /\ budget \in [calls : Nat, changes : Nat]
    /\ visits \in Nat
    /\ missed \subseteq Feeds \X {"notLast", "replaced", "dead"}
    /\ {attached, ran, early, gone, dead, late} \subseteq BOOLEAN

LEMMA Typing == TypeOK <=> RequestsTyped /\ TasksTyped /\ RestTyped
BY DEF TypeOK, RequestsTyped, TasksTyped, RestTyped, Tasks

LEMMA TypingNext == RequestsTyped' /\ TasksTyped' /\ RestTyped' => TypeOK'
BY DEF TypeOK, RequestsTyped, TasksTyped, RestTyped, Tasks

LEMMA ChangesType ==
    ASSUME TypeOK, NEW f \in Feeds, NEW from, NEW to \in {"away", "here", "publishing"},
           Changes(f, from, to), TasksTyped',
           subs' \in [Handles -> SUBSET Feeds], missed' \subseteq missed
    PROVE  TypeOK'
<1>1. RequestsTyped'
  BY RequestsKept DEF Changes
<1>2. RestTyped'
  <2>1. /\ feed' = [feed EXCEPT ![f] = to]
        /\ budget' = [budget EXCEPT !.changes = @ + 1]
        /\ UNCHANGED <<held, lefts, handleId, mapped, attached, joinTask, known, list, handles, live, room,
                       members, visits, ran, early, gone, dead, late>>
    BY DEF Changes, clientVars
  <2>2. feed' \in [Feeds -> {"away", "here", "publishing"}]
    BY <2>1 DEF TypeOK
  <2>3. budget' \in [calls : Nat, changes : Nat]
    BY <2>1, BudgetSpent DEF TypeOK
  <2>4. missed' \subseteq Feeds \X {"notLast", "replaced", "dead"}
    BY DEF TypeOK
  <2> QED
    BY <2>1, <2>2, <2>3, <2>4, Typing DEF RestTyped, Handles
<1> QED
  BY <1>1, <1>2, TypingNext

LEMMA PublishType == ASSUME TypeOK, NEW f \in Feeds, Publish(f) PROVE TypeOK'
<1>1. TasksTyped'
  BY RoomTold, TasksAdded DEF Publish
<1> QED
  BY <1>1, ChangesType DEF Publish, TypeOK

LEMMA UnpublishType == ASSUME TypeOK, NEW f \in Feeds, Unpublish(f) PROVE TypeOK'
<1>1. TasksTyped'
  BY RoomTold, TasksAdded DEF Unpublish
<1>2. subs' \in [Handles -> SUBSET Feeds]
  BY DEF Unpublish, TypeOK
<1>3. missed' \subseteq missed
  BY DEF Unpublish
<1> QED
  BY <1>1, <1>2, <1>3, ChangesType DEF Unpublish

LEMMA LeaveType == ASSUME TypeOK, NEW f \in Feeds, Leave(f) PROVE TypeOK'
<1>1. TasksTyped'
  BY RoomTold, TasksAdded DEF Leave
<1> QED
  BY <1>1, ChangesType DEF Leave, TypeOK

\* What is common to the requests that are served on a handle.
LEMMA ServedType ==
    ASSUME TypeOK, NEW kind, Serve(kind), UNCHANGED handles, TasksTyped',
           handleId' \in [Clients -> 0..Len(handles)],
           mapped' \subseteq Handles, live' \subseteq Handles, members' \subseteq Handles,
           room' \subseteq Handles, subs' \in [Handles -> SUBSET Feeds], visits' \in Nat,
           missed' \subseteq Feeds \X {"notLast", "replaced", "dead"}
    PROVE  TypeOK'
<1>1. RequestsTyped'
  BY RequestServed, Handling DEF Serve
<1>2. RestTyped'
  BY Typing DEF RestTyped, Serve, Handles
<1> QED
  BY <1>1, <1>2, TypingNext

\* The head of the queue is a request.
LEMMA HeadServed ==
    ASSUME TypeOK, NEW kind, Serve(kind)
    PROVE  /\ Head(toServer) \in Requests
           /\ Head(toServer).kind = kind
           /\ Head(toServer).h \in 0..Len(handles)
           /\ Head(toServer).who \in Clients
           /\ toServer # <<>>
           /\ toServer' = Tail(toServer)
<1>1. Head(toServer) \in Requests /\ Head(toServer) = toServer[1] /\ 1 \in 1..Len(toServer)
  BY TailAt DEF Serve, TypeOK
<1> QED
  BY <1>1, RequestTypes DEF Serve, TypeOK

LEMMA ServeAttachType == ASSUME TypeOK, ServeAttach PROVE TypeOK'
<1> DEFINE who == Head(toServer).who
           h   == Len(handles) + 1
<1>1. Serve("attach") /\ who \in Clients
  BY HeadServed DEF ServeAttach
<1>2. /\ handles' = Append(handles, who)
      /\ live' = live \cup {h} /\ mapped' = mapped \cup {h}
      /\ subs' = Append(subs, {})
      /\ handleId' = [handleId EXCEPT ![who] = h]
      /\ tasks' = Append(tasks, Msg("attached", who, h, <<>>))
      /\ UNCHANGED <<room, members, visits, missed>>
  BY DEF ServeAttach, Posts
<1> HIDE DEF who
<1>3. Len(handles) \in Nat /\ handles' \in Seq(Clients) /\ Len(handles') = h
  BY <1>1, <1>2, AppendAt DEF TypeOK
<1>4. Handles' = Handles \cup {h} /\ h \in Nat \ {0} /\ 0..Len(handles) \subseteq 0..Len(handles')
  BY <1>3 DEF Handles
<1>5. TasksTyped'
  BY <1>1, <1>2, <1>4, TaskMade, TaskPosted
<1>6. RequestsTyped'
  BY <1>1, <1>3, RequestServed DEF Serve
<1>7. subs' \in [Handles' -> SUBSET Feeds]
  <2>1. subs \in [1..Len(handles) -> SUBSET Feeds] /\ {} \in SUBSET Feeds
    BY DEF TypeOK, Handles
  <2>2. Append(subs, {}) \in [1..(Len(handles) + 1) -> SUBSET Feeds]
    BY <1>3, <2>1, FunctionGrown
  <2> QED
    BY <1>2, <1>3, <2>2 DEF Handles
<1>8. handleId' \in [Clients -> 0..Len(handles')]
  BY <1>1, <1>2, <1>3, <1>4 DEF TypeOK
<1>9. RestTyped'
  <2>1. UNCHANGED <<held, lefts, attached, joinTask, known, list, feed, budget, ran, early, gone, dead, late>>
    BY <1>1 DEF Serve
  <2> QED
    BY <1>2, <1>3, <1>4, <1>7, <1>8, <2>1, Typing DEF RestTyped
<1> QED
  BY <1>5, <1>6, <1>9, TypingNext

LEMMA ServeJoinType == ASSUME TypeOK, ServeJoin PROVE TypeOK'
<1> DEFINE h == Head(toServer).h
<1>1. Serve("join") /\ UNCHANGED <<handleId, mapped, handles, live, subs, members, missed>>
  BY DEF ServeJoin
<1>2. CASE h \in live \ room
  <2>1. h \in Handles /\ h \in Nat
    BY <1>2, Handling DEF TypeOK
  <2>2. PICK order \in Orders(Publishing) : Tells("publishers", "pub", h, order)
    BY <1>2 DEF ServeJoin
  <2>3. order \in Seq(Feeds)
    BY <2>2, PublishingFinite, OrderOf DEF Publishing
  <2>4. Msg("publishers", "pub", h, order) \in Tasks
    BY <2>1, <2>3, TaskMade
  <2>5. TasksTyped'
    BY <2>2, <2>4, TaskPosted, Typing DEF Tells, Posts, TasksTyped
  <2>6. room' \subseteq Handles /\ visits' \in Nat
    BY <1>2, <2>1 DEF ServeJoin, TypeOK
  <2> QED
    BY <1>1, <2>5, <2>6, ServedType DEF TypeOK
<1>3. CASE h \notin live \ room
  <2>1. UNCHANGED <<room, visits, tasks>>
    BY <1>3 DEF ServeJoin
  <2> QED
    BY <1>1, <2>1, ServedType, Typing DEF TypeOK, TasksTyped
<1> QED
  BY <1>2, <1>3

LEMMA ServeLeaveType == ASSUME TypeOK, ServeLeave PROVE TypeOK'
<1>1. /\ Serve("leave") /\ Head(toServer).h \in Nat
      /\ UNCHANGED <<handleId, mapped, handles, live, subs, members, visits, missed>>
      /\ room' \subseteq room
      /\ tasks' = Append(tasks, Msg("left", "pub", Head(toServer).h, <<>>))
  BY HeadServed, RequestTypes DEF ServeLeave, Posts
<1>2. TasksTyped'
  BY <1>1, TaskMade, TaskPosted
<1> QED
  BY <1>1, <1>2, ServedType DEF TypeOK

LEMMA ServeDetachType == ASSUME TypeOK, ServeDetach PROVE TypeOK'
<1>1. /\ Serve("detach")
      /\ UNCHANGED <<tasks, handleId, handles, visits, missed>>
      /\ live' \subseteq live /\ room' \subseteq room /\ members' \subseteq members /\ mapped' \subseteq mapped
      /\ subs' = [subs EXCEPT ![Head(toServer).h] = {}]
  BY DEF ServeDetach
<1>2. TasksTyped'
  BY <1>1, Typing DEF TasksTyped
<1>3. subs' \in [Handles -> SUBSET Feeds]
  BY <1>1 DEF TypeOK
<1> QED
  BY <1>1, <1>2, <1>3, ServedType DEF TypeOK

LEMMA ServeSubscribeType ==
    ASSUME TypeOK, NEW kind \in {"subjoin", "subscribe"}, ServeSubscribe(kind)
    PROVE  TypeOK'
<1> DEFINE h == Head(toServer).h
           f == Head(toServer).feeds[1]
<1>1. Serve(kind) /\ UNCHANGED <<handleId, mapped, handles, live, room, visits>>
  BY DEF ServeSubscribe
<1>2. f \in Feeds /\ h \in Nat
  BY <1>1, HeadServed, RequestTypes
<1>3. missed' \subseteq missed \cup {<<f, "dead">>}
  BY DEF ServeSubscribe
<1>4. \/ UNCHANGED <<subs, members>>
      \/ h \in live /\ subs' = [subs EXCEPT ![h] = @ \cup {f}] /\ members' = members \cup {h}
  BY DEF ServeSubscribe
<1> HIDE DEF h, f
<1>5. subs' \in [Handles -> SUBSET Feeds] /\ members' \subseteq Handles
  <2>1. /\ subs \in [Handles -> SUBSET Feeds]
        /\ members \subseteq Handles /\ live \subseteq Handles
    BY DEF TypeOK
  <2>2. CASE h \in live /\ subs' = [subs EXCEPT ![h] = @ \cup {f}] /\ members' = members \cup {h}
    <3>1. subs[h] \cup {f} \in SUBSET Feeds
      BY <1>2, <2>1, <2>2
    <3> QED
      BY <2>1, <2>2, <3>1
  <2> QED
    BY <1>4, <2>1, <2>2
<1>6. tasks' = tasks \/ tasks' = Append(tasks, Msg("subscribed", "sub", h, <<>>))
  BY DEF ServeSubscribe, Tells, Posts, h
<1>7. TasksTyped'
  BY <1>2, <1>6, TaskMade, TaskPosted, Typing DEF TasksTyped, h
<1>8. missed' \subseteq Feeds \X {"notLast", "replaced", "dead"}
  <2>1. <<f, "dead">> \in Feeds \X {"notLast", "replaced", "dead"}
    BY <1>2
  <2> QED
    BY <1>3, <2>1 DEF TypeOK, f
<1> QED
  BY <1>1, <1>5, <1>7, <1>8, ServedType DEF TypeOK

\* What is common to the steps of plugin-client.
LEMMA TakenType ==
    ASSUME TypeOK, NEW kind, PcTake(kind), RequestsTyped', held' \in Nat,
           lefts' \in Nat, joinTask' \in Seq(Feeds), known' \subseteq Feeds, list' \in [Feeds -> Nat],
           missed' \subseteq Feeds \X {"notLast", "replaced", "dead"},
           {attached', ran', early', gone', dead', late'} \subseteq BOOLEAN
    PROVE  TypeOK'
<1>1. TasksTyped'
  BY TaskTaken DEF PcTake
<1>2. UNCHANGED <<handleId, mapped, handles, live, room, subs, members, feed, budget, visits>>
  BY DEF PcTake, serverVars
<1>3. RestTyped'
  BY <1>2, Typing DEF RestTyped, Handles
<1> QED
  BY <1>1, <1>3, TypingNext

LEMMA HeadTaken ==
    ASSUME TypeOK, NEW kind, PcTake(kind)
    PROVE  /\ Head(tasks) \in Tasks
           /\ Head(tasks).kind = kind
           /\ tasks # <<>>
           /\ tasks' = Tail(tasks)
           /\ UNCHANGED <<handleId, mapped, handles, live, room, subs, members, feed, budget, visits>>
BY TaskTaken DEF PcTake, serverVars

\* The requests name handles that were given.
LEMMA AskTyped ==
    ASSUME TypeOK, UNCHANGED handles
    PROVE  /\ \A c \in Clients : Asks(Msg("attach", c, 0, <<>>)) => RequestsTyped'
           /\ \A kind \in {"join", "leave", "detach"} :
                 Asks(Msg(kind, "pub", handleId["pub"], <<>>)) => RequestsTyped'
           /\ \A kind \in {"subjoin", "subscribe"}, f \in Feeds :
                 Asks(Msg(kind, "sub", handleId["sub"], <<f>>)) => RequestsTyped'
<1>1. 0 \in 0..Len(handles) /\ \A c \in Clients : handleId[c] \in Nat /\ handleId[c] \in 0..Len(handles)
  BY Handling DEF TypeOK
<1>2. "pub" \in Clients /\ "sub" \in Clients
  BY Handling
<1>3. \A c \in Clients : Asks(Msg("attach", c, 0, <<>>)) => RequestsTyped'
  <2>1. \A c \in Clients : Msg("attach", c, 0, <<>>).h = 0
    BY DEF Msg
  <2> QED
    BY <1>1, <2>1, RequestMade, RequestAsked
<1>4. \A kind \in {"join", "leave", "detach"} :
          Asks(Msg(kind, "pub", handleId["pub"], <<>>)) => RequestsTyped'
  <2>1. \A kind : Msg(kind, "pub", handleId["pub"], <<>>).h = handleId["pub"]
    BY DEF Msg
  <2> QED
    BY <1>1, <1>2, <2>1, RequestMade, RequestAsked
<1>5. \A kind \in {"subjoin", "subscribe"}, f \in Feeds :
          Asks(Msg(kind, "sub", handleId["sub"], <<f>>)) => RequestsTyped'
  <2>1. \A kind, f : Msg(kind, "sub", handleId["sub"], <<f>>).h = handleId["sub"]
    BY DEF Msg
  <2> QED
    BY <1>1, <1>2, <2>1, RequestMade, RequestAsked
<1> QED
  BY <1>3, <1>4, <1>5

LEMMA PcAttachType == ASSUME TypeOK, PcAttach PROVE TypeOK'
<1>1. PcTake("attach") /\ held' = held /\ Asks(Msg("attach", "pub", 0, <<>>)) /\ gone' = FALSE
      /\ UNCHANGED <<lefts, list, attached, joinTask, known, missed, ran, early, dead, late>>
  BY DEF PcAttach, Keeps, PcRuns
<1>2. RequestsTyped'
  BY <1>1, HeadTaken, AskTyped DEF Clients
<1> QED
  BY <1>1, <1>2, TakenType DEF TypeOK

LEMMA PcCallType ==
    ASSUME TypeOK, NEW kind \in {"join", "leave"}, PcCall(kind)
    PROVE  TypeOK'
<1>1. PcTake(kind) /\ held' = held /\ Asks(Msg(kind, "pub", handleId["pub"], <<>>))
      /\ UNCHANGED <<lefts, list, attached, joinTask, known, missed, ran, early, gone, dead, late>>
  BY DEF PcCall, Keeps, PcRuns
<1>2. RequestsTyped'
  BY <1>1, HeadTaken, AskTyped
<1> QED
  BY <1>1, <1>2, TakenType DEF TypeOK

LEMMA PcDetachType == ASSUME TypeOK, PcDetach PROVE TypeOK'
<1> DEFINE p == Msg("detach", "pub", handleId["pub"], <<>>)
           s == Msg("detach", "sub", handleId["sub"], <<>>)
<1>1. /\ PcTake("detach") /\ held' = held /\ toServer' = toServer \o Sent(p) \o Sent(s)
      /\ gone' = TRUE /\ dead' \in BOOLEAN /\ late' \in BOOLEAN
      /\ UNCHANGED <<lefts, list, attached, joinTask, known, missed, ran, early>>
  BY DEF PcDetach, Keeps, TypeOK, PcRuns
<1>2. p \in Requests /\ s \in Requests /\ p.h \in 0..Len(handles) /\ s.h \in 0..Len(handles)
  BY RequestMade, Handling DEF Msg, TypeOK
<1>3. /\ toServer \in Seq(Requests)
      /\ \A i \in 1..Len(toServer) : toServer[i].h \in 0..Len(handles)
  BY DEF TypeOK
<1> HIDE DEF p, s
<1> DEFINE mid == toServer \o Sent(p)
<1>4. mid \in Seq(Requests) /\ \A i \in 1..Len(mid) : mid[i].h \in 0..Len(handles)
  BY <1>2, <1>3, QueueGrown
<1> HIDE DEF mid
<1>5. mid \o Sent(s) \in Seq(Requests) /\ \A i \in 1..Len(mid \o Sent(s)) : (mid \o Sent(s))[i].h \in 0..Len(handles)
  BY <1>2, <1>4, QueueGrown
<1>6. RequestsTyped'
  BY <1>1, <1>5, HeadTaken DEF RequestsTyped, mid
<1> QED
  BY <1>1, <1>6, TakenType DEF TypeOK

LEMMA RequestedIs ==
    ASSUME NEW feeds \in Seq(Feeds), feeds # <<>>
    PROVE  /\ feeds[Len(feeds)] \in Feeds
           /\ Requested(feeds) = <<feeds[Len(feeds)]>>
           /\ Requested(feeds)[1] = feeds[Len(feeds)]
           /\ Skipped(feeds) = {<<f, "notLast">> : f \in Elements(feeds) \ {feeds[Len(feeds)]}}
           /\ Elements(feeds) \subseteq Feeds
           /\ feeds[Len(feeds)] \in Elements(feeds)
<1>1. Len(feeds) \in 1..Len(feeds) /\ feeds[Len(feeds)] \in Feeds
  OBVIOUS
<1>2. Requested(feeds) = <<feeds[Len(feeds)]>> /\ Requested(feeds)[1] = feeds[Len(feeds)]
  BY DEF Requested
<1>3. Elements(Requested(feeds)) = {feeds[Len(feeds)]}
  <2>1. Len(Requested(feeds)) = 1
    BY <1>2
  <2>2. Elements(Requested(feeds)) = {Requested(feeds)[i] : i \in 1..1}
    BY <2>1 DEF Elements
  <2> QED
    BY <1>2, <2>2
<1> QED
  BY <1>1, <1>2, <1>3 DEF Skipped, Elements

\* What AskFor asks, and what it forgets.
LEMMA AskedFor ==
    ASSUME TypeOK, UNCHANGED handles, NEW kind \in {"subjoin", "subscribe"},
           NEW feeds \in Seq(Feeds), feeds # <<>>, AskFor(kind, feeds)
    PROVE  /\ Asks(Msg(kind, "sub", handleId["sub"], <<feeds[Len(feeds)]>>))
           /\ missed \subseteq missed'
           /\ \A f \in Elements(feeds) : f # feeds[Len(feeds)] => <<f, "notLast">> \in missed'
           /\ handleId["sub"] \notin mapped => <<feeds[Len(feeds)], "dead">> \in missed'
           /\ missed' \subseteq Feeds \X {"notLast", "replaced", "dead"}
           /\ RequestsTyped'
<1> DEFINE f == feeds[Len(feeds)]
<1>1. f \in Feeds /\ Requested(feeds) = <<f>> /\ Requested(feeds)[1] = f
      /\ Skipped(feeds) = {<<g, "notLast">> : g \in Elements(feeds) \ {f}} /\ Elements(feeds) \subseteq Feeds
  BY RequestedIs
<1> HIDE DEF f
<1>2. /\ Asks(Msg(kind, "sub", handleId["sub"], <<f>>))
      /\ missed' = missed \cup {<<g, "notLast">> : g \in Elements(feeds) \ {f}}
                          \cup (IF handleId["sub"] \in mapped THEN {} ELSE {<<f, "dead">>})
  BY <1>1 DEF AskFor
<1>3. RequestsTyped'
  BY <1>1, <1>2, AskTyped
<1>4. missed' \subseteq Feeds \X {"notLast", "replaced", "dead"}
  BY <1>1, <1>2 DEF TypeOK
<1> QED
  BY <1>1, <1>2, <1>3, <1>4 DEF f

LEMMA SubscribedTo ==
    ASSUME TypeOK, UNCHANGED handles, NEW feeds \in Seq(Feeds), feeds # <<>>, SubscribeTo(feeds)
    PROVE  /\ RequestsTyped' /\ joinTask' \in Seq(Feeds)
           /\ missed' \subseteq Feeds \X {"notLast", "replaced", "dead"}
           /\ {ran', early', late'} \subseteq BOOLEAN
<1>1. {ran, early, late, attached, gone} \subseteq BOOLEAN
  BY DEF TypeOK
<1>2. CASE attached
  <2>1. AskFor("subscribe", feeds) /\ UNCHANGED <<joinTask, ran, early, late>>
    BY <1>2 DEF SubscribeTo, Reuses
  <2> QED
    BY <1>1, <2>1, AskedFor DEF TypeOK
<1>3. CASE ~attached
  <2>1. /\ Asks(Msg("attach", "sub", 0, <<>>))
        /\ joinTask' = feeds
        /\ ran' = FALSE
        /\ missed' \in {missed, missed \cup {<<f, "replaced">> : f \in Elements(joinTask)}}
        /\ early' = (early \/ (joinTask # <<>> /\ ~attached))
        /\ late' = (late \/ gone)
    BY <1>3 DEF SubscribeTo, Reuses
  <2>2. Elements(joinTask) \subseteq Feeds
    BY DEF TypeOK, Elements
  <2>3. missed' \subseteq Feeds \X {"notLast", "replaced", "dead"}
    BY <2>1, <2>2 DEF TypeOK
  <2>4. early' \in BOOLEAN /\ late' \in BOOLEAN
    BY <2>1
  <2> QED
    BY <2>1, <2>3, <2>4, AskTyped DEF Clients
<1> QED
  BY <1>2, <1>3

LEMMA PcAttachedType == ASSUME TypeOK, PcAttached PROVE TypeOK'
<1>1. PcTake("attached") /\ held' = held
      /\ UNCHANGED <<lefts, list, attached, joinTask, known, early, gone, dead, late>>
  BY DEF PcAttached, PcRuns
<1>2. UNCHANGED handles
  BY <1>1, HeadTaken
<1>3. CASE Head(tasks).who = "sub" /\ JoinDue
  <2>1. AskFor("subjoin", joinTask) /\ ran' = TRUE /\ joinTask # <<>>
    BY <1>3 DEF PcAttached, JoinDue, PcRuns
  <2> QED
    BY <1>1, <1>2, <2>1, AskedFor, TakenType DEF TypeOK
<1>4. CASE ~(Head(tasks).who = "sub" /\ JoinDue)
  <2>1. UNCHANGED <<toServer, missed, ran>>
    BY <1>4 DEF PcAttached, PcRuns
  <2> QED
    BY <1>1, <1>2, <2>1, RequestsKept, TakenType DEF TypeOK
<1> QED
  BY <1>3, <1>4

LEMMA OccurrencesNatural ==
    ASSUME NEW f, NEW s \in Seq(Feeds)
    PROVE  Occurrences(f, s) \in Nat
<1>1. IsFiniteSet(1..Len(s))
  BY FS_Interval
<1> QED
  BY <1>1, FS_Subset, FS_CardinalityType DEF Occurrences

LEMMA PcPublishersType == ASSUME TypeOK, PcPublishers PROVE TypeOK'
<1> DEFINE feeds == Head(tasks).feeds
<1>1. PcTake("publishers") /\ held' = 0 /\ UNCHANGED <<lefts, attached, gone, dead>>
  BY DEF PcPublishers, PcHears
<1>2. UNCHANGED handles /\ feeds \in Seq(Feeds)
  BY <1>1, HeadTaken, TaskTypes
<1>3. CASE feeds # <<>>
  <2>1. /\ known' = known \cup Elements(feeds)
        /\ list' = [f \in Feeds |-> list[f] + Occurrences(f, feeds)]
        /\ SubscribeTo(feeds)
    BY <1>3 DEF PcPublishers, PcHears
  <2> HIDE DEF feeds
  <2>2. list' \in [Feeds -> Nat]
    BY <1>2, <2>1, OccurrencesNatural DEF TypeOK
  <2>3. known' \subseteq Feeds
    BY <1>2, <2>1 DEF TypeOK, Elements
  <2>4. {attached', gone', dead'} \subseteq BOOLEAN /\ lefts' \in Nat /\ held' \in Nat
    BY <1>1 DEF TypeOK
  <2> QED
    BY <1>1, <1>2, <1>3, <2>1, <2>2, <2>3, <2>4, SubscribedTo, TakenType DEF feeds
<1>4. CASE feeds = <<>>
  <2>1. UNCHANGED <<known, list, toServer, joinTask, ran, missed, early, late>>
    BY <1>4 DEF PcPublishers, PcHears
  <2> QED
    BY <1>1, <1>2, <2>1, RequestsKept, TakenType DEF TypeOK
<1> QED
  BY <1>3, <1>4

LEMMA PcRemoveType ==
    ASSUME TypeOK, NEW kind \in {"unpublished", "leaving"}, PcRemove(kind)
    PROVE  TypeOK'
<1>1. PcTake(kind) /\ held' = 0
      /\ UNCHANGED <<toServer, lefts, attached, joinTask, known, missed, ran, early, gone, dead, late>>
      /\ list' \in {list, TakeOff(Head(tasks).feeds[1])}
  BY DEF PcRemove, PcHears
<1>2. list' \in [Feeds -> Nat]
  <2>1. PICK f \in Feeds : list' \in {list, TakeOff(f)}
    BY <1>1, HeadTaken, TaskTypes
  <2>2. list \in [Feeds -> Nat] /\ (list[f] > 0 => list[f] - 1 \in Nat)
    BY DEF TypeOK
  <2>3. TakeOff(f) \in [Feeds -> Nat]
    BY <2>2 DEF TakeOff
  <2> QED
    BY <2>1, <2>2, <2>3
<1> QED
  BY <1>1, <1>2, HeadTaken, RequestsKept, TakenType DEF TypeOK

LEMMA PcSubscribedType == ASSUME TypeOK, PcSubscribed PROVE TypeOK'
<1>1. PcTake("subscribed") /\ held' = 0 /\ attached' \in BOOLEAN
      /\ UNCHANGED <<toServer, lefts, list, joinTask, known, missed, ran, early, gone, dead, late>>
  BY DEF PcSubscribed, TypeOK, PcHears
<1>2. RequestsTyped'
  BY <1>1, HeadTaken, RequestsKept
<1>3. {attached', ran', early', gone', dead', late'} \subseteq BOOLEAN
  BY <1>1 DEF TypeOK
<1> QED
  BY <1>1, <1>2, <1>3, TakenType DEF TypeOK

LEMMA PcLeftType == ASSUME TypeOK, PcLeft PROVE TypeOK'
<1>1. PcTake("left") /\ held' = held /\ lefts' = lefts + 1
      /\ UNCHANGED <<toServer, list, attached, joinTask, known, missed, ran, early, gone, dead, late>>
  BY DEF PcLeft, PcRuns
<1>2. RequestsTyped'
  BY <1>1, HeadTaken, RequestsKept
<1>3. lefts' \in Nat
  BY <1>1 DEF TypeOK
<1> QED
  BY <1>1, <1>2, <1>3, TakenType DEF TypeOK

\* An event without a client is dropped, or its client is held.
PcDrops == PcFetch /\ Head(tasks).h \notin mapped

LEMMA PcDropsDo ==
    ASSUME PcDrops
    PROVE  /\ \E kind \in Events : PcTake(kind)
           /\ Head(tasks).h \notin mapped
           /\ UNCHANGED <<toServer, held, lefts, attached, joinTask, known, list, missed, ran, early, gone, dead, late>>
BY DEF PcDrops, PcFetch, PcTake, clientVars, historyVars

\* Nothing changes but what is held.
Still == UNCHANGED <<toServer, tasks, lefts, clientVars, list, serverVars, budget, historyVars>>

LEMMA PcFetchKeeps == ASSUME PcFetch, ~PcDrops PROVE Still /\ held' = Head(tasks).h /\ Head(tasks).h \in mapped
BY DEF PcFetch, PcDrops, Still

LEMMA PcFetchType == ASSUME TypeOK, PcFetch PROVE TypeOK'
<1>1. CASE PcDrops
  <2>1. PICK kind \in Events : PcTake(kind)
    BY <1>1, PcDropsDo
  <2>2. UNCHANGED <<toServer, held, lefts, attached, joinTask, known, list, missed, ran, early, gone, dead, late>>
    BY <1>1, PcDropsDo
  <2>3. RequestsTyped'
    BY <2>1, <2>2, HeadTaken, RequestsKept
  <2> QED
    BY <2>1, <2>2, <2>3, TakenType DEF TypeOK
<1>2. CASE ~PcDrops
  <2>1. /\ UNCHANGED <<toServer, tasks, lefts, handleId, mapped, attached, joinTask, known, list, handles>>
        /\ UNCHANGED <<live, room, subs, members, feed, budget, visits, missed, ran, early, gone, dead, late>>
    BY <1>2, PcFetchKeeps DEF Still, clientVars, serverVars, historyVars
  <2>2. held' \in Nat
    <3>1. mapped \subseteq Nat
      BY Handling
    <3> QED
      BY <3>1, <1>2, PcFetchKeeps
  <2>3. RequestsTyped' /\ TasksTyped' /\ RestTyped'
    BY <2>1, <2>2, Typing DEF RequestsTyped, TasksTyped, RestTyped, Handles
  <2> QED
    BY <2>3, TypingNext
<1> QED
  BY <1>1, <1>2

LEMMA MainType ==
    ASSUME TypeOK, Main, NEW kind \in Calls, tasks' = Append(tasks, Msg(kind, "pub", 0, <<>>)),
           lefts' \in Nat, budget' \in [calls : Nat, changes : Nat]
    PROVE  TypeOK'
<1>1. UNCHANGED <<toServer, held, handleId, mapped, attached, joinTask, known, list, handles, live, room, subs,
                  members, feed, visits, missed, ran, early, gone, dead, late>>
  BY DEF Main, clientVars, serverVars, historyVars
<1>2. TasksTyped'
  BY TaskMade, TaskPosted
<1>3. RestTyped'
  BY <1>1, Typing DEF RestTyped, Handles
<1> QED
  BY <1>1, <1>2, <1>3, RequestsKept, TypingNext

LEMMA UserCallType ==
    ASSUME TypeOK, NEW kind \in {"attach", "join", "leave"}, UserCall(kind)
    PROVE  TypeOK'
<1>1. kind \in Calls
  BY DEF Calls
<1>2. budget' \in [calls : Nat, changes : Nat] /\ lefts' \in Nat
  BY BudgetSpent DEF UserCall, TypeOK
<1> QED
  BY <1>1, <1>2, MainType DEF UserCall

LEMMA MainLeftType == ASSUME TypeOK, MainLeft PROVE TypeOK'
<1>1. "detach" \in Calls /\ lefts' \in Nat /\ budget' \in [calls : Nat, changes : Nat]
  BY DEF Calls, MainLeft, TypeOK
<1> QED
  BY <1>1, MainType DEF MainLeft

LEMMA InitiallyTyped == ASSUME Init PROVE TypeOK
<1>1. toServer = <<>> /\ tasks = <<>> /\ joinTask = <<>> /\ handles = <<>> /\ subs = <<>>
      /\ held = 0 /\ lefts = 0 /\ visits = 0 /\ mapped = {} /\ known = {} /\ live = {} /\ members = {} /\ room = {}
      /\ missed = {}
      /\ handleId = [c \in Clients |-> 0] /\ list = [f \in Feeds |-> 0]
      /\ budget = [calls |-> 0, changes |-> 0] /\ feed \in [Feeds -> {"away", "publishing"}]
      /\ {attached, ran, early, gone, dead, late} \subseteq BOOLEAN
  BY DEF Init
<1>2. RequestsTyped /\ TasksTyped
  BY <1>1 DEF RequestsTyped, TasksTyped
<1>3. subs \in [Handles -> SUBSET Feeds]
  <2>1. Handles = {}
    BY <1>1 DEF Handles
  <2>2. DOMAIN subs = {} /\ subs = [h \in {} |-> {}]
    BY <1>1
  <2> QED
    BY <2>1, <2>2
<1>4. RestTyped
  BY <1>1, <1>3 DEF RestTyped
<1> QED
  BY <1>2, <1>4, Typing

LEMMA StepTyped == ASSUME TypeOK, [Next]_vars PROVE TypeOK'
<1>1. CASE Server
  BY <1>1, PublishType, UnpublishType, LeaveType, ServeAttachType, ServeJoinType, ServeLeaveType,
     ServeDetachType, ServeSubscribeType DEF Server
<1>2. CASE PcStep
  BY <1>2, PcAttachType, PcCallType, PcDetachType, PcAttachedType, PcPublishersType, PcSubscribedType,
     PcLeftType, PcRemoveType, PcFetchType DEF PcStep
<1>3. CASE MainLeft \/ User
  BY <1>3, MainLeftType, UserCallType DEF User
<1>4. CASE UNCHANGED vars
  <2>1. UNCHANGED <<toServer, tasks, held, lefts, handleId, mapped, attached, joinTask, known, list, handles,
                    live, room, subs, members, feed, budget, visits, missed, ran, early, gone, dead, late>>
    BY <1>4 DEF vars, clientVars, serverVars, historyVars
  <2> QED
    BY <2>1 DEF TypeOK, Handles
<1> QED
  BY <1>1, <1>2, <1>3, <1>4 DEF Next

\* Every variable keeps its type, and a request names a handle that was given.
THEOREM VideoRoomTypes == Spec => []TypeOK
<1>1. Init => TypeOK
  BY InitiallyTyped
<1>2. TypeOK /\ [Next]_vars => TypeOK'
  BY StepTyped
<1> QED
  BY <1>1, <1>2, PTL DEF Spec

-----------------------------------------------------------------------------
(* What a step does to the queues: the members of each, and which come     *)
(* once.                                                                   *)

\* A queue holds at most one member of K.
Single(s, K) == \A i, j \in 1..Len(s) : s[i] \in K /\ s[j] \in K => i = j

LEMMA ElementsOf ==
    ASSUME NEW S, NEW s \in Seq(S)
    PROVE  /\ Elements(s) \subseteq S
           /\ s = <<>> => Elements(s) = {}
           /\ \A i \in 1..Len(s) : s[i] \in Elements(s)
           /\ \A m \in Elements(s) : \E i \in 1..Len(s) : s[i] = m
BY DEF Elements

LEMMA ElementsAppend ==
    ASSUME NEW S, NEW s \in Seq(S), NEW e \in S
    PROVE  Elements(Append(s, e)) = Elements(s) \cup {e}
<1> DEFINE t == Append(s, e)
<1>1. /\ Len(s) \in Nat /\ Len(t) = Len(s) + 1
      /\ \A i \in 1..Len(s) : t[i] = s[i]
      /\ t[Len(s) + 1] = e
  BY AppendAt
<1> HIDE DEF t
<1>2. 1..Len(t) = (1..Len(s)) \cup {Len(s) + 1}
  BY <1>1
<1> QED
  BY <1>1, <1>2 DEF Elements, t

LEMMA ElementsConcat ==
    ASSUME NEW S, NEW s \in Seq(S), NEW t \in Seq(S)
    PROVE  Elements(s \o t) = Elements(s) \cup Elements(t)
<1> DEFINE u == s \o t
<1>1. /\ Len(s) \in Nat /\ Len(t) \in Nat /\ Len(u) = Len(s) + Len(t)
      /\ \A i \in 1..Len(s) : u[i] = s[i]
      /\ \A i \in 1..Len(t) : u[Len(s) + i] = t[i]
  BY ConcatAt
<1> HIDE DEF u
<1>2. \A i \in 1..Len(u) : i \in 1..Len(s) \/ (i - Len(s) \in 1..Len(t) /\ i = Len(s) + (i - Len(s)))
  BY <1>1
<1>3. Elements(u) \subseteq Elements(s) \cup Elements(t)
  <2> SUFFICES ASSUME NEW i \in 1..Len(u)
               PROVE  u[i] \in Elements(s) \cup Elements(t)
    BY DEF Elements
  <2>1. CASE i \in 1..Len(s)
    BY <1>1, <2>1 DEF Elements
  <2>2. CASE i - Len(s) \in 1..Len(t) /\ i = Len(s) + (i - Len(s))
    <3>1. u[i] = t[i - Len(s)]
      BY <1>1, <2>2
    <3> QED
      BY <2>2, <3>1 DEF Elements
  <2> QED
    BY <1>2, <2>1, <2>2
<1>4. \A i \in 1..Len(s) : i \in 1..Len(u)
  BY <1>1
<1>5. \A i \in 1..Len(t) : Len(s) + i \in 1..Len(u)
  BY <1>1
<1>6. Elements(s) \cup Elements(t) \subseteq Elements(u)
  BY <1>1, <1>4, <1>5 DEF Elements
<1> QED
  BY <1>3, <1>6 DEF u

LEMMA ElementsTail ==
    ASSUME NEW S, NEW s \in Seq(S), s # <<>>
    PROVE  Elements(s) = {Head(s)} \cup Elements(Tail(s)) /\ Head(s) \in Elements(s)
<1> DEFINE t == Tail(s)
<1>1. /\ Len(s) \in Nat \ {0} /\ Len(t) = Len(s) - 1
      /\ \A i \in 1..(Len(s) - 1) : t[i] = s[i + 1]
      /\ Head(s) = s[1]
  BY TailAt
<1> HIDE DEF t
<1>2. \A i \in 1..Len(t) : i + 1 \in 1..Len(s) /\ t[i] = s[i + 1]
  BY <1>1
<1>3. \A i \in 1..Len(s) : i = 1 \/ (i - 1 \in 1..Len(t) /\ s[i] = t[i - 1])
  BY <1>1
<1>4. Head(s) \in Elements(s)
  <2>1. 1 \in 1..Len(s)
    BY <1>1
  <2> QED
    BY <1>1, <2>1 DEF Elements
<1>5. \A i \in 1..Len(t) : t[i] \in Elements(s)
  BY <1>2 DEF Elements
<1>6. \A i \in 1..Len(s) : s[i] = Head(s) \/ s[i] \in Elements(t)
  BY <1>1, <1>3 DEF Elements
<1>7. Elements(t) \subseteq Elements(s)
  BY <1>5 DEF Elements
<1>8. Elements(s) \subseteq {Head(s)} \cup Elements(t)
  BY <1>6 DEF Elements
<1> QED
  BY <1>4, <1>7, <1>8 DEF t

LEMMA SingleTail ==
    ASSUME NEW S, NEW s \in Seq(S), s # <<>>, NEW K, Single(s, K)
    PROVE  Single(Tail(s), K) /\ (Head(s) \in K => Elements(Tail(s)) \cap K = {})
<1> DEFINE t == Tail(s)
<1>1. /\ Len(s) \in Nat \ {0} /\ Len(t) = Len(s) - 1
      /\ \A i \in 1..(Len(s) - 1) : t[i] = s[i + 1]
      /\ Head(s) = s[1]
  BY TailAt
<1> HIDE DEF t
<1>2. \A i \in 1..Len(t) : i \in Nat /\ i + 1 \in 1..Len(s) /\ i + 1 # 1 /\ t[i] = s[i + 1]
  BY <1>1
<1>3. 1 \in 1..Len(s)
  BY <1>1
<1>4. Single(t, K)
  <2> SUFFICES ASSUME NEW i \in 1..Len(t), NEW j \in 1..Len(t), t[i] \in K, t[j] \in K
               PROVE  i = j
    BY DEF Single
  <2>1. i + 1 = j + 1
    BY <1>2 DEF Single
  <2> QED
    BY <1>2, <2>1
<1>5. \A i \in 1..Len(t) : Head(s) \in K => t[i] \notin K
  BY <1>1, <1>2, <1>3 DEF Single
<1> QED
  BY <1>4, <1>5 DEF Elements, t

LEMMA SingleAppend ==
    ASSUME NEW S, NEW s \in Seq(S), NEW e \in S, NEW K, Single(s, K),
           e \notin K \/ Elements(s) \cap K = {}
    PROVE  Single(Append(s, e), K)
<1> DEFINE t == Append(s, e)
<1>1. /\ Len(s) \in Nat /\ Len(t) = Len(s) + 1
      /\ \A i \in 1..Len(s) : t[i] = s[i]
      /\ t[Len(s) + 1] = e
  BY AppendAt
<1> HIDE DEF t
<1>2. \A i \in 1..Len(t) : i = Len(s) + 1 \/ (i \in 1..Len(s) /\ s[i] \in Elements(s))
  BY <1>1 DEF Elements
<1> SUFFICES ASSUME NEW i \in 1..Len(t), NEW j \in 1..Len(t), t[i] \in K, t[j] \in K
             PROVE  i = j
  BY DEF Single, t
<1> QED
  BY <1>1, <1>2 DEF Single

LEMMA SingleSame ==
    ASSUME NEW s, NEW K, Elements(s) \cap K = {}
    PROVE  Single(s, K)
BY DEF Single, Elements

LEMMA SentIs ==
    ASSUME NEW q \in Seq(Requests), NEW m \in Requests
    PROVE  q \o Sent(m) = IF m.kind = "attach" \/ m.h \in mapped THEN Append(q, m) ELSE q
BY DEF Sent

LEMMA SentElements ==
    ASSUME NEW q \in Seq(Requests), NEW m \in Requests
    PROVE  /\ q \o Sent(m) \in Seq(Requests)
           /\ m.kind = "attach" \/ m.h \in mapped => Elements(q \o Sent(m)) = Elements(q) \cup {m}
           /\ ~(m.kind = "attach" \/ m.h \in mapped) => Elements(q \o Sent(m)) = Elements(q)
           /\ \A K : Single(q, K) /\ (m \notin K \/ Elements(q) \cap K = {}) => Single(q \o Sent(m), K)
<1>1. CASE m.kind = "attach" \/ m.h \in mapped
  <2>1. q \o Sent(m) = Append(q, m)
    BY <1>1, SentIs
  <2> QED
    BY <1>1, <2>1, AppendAt, ElementsAppend, SingleAppend
<1>2. CASE ~(m.kind = "attach" \/ m.h \in mapped)
  <2>1. q \o Sent(m) = q
    BY <1>2, SentIs
  <2> QED
    BY <1>2, <2>1
<1> QED
  BY <1>1, <1>2

\* The requests and the tasks of which there is one at most.
SubAsks == {m \in Requests : m.kind = "attach" /\ m.who = "sub"}
SubJoins == {m \in Requests : m.kind = "subjoin"}
SubAttached == {m \in Tasks : m.kind = "attached" /\ m.who = "sub"}

Waiting == Elements(toServer)
Coming == Elements(tasks)

LEMMA QueuesTyped ==
    ASSUME TypeOK
    PROVE  toServer \in Seq(Requests) /\ tasks \in Seq(Tasks) /\ Waiting \subseteq Requests /\ Coming \subseteq Tasks
BY ElementsOf DEF TypeOK, Tasks, Waiting, Coming

LEMMA AttachingIs == ASSUME TypeOK PROVE Attaching <=> Waiting \cap SubAsks # {}
<1>1. toServer \in Seq(Requests)
  BY QueuesTyped
<1>2. \A i \in 1..Len(toServer) : toServer[i] \in Requests
  BY <1>1
<1> QED
  BY <1>2 DEF Attaching, Waiting, Elements, SubAsks

LEMMA ServedShape ==
    ASSUME TypeOK, NEW kind, Serve(kind)
    PROVE  /\ Head(toServer) \in Requests /\ Head(toServer).kind = kind
           /\ Waiting = {Head(toServer)} \cup Waiting'
           /\ Single(toServer, SubAsks) => Single(toServer', SubAsks)
           /\ Single(toServer, SubJoins) => Single(toServer', SubJoins)
           /\ Single(toServer, SubAsks) /\ Head(toServer) \in SubAsks => Waiting' \cap SubAsks = {}
           /\ Single(toServer, SubJoins) /\ Head(toServer) \in SubJoins => Waiting' \cap SubJoins = {}
<1>1. toServer \in Seq(Requests) /\ toServer # <<>> /\ toServer' = Tail(toServer)
      /\ Head(toServer) \in Requests /\ Head(toServer).kind = kind
  BY HeadServed, QueuesTyped
<1>2. \A K : Single(toServer, K) => Single(toServer', K) /\ (Head(toServer) \in K => Elements(toServer') \cap K = {})
  BY <1>1, SingleTail
<1> QED
  BY <1>1, <1>2, ElementsTail DEF Waiting

LEMMA TakenShape ==
    ASSUME TypeOK, NEW kind, PcTake(kind)
    PROVE  /\ Head(tasks) \in Tasks /\ Head(tasks).kind = kind
           /\ Coming = {Head(tasks)} \cup Coming'
           /\ Single(tasks, SubAttached) => Single(tasks', SubAttached)
           /\ Single(tasks, SubAttached) /\ Head(tasks) \in SubAttached => Coming' \cap SubAttached = {}
<1>1. tasks \in Seq(Tasks) /\ tasks # <<>> /\ tasks' = Tail(tasks)
      /\ Head(tasks) \in Tasks /\ Head(tasks).kind = kind
  BY HeadTaken, QueuesTyped
<1>2. \A K : Single(tasks, K) => Single(tasks', K) /\ (Head(tasks) \in K => Elements(tasks') \cap K = {})
  BY <1>1, SingleTail
<1> QED
  BY <1>1, <1>2, ElementsTail DEF Coming

LEMMA AskedShape ==
    ASSUME TypeOK, NEW m \in Requests, Asks(m)
    PROVE  /\ m.kind = "attach" \/ m.h \in mapped => Waiting' = Waiting \cup {m}
           /\ ~(m.kind = "attach" \/ m.h \in mapped) => Waiting' = Waiting
           /\ Single(toServer, SubAsks) /\ (m \notin SubAsks \/ Waiting \cap SubAsks = {})
                 => Single(toServer', SubAsks)
           /\ Single(toServer, SubJoins) /\ (m \notin SubJoins \/ Waiting \cap SubJoins = {})
                 => Single(toServer', SubJoins)
BY QueuesTyped, SentElements DEF Asks, Waiting

LEMMA PostedShape ==
    ASSUME TypeOK, NEW m \in Tasks, tasks' = Append(tasks, m)
    PROVE  /\ Coming' = Coming \cup {m}
           /\ Single(tasks, SubAttached) /\ (m \notin SubAttached \/ Coming \cap SubAttached = {})
                 => Single(tasks', SubAttached)
<1>1. tasks \in Seq(Tasks)
  BY QueuesTyped
<1>2. \A K : Single(tasks, K) /\ (m \notin K \/ Elements(tasks) \cap K = {}) => Single(Append(tasks, m), K)
  BY <1>1, SingleAppend
<1> QED
  BY <1>1, <1>2, ElementsAppend DEF Coming

LEMMA SingleConcat ==
    ASSUME NEW S, NEW s \in Seq(S), NEW t \in Seq(S), NEW K, Single(s, K), Elements(t) \cap K = {}
    PROVE  Single(s \o t, K)
<1> DEFINE u == s \o t
<1>1. /\ Len(s) \in Nat /\ Len(t) \in Nat /\ Len(u) = Len(s) + Len(t)
      /\ \A i \in 1..Len(s) : u[i] = s[i]
      /\ \A i \in 1..Len(t) : u[Len(s) + i] = t[i]
  BY ConcatAt
<1> HIDE DEF u
<1>2. \A i \in 1..Len(u) : i \in 1..Len(s) \/ (i - Len(s) \in 1..Len(t) /\ i = Len(s) + (i - Len(s)))
  BY <1>1
<1>3. \A i \in 1..Len(t) : t[i] \notin K
  BY DEF Elements
<1>4. \A i \in 1..Len(u) : u[i] \in K => i \in 1..Len(s) /\ s[i] \in K
  <2> TAKE i \in 1..Len(u)
  <2>1. CASE i \in 1..Len(s)
    BY <1>1, <2>1
  <2>2. CASE i - Len(s) \in 1..Len(t) /\ i = Len(s) + (i - Len(s))
    <3>1. u[i] = t[i - Len(s)]
      BY <1>1, <2>2
    <3> QED
      BY <1>3, <2>2, <3>1
  <2> QED
    BY <1>2, <2>1, <2>2
<1> QED
  BY <1>4 DEF Single, u

-----------------------------------------------------------------------------
(* What each action does, in these terms.                                  *)

ServerKept == UNCHANGED <<handleId, mapped, handles, live, room, subs, members, feed>>
CallsKept == UNCHANGED <<attached, joinTask, ran, early, gone, dead, late, missed>>
TasksKept == Single(tasks, SubAttached) => Single(tasks', SubAttached)
AsksKept ==
    /\ Single(toServer, SubAsks) => Single(toServer', SubAsks)
    /\ Single(toServer, SubJoins) => Single(toServer', SubJoins)

LEMMA RoomToldDoes ==
    ASSUME TypeOK, NEW kind \in {"publishers", "unpublished", "leaving"}, NEW f \in Feeds,
           TellRoom(kind, f)
    PROVE  /\ Coming' = Coming \cup {Msg(kind, "pub", h, <<f>>) : h \in room \cap mapped}
           /\ TasksKept
<1>1. PICK told \in Seq(Tasks) :
          /\ tasks' = tasks \o told
          /\ \A i \in 1..Len(told) : \E h \in room \cap mapped : told[i] = Msg(kind, "pub", h, <<f>>)
          /\ \A h \in room \cap mapped : \E i \in 1..Len(told) : told[i] = Msg(kind, "pub", h, <<f>>)
          /\ \A i, j \in 1..Len(told) : told[i].h = told[j].h => i = j
  BY RoomTold
<1>2. Elements(told) = {Msg(kind, "pub", h, <<f>>) : h \in room \cap mapped}
  <2>1. \A i \in 1..Len(told) : \E h \in room \cap mapped : told[i] = Msg(kind, "pub", h, <<f>>)
    BY <1>1
  <2>2. \A h \in room \cap mapped : \E i \in 1..Len(told) : told[i] = Msg(kind, "pub", h, <<f>>)
    BY <1>1
  <2> QED
    BY <2>1, <2>2 DEF Elements
<1>3. \A h : Msg(kind, "pub", h, <<f>>) \notin SubAttached
  BY DEF SubAttached, Msg
<1>4. Elements(told) \cap SubAttached = {}
  BY <1>2, <1>3
<1>5. tasks \in Seq(Tasks)
  BY QueuesTyped
<1>6. Elements(tasks') = Elements(tasks) \cup Elements(told)
  BY <1>1, <1>5, ElementsConcat
<1>7. Single(tasks, SubAttached) => Single(tasks', SubAttached)
  BY <1>1, <1>4, <1>5, SingleConcat
<1> QED
  BY <1>2, <1>6, <1>7 DEF Coming, TasksKept

\* The changes of a feed.
ChangeDoes ==
    /\ UNCHANGED <<toServer, handleId, mapped, handles, live, room, members>>
    /\ UNCHANGED <<attached, joinTask, ran, early, gone, dead, late>>
    /\ TasksKept
    /\ Coming \subseteq Coming'
    /\ \A m \in Coming' : m \in Coming \/ m.kind \in {"publishers", "unpublished", "leaving"}
    /\ \A h \in Handles : subs'[h] \subseteq subs[h]

LEMMA ChangesDo ==
    ASSUME TypeOK, NEW f \in Feeds, Publish(f) \/ Unpublish(f) \/ Leave(f)
    PROVE  ChangeDoes
<1>1. PICK kind \in {"publishers", "unpublished", "leaving"} :
          /\ TellRoom(kind, f)
          /\ UNCHANGED <<toServer, handleId, mapped, handles, live, room, members>>
          /\ UNCHANGED <<attached, joinTask, ran, early, gone, dead, late>>
          /\ \A h \in Handles : subs'[h] \subseteq subs[h]
  BY DEF Publish, Unpublish, Leave, Changes, clientVars, TypeOK
<1>2. \A h : Msg(kind, "pub", h, <<f>>).kind = kind
  BY DEF Msg
<1> QED
  BY <1>1, <1>2, RoomToldDoes DEF ChangeDoes

\* A request for a handle is granted.
LEMMA ServeAttachDoes ==
    ASSUME TypeOK, ServeAttach
    PROVE  \E m \in Requests, h \in Nat :
              /\ m.kind = "attach" /\ m.who \in Clients /\ h = Len(handles) + 1
              /\ h \notin Handles /\ h \notin mapped /\ h # 0
              /\ Waiting = {m} \cup Waiting'
              /\ AsksKept
              /\ Single(toServer, SubAsks) /\ m \in SubAsks => Waiting' \cap SubAsks = {}
              /\ Handles' = Handles \cup {h}
              /\ \A g \in Handles : handles'[g] = handles[g] /\ subs'[g] = subs[g]
              /\ handles'[h] = m.who /\ subs'[h] = {}
              /\ live' = live \cup {h} /\ mapped' = mapped \cup {h}
              /\ handleId' = [handleId EXCEPT ![m.who] = h]
              /\ Coming' = Coming \cup {Msg("attached", m.who, h, <<>>)}
              /\ m.who = "pub" => TasksKept
              /\ Single(tasks, SubAttached) /\ Coming \cap SubAttached = {} => Single(tasks', SubAttached)
              /\ UNCHANGED <<room, members, missed, attached, joinTask, feed, ran, early, gone, dead, late>>
<1> DEFINE m == Head(toServer)
           h == Len(handles) + 1
           a == Msg("attached", m.who, h, <<>>)
<1>1. Serve("attach")
  BY DEF ServeAttach
<1>2. /\ handles' = Append(handles, m.who)
      /\ live' = live \cup {h} /\ mapped' = mapped \cup {h}
      /\ subs' = Append(subs, {})
      /\ handleId' = [handleId EXCEPT ![m.who] = h]
      /\ tasks' = Append(tasks, a)
      /\ UNCHANGED <<room, members, missed, attached, joinTask, feed, ran, early, gone, dead, late>>
  BY DEF ServeAttach, Serve, Posts
<1>3. m \in Requests /\ m.kind = "attach" /\ m.who \in Clients
  BY <1>1, HeadServed
<1>4. /\ Waiting = {m} \cup Waiting'
      /\ AsksKept
      /\ Single(toServer, SubAsks) /\ m \in SubAsks => Waiting' \cap SubAsks = {}
  BY <1>1, ServedShape DEF AsksKept
<1> HIDE DEF m
<1>5. /\ Len(handles) \in Nat /\ Len(handles') = h
      /\ \A g \in 1..Len(handles) : handles'[g] = handles[g]
      /\ handles'[h] = m.who
  BY <1>2, <1>3, AppendAt DEF TypeOK
<1>6. Handles' = Handles \cup {h} /\ h \notin Handles /\ h # 0 /\ h \in Nat \ {0}
  BY <1>5 DEF Handles
<1>7. (\A g \in Handles : subs'[g] = subs[g]) /\ subs'[h] = {}
  <2>1. subs \in [1..Len(handles) -> SUBSET Feeds] /\ {} \in SUBSET Feeds
    BY DEF TypeOK, Handles
  <2>2. (\A g \in 1..Len(handles) : Append(subs, {})[g] = subs[g]) /\ Append(subs, {})[Len(handles) + 1] = {}
    BY <1>5, <2>1, FunctionGrown
  <2> QED
    BY <1>2, <2>2 DEF Handles
<1>8. a \in Tasks /\ (m.who = "pub" => a \notin SubAttached)
  BY <1>3, <1>6, TaskMade DEF SubAttached, Msg
<1>9. /\ Coming' = Coming \cup {a}
      /\ m.who = "pub" => TasksKept
      /\ Single(tasks, SubAttached) /\ Coming \cap SubAttached = {} => Single(tasks', SubAttached)
  BY <1>2, <1>8, PostedShape DEF TasksKept
<1>10. h \notin mapped
  BY <1>6 DEF TypeOK
<1>11. \A g \in Handles : handles'[g] = handles[g]
  BY <1>5 DEF Handles
<1> HIDE DEF h
<1> QED
  BY <1>2, <1>3, <1>4, <1>5, <1>6, <1>7, <1>9, <1>10, <1>11 DEF h

\* What is common to the requests on a handle.
LEMMA ServedDoes ==
    ASSUME TypeOK, NEW kind, Serve(kind)
    PROVE  /\ Head(toServer) \in Requests /\ Head(toServer).kind = kind /\ Head(toServer).h \in Nat
           /\ Waiting = {Head(toServer)} \cup Waiting'
           /\ AsksKept
           /\ Single(toServer, SubJoins) /\ Head(toServer) \in SubJoins => Waiting' \cap SubJoins = {}
           /\ UNCHANGED <<attached, joinTask, feed, ran, early, gone, dead, late>>
<1>1. UNCHANGED <<attached, joinTask, feed, ran, early, gone, dead, late>>
  BY DEF Serve
<1> QED
  BY <1>1, ServedShape, RequestTypes DEF AsksKept

LEMMA ServeJoinDoes ==
    ASSUME TypeOK, ServeJoin
    PROVE  \E m \in Requests :
              /\ m.kind = "join" /\ m.h \in Nat
              /\ m = Head(toServer)
              /\ Waiting = {m} \cup Waiting'
              /\ AsksKept /\ TasksKept
              /\ UNCHANGED <<handleId, mapped, handles, live, subs, members, missed>>
              /\ UNCHANGED <<attached, joinTask, feed, ran, early, gone, dead, late>>
              /\ Coming \subseteq Coming'
              /\ \A t \in Coming' : t \in Coming \/ t.kind = "publishers"
              /\ \/ room' = room
                 \/ /\ m.h \in live /\ m.h \notin room /\ room' = room \cup {m.h}
                    /\ m.h \in mapped => \E t \in Coming' :
                          t.kind = "publishers" /\ t.h = m.h /\ Publishing \subseteq Elements(t.feeds)
<1> DEFINE m == Head(toServer)
           h == m.h
<1>1. Serve("join") /\ UNCHANGED <<handleId, mapped, handles, live, subs, members, missed>>
  BY DEF ServeJoin
<1>2. CASE h \in live \ room
  <2>1. PICK order \in Orders(Publishing) : Tells("publishers", "pub", h, order)
    BY <1>2 DEF ServeJoin
  <2>2. order \in Seq(Feeds) /\ Elements(order) = Publishing
    <3>1. order \in Seq(Publishing) /\ Elements(order) = Publishing
      BY <2>1, PublishingFinite, OrderOf DEF Orders
    <3>2. Publishing \subseteq Feeds
      BY DEF Publishing
    <3> QED
      BY <3>1, <3>2
  <2> DEFINE t == Msg("publishers", "pub", h, order)
  <2>3. t \in Tasks /\ t \notin SubAttached /\ t.kind = "publishers" /\ t.h = h /\ Elements(t.feeds) = Publishing
    <3>1. h \in Nat
      BY <1>1, ServedDoes
    <3>2. t \in Tasks
      BY <2>2, <3>1, TaskMade
    <3> QED
      BY <2>2, <3>2 DEF SubAttached, Msg
  <2>4. tasks' = tasks \/ tasks' = Append(tasks, t)
    BY <2>1 DEF Tells, Posts
  <2>5. h \in mapped => tasks' = Append(tasks, t)
    BY <2>1 DEF Tells, Posts
  <2> HIDE DEF t
  <2>6. TasksKept /\ (Coming' = Coming \/ Coming' = Coming \cup {t}) /\ (h \in mapped => t \in Coming')
    BY <2>3, <2>4, <2>5, PostedShape DEF TasksKept, Coming
  <2>7. room' = room \cup {h}
    BY <1>2 DEF ServeJoin
  <2> QED
    BY <1>1, <1>2, <2>3, <2>6, <2>7, ServedDoes
<1>3. CASE h \notin live \ room
  <2>1. UNCHANGED <<room, tasks>>
    BY <1>3 DEF ServeJoin
  <2>2. TasksKept /\ Coming' = Coming
    BY <2>1 DEF TasksKept, Coming
  <2> QED
    BY <1>1, <2>1, <2>2, ServedDoes
<1> QED
  BY <1>2, <1>3

LEMMA ServeLeaveDoes ==
    ASSUME TypeOK, ServeLeave
    PROVE  \E m \in Requests :
              /\ m.kind = "leave"
              /\ m = Head(toServer)
              /\ Waiting = {m} \cup Waiting'
              /\ AsksKept /\ TasksKept
              /\ UNCHANGED <<handleId, mapped, handles, live, subs, members, missed>>
              /\ UNCHANGED <<attached, joinTask, feed, ran, early, gone, dead, late>>
              /\ Coming \subseteq Coming'
              /\ \A t \in Coming' : t \in Coming \/ t.kind = "left"
              /\ room' \subseteq room
<1> DEFINE m == Head(toServer)
           t == Msg("left", "pub", m.h, <<>>)
<1>1. /\ Serve("leave") /\ UNCHANGED <<handleId, mapped, handles, live, subs, members, missed>>
      /\ room' \subseteq room /\ tasks' = Append(tasks, t)
  BY DEF ServeLeave, Posts
<1>2. t \in Tasks /\ t \notin SubAttached /\ t.kind = "left"
  <2>1. m.h \in Nat
    BY <1>1, ServedDoes
  <2>2. t \in Tasks
    BY <2>1, TaskMade
  <2> QED
    BY <2>2 DEF SubAttached, Msg
<1> HIDE DEF t
<1>3. TasksKept /\ Coming' = Coming \cup {t}
  BY <1>1, <1>2, PostedShape DEF TasksKept
<1> QED
  BY <1>1, <1>2, <1>3, ServedDoes

LEMMA ServeDetachDoes ==
    ASSUME TypeOK, ServeDetach
    PROVE  \E m \in Requests :
              /\ m.kind = "detach"
              /\ m = Head(toServer)
              /\ Waiting = {m} \cup Waiting'
              /\ AsksKept /\ TasksKept /\ Coming' = Coming
              /\ UNCHANGED <<tasks, handleId, handles, missed>>
              /\ UNCHANGED <<attached, joinTask, feed, ran, early, gone, dead, late>>
              /\ live' = live \ {m.h} /\ mapped' = mapped \ {m.h}
              /\ room' = room \ {m.h} /\ members' = members \ {m.h}
              /\ \A h \in Handles : subs'[h] = IF h = m.h THEN {} ELSE subs[h]
<1> DEFINE m == Head(toServer)
<1>1. /\ Serve("detach")
      /\ UNCHANGED <<tasks, handleId, handles, missed>>
      /\ live' = live \ {m.h} /\ mapped' = mapped \ {m.h}
      /\ room' = room \ {m.h} /\ members' = members \ {m.h}
      /\ subs' = [subs EXCEPT ![m.h] = {}]
  BY DEF ServeDetach
<1>2. \A h \in Handles : subs'[h] = IF h = m.h THEN {} ELSE subs[h]
  BY <1>1 DEF TypeOK
<1>3. TasksKept /\ Coming' = Coming
  BY <1>1 DEF TasksKept, Coming
<1> QED
  BY <1>1, <1>2, <1>3, ServedDoes

\* A subscription to f is made, or it is refused.
SubscribeServed(kind, m, f) ==
    /\ m.kind = kind /\ m.who = "sub" /\ m.feeds = <<f>> /\ m.h \in Nat
    /\ m = Head(toServer)
    /\ Waiting = {m} \cup Waiting'
    /\ AsksKept /\ TasksKept
    /\ Single(toServer, SubJoins) /\ m \in SubJoins => Waiting' \cap SubJoins = {}
    /\ UNCHANGED <<handleId, mapped, handles, live, room>>
    /\ UNCHANGED <<attached, joinTask, feed, ran, early, gone, dead, late>>
    /\ Coming \subseteq Coming'
    /\ \A t \in Coming' : t \in Coming \/ (kind = "subjoin" /\ members' = members \cup {m.h} /\ t.kind = "subscribed")
    /\ missed \subseteq missed'
    /\ \/ /\ (m.h \notin live \/ (kind = "subjoin" <=> m.h \in members))
          /\ UNCHANGED <<subs, members>> /\ <<f, "dead">> \in missed'
       \/ m.h \in live /\ f \notin Publishing /\ UNCHANGED <<subs, members>>
       \/ /\ m.h \in live /\ f \in Publishing
          /\ members' = members \cup {m.h}
          /\ \A h \in Handles : subs'[h] = IF h = m.h THEN subs[h] \cup {f} ELSE subs[h]

LEMMA ServeSubscribeDoes ==
    ASSUME TypeOK, NEW kind \in {"subjoin", "subscribe"}, ServeSubscribe(kind)
    PROVE  \E m \in Requests, f \in Feeds : SubscribeServed(kind, m, f)
<1> DEFINE m == Head(toServer)
           h == m.h
           f == m.feeds[1]
           t == Msg("subscribed", "sub", h, <<>>)
<1>1. Serve(kind) /\ UNCHANGED <<handleId, mapped, handles, live, room>>
  BY DEF ServeSubscribe
<1>2. m \in Requests /\ f \in Feeds /\ m.feeds = <<f>> /\ m.who = "sub" /\ h \in Nat /\ m.kind = kind
  BY <1>1, ServedDoes, RequestTypes
<1>3. t \in Tasks /\ t \notin SubAttached /\ t.kind = "subscribed"
  <2>1. t \in Tasks
    BY <1>2, TaskMade
  <2> QED
    BY <2>1 DEF SubAttached, Msg
<1>4. \/ /\ h \notin live \/ (kind = "subjoin" <=> h \in members)
         /\ missed' = missed \cup {<<f, "dead">>} /\ UNCHANGED <<subs, members, tasks>>
      \/ h \in live /\ feed[f] # "publishing" /\ UNCHANGED <<missed, subs, members, tasks>>
      \/ /\ h \in live /\ feed[f] = "publishing" /\ UNCHANGED missed
         /\ subs' = [subs EXCEPT ![h] = @ \cup {f}]
         /\ members' = members \cup {h}
         /\ tasks' = tasks \/ (kind = "subjoin" /\ tasks' = Append(tasks, t))
  BY DEF ServeSubscribe, Tells, Posts
<1>5. tasks' = tasks => Coming' = Coming /\ TasksKept
  BY DEF Coming, TasksKept
<1> HIDE DEF t
<1>6. tasks' = Append(tasks, t) => Coming' = Coming \cup {t} /\ TasksKept
  BY <1>3, PostedShape DEF TasksKept
<1>7. subs' = [subs EXCEPT ![h] = @ \cup {f}]
          => \A g \in Handles : subs'[g] = IF g = h THEN subs[g] \cup {f} ELSE subs[g]
  BY DEF TypeOK
<1>8. f \in Publishing <=> feed[f] = "publishing"
  BY <1>2 DEF Publishing
<1> HIDE DEF f
<1>9. SubscribeServed(kind, m, f)
  BY <1>1, <1>2, <1>3, <1>4, <1>5, <1>6, <1>7, <1>8, ServedDoes DEF SubscribeServed
<1> HIDE DEF m
<1> QED
  BY <1>2, <1>9

\* A request that goes out names the handle its client has.
Fresh(m) ==
    \/ m.kind = "attach"
    \/ m.who \in Clients /\ m.h = handleId[m.who] /\ m.h \in mapped

\* What is common to the steps of plugin-client.
TakesTask(t) ==
    /\ ServerKept
    /\ t = Head(tasks) /\ t \in Tasks
    /\ Coming = {t} \cup Coming'
    /\ TasksKept
    /\ Single(tasks, SubAttached) /\ t \in SubAttached => Coming' \cap SubAttached = {}

LEMMA PcTakeDoes ==
    ASSUME TypeOK, NEW kind, PcTake(kind)
    PROVE  TakesTask(Head(tasks)) /\ Head(tasks).kind = kind
<1>1. ServerKept
  BY DEF PcTake, ServerKept, serverVars
<1> QED
  BY <1>1, TakenShape DEF TakesTask, TasksKept

LEMMA PcAttachDoes ==
    ASSUME TypeOK, PcAttach
    PROVE  /\ \E t \in Tasks : TakesTask(t) /\ t.kind = "attach"
           /\ Waiting \subseteq Waiting'
           /\ \A m \in Waiting' : m \in Waiting \/ (m.kind = "attach" /\ m \notin SubAsks)
           /\ AsksKept
           /\ gone' = FALSE
           /\ UNCHANGED <<missed, attached, joinTask, ran, early, dead, late>>
<1> DEFINE m == Msg("attach", "pub", 0, <<>>)
<1>1. PcTake("attach") /\ Asks(m) /\ gone' = FALSE
      /\ UNCHANGED <<missed, attached, joinTask, ran, early, dead, late>>
  BY DEF PcAttach, Keeps, PcRuns
<1>2. m \in Requests /\ m.kind = "attach" /\ m \notin SubAsks /\ m \notin SubJoins
  BY RequestMade DEF SubAsks, SubJoins, Msg, Clients
<1> HIDE DEF m
<1>3. Waiting' = Waiting \cup {m} /\ AsksKept
  BY <1>1, <1>2, AskedShape DEF AsksKept
<1>4. \E t \in Tasks : TakesTask(t) /\ t.kind = "attach"
  BY <1>1, PcTakeDoes DEF TakesTask
<1> QED
  BY <1>1, <1>2, <1>3, <1>4

LEMMA PcCallDoes ==
    ASSUME TypeOK, NEW kind \in {"join", "leave"}, PcCall(kind)
    PROVE  /\ \E t \in Tasks : TakesTask(t) /\ t.kind = kind
           /\ Waiting \subseteq Waiting'
           /\ \A m \in Waiting' : m \in Waiting \/ (m.kind = kind /\ Fresh(m))
           /\ AsksKept
           /\ CallsKept
<1> DEFINE m == Msg(kind, "pub", handleId["pub"], <<>>)
<1>1. PcTake(kind) /\ Asks(m) /\ CallsKept
  BY DEF PcCall, Keeps, CallsKept, PcRuns
<1>2. /\ m \in Requests /\ m \notin SubAsks /\ m \notin SubJoins
      /\ m.kind = kind /\ m.who = "pub" /\ m.h = handleId["pub"]
  <2>1. m \in Requests
    BY RequestMade, Handling
  <2> QED
    BY <2>1 DEF SubAsks, SubJoins, Msg
<1> HIDE DEF m
<1>3. /\ m.h \in mapped => Waiting' = Waiting \cup {m}
      /\ m.h \notin mapped => Waiting' = Waiting
      /\ AsksKept
  BY <1>1, <1>2, AskedShape DEF AsksKept
<1>4. \E t \in Tasks : TakesTask(t) /\ t.kind = kind
  BY <1>1, PcTakeDoes DEF TakesTask
<1> QED
  BY <1>1, <1>2, <1>3, <1>4 DEF Fresh, Clients

LEMMA PcDetachDoes ==
    ASSUME TypeOK, PcDetach
    PROVE  /\ \E t \in Tasks : TakesTask(t) /\ t.kind = "detach"
           /\ Waiting \subseteq Waiting'
           /\ \A m \in Waiting' : m \in Waiting \/ (m.kind = "detach" /\ Fresh(m))
           /\ handleId["sub"] \in mapped => Msg("detach", "sub", handleId["sub"], <<>>) \in Waiting'
           /\ AsksKept
           /\ gone' = TRUE
           /\ dead' = (dead \/ handleId["sub"] # 0)
           /\ late' = (late \/ Attaching)
           /\ UNCHANGED <<missed, attached, joinTask, ran, early>>
<1> DEFINE p == Msg("detach", "pub", handleId["pub"], <<>>)
           s == Msg("detach", "sub", handleId["sub"], <<>>)
<1>1. /\ PcTake("detach") /\ toServer' = toServer \o Sent(p) \o Sent(s)
      /\ gone' = TRUE
      /\ dead' = (dead \/ handleId["sub"] # 0)
      /\ late' = (late \/ Attaching)
      /\ UNCHANGED <<missed, attached, joinTask, ran, early>>
  BY DEF PcDetach, Keeps, PcRuns
<1>2. /\ p \in Requests /\ p \notin SubAsks /\ p \notin SubJoins
      /\ p.kind = "detach" /\ p.who = "pub" /\ p.h = handleId["pub"]
  <2>1. p \in Requests
    BY RequestMade, Handling
  <2> QED
    BY <2>1 DEF SubAsks, SubJoins, Msg
<1>3. /\ s \in Requests /\ s \notin SubAsks /\ s \notin SubJoins
      /\ s.kind = "detach" /\ s.who = "sub" /\ s.h = handleId["sub"]
  <2>1. s \in Requests
    BY RequestMade, Handling
  <2> QED
    BY <2>1 DEF SubAsks, SubJoins, Msg
<1> HIDE DEF p, s
<1> DEFINE mid == toServer \o Sent(p)
<1>4. toServer \in Seq(Requests)
  BY QueuesTyped
<1>5. /\ mid \in Seq(Requests)
      /\ p.h \in mapped => Elements(mid) = Waiting \cup {p}
      /\ p.h \notin mapped => Elements(mid) = Waiting
      /\ \A K : Single(toServer, K) /\ p \notin K => Single(mid, K)
  BY <1>2, <1>4, SentElements DEF Waiting
<1> HIDE DEF mid
<1>6. toServer' = mid \o Sent(s)
  BY <1>1 DEF mid
<1>7. /\ s.h \in mapped => Waiting' = Elements(mid) \cup {s}
      /\ s.h \notin mapped => Waiting' = Elements(mid)
      /\ \A K : Single(mid, K) /\ s \notin K => Single(toServer', K)
  BY <1>3, <1>5, <1>6, SentElements DEF Waiting
<1>8. AsksKept
  BY <1>2, <1>3, <1>5, <1>7 DEF AsksKept
<1>9. \E t \in Tasks : TakesTask(t) /\ t.kind = "detach"
  BY <1>1, PcTakeDoes DEF TakesTask
<1>10. \A m \in Waiting' : m \in Waiting \/ (m.kind = "detach" /\ Fresh(m))
  <2> SUFFICES ASSUME NEW m \in Waiting', m \notin Waiting
               PROVE  m.kind = "detach" /\ Fresh(m)
    OBVIOUS
  <2>1. (m = p /\ p.h \in mapped) \/ (m = s /\ s.h \in mapped)
    BY <1>5, <1>7
  <2> QED
    BY <1>2, <1>3, <2>1 DEF Fresh, Clients
<1> QED
  BY <1>1, <1>3, <1>5, <1>7, <1>8, <1>9, <1>10 DEF s

\* The streams of a list are asked for on the handle the subscriber has.
AsksFor(kind, feeds) ==
    /\ Waiting \subseteq Waiting'
    /\ \A m \in Waiting' : m \in Waiting \/ (m.kind = kind /\ m.who = "sub" /\ Fresh(m))
    /\ Single(toServer, SubAsks) => Single(toServer', SubAsks)
    /\ Single(toServer, SubJoins) /\ (kind = "subscribe" \/ Waiting \cap SubJoins = {})
          => Single(toServer', SubJoins)
    /\ missed \subseteq missed'
    /\ \A f \in Elements(feeds) :
          \/ <<f, "notLast">> \in missed'
          \/ handleId["sub"] \notin mapped /\ <<f, "dead">> \in missed'
          \/ handleId["sub"] \in mapped /\ \E m \in Waiting' : m.kind = kind /\ m.feeds = <<f>>

LEMMA AskForDoes ==
    ASSUME TypeOK, UNCHANGED handles, NEW kind \in {"subjoin", "subscribe"},
           NEW feeds \in Seq(Feeds), feeds # <<>>, AskFor(kind, feeds)
    PROVE  AsksFor(kind, feeds)
<1> DEFINE f == feeds[Len(feeds)]
           m == Msg(kind, "sub", handleId["sub"], <<f>>)
<1>1. /\ Asks(m)
      /\ missed \subseteq missed'
      /\ \A g \in Elements(feeds) : g # f => <<g, "notLast">> \in missed'
      /\ handleId["sub"] \notin mapped => <<f, "dead">> \in missed'
  BY AskedFor
<1>2. f \in Feeds
  BY RequestedIs
<1> HIDE DEF f
<1>3. /\ m \in Requests /\ m \notin SubAsks /\ (kind = "subscribe" => m \notin SubJoins)
      /\ m.kind = kind /\ m.who = "sub" /\ m.h = handleId["sub"] /\ m.feeds = <<f>>
  <2>1. m \in Requests
    BY <1>2, RequestMade, Handling
  <2> QED
    BY <2>1 DEF SubAsks, SubJoins, Msg
<1> HIDE DEF m
<1>4. /\ m.h \in mapped => Waiting' = Waiting \cup {m}
      /\ m.h \notin mapped => Waiting' = Waiting
  BY <1>1, <1>3, AskedShape
<1>5. /\ Single(toServer, SubAsks) => Single(toServer', SubAsks)
      /\ Single(toServer, SubJoins) /\ (kind = "subscribe" \/ Waiting \cap SubJoins = {})
            => Single(toServer', SubJoins)
  BY <1>1, <1>3, AskedShape
<1>6. \A g \in Elements(feeds) :
          \/ <<g, "notLast">> \in missed'
          \/ handleId["sub"] \notin mapped /\ <<g, "dead">> \in missed'
          \/ handleId["sub"] \in mapped /\ \E r \in Waiting' : r.kind = kind /\ r.feeds = <<g>>
  BY <1>1, <1>3, <1>4
<1>7. \A r \in Waiting' : r \in Waiting \/ (r.kind = kind /\ r.who = "sub" /\ Fresh(r))
  BY <1>3, <1>4 DEF Fresh, Clients
<1> QED
  BY <1>1, <1>4, <1>5, <1>6, <1>7 DEF AsksFor

LEMMA PcAttachedDoes ==
    ASSUME TypeOK, PcAttached
    PROVE  \E t \in Tasks :
              /\ TakesTask(t) /\ t.kind = "attached"
              /\ UNCHANGED <<attached, joinTask, early, gone, dead, late>>
              /\ \/ t.who = "sub" /\ joinTask # <<>> /\ ran' = TRUE /\ AsksFor("subjoin", joinTask)
                 \/ ~(t.who = "sub" /\ joinTask # <<>>) /\ UNCHANGED <<toServer, missed, ran>>
<1>1. PcTake("attached") /\ UNCHANGED <<attached, joinTask, early, gone, dead, late>>
  BY DEF PcAttached, PcRuns
<1>2. TakesTask(Head(tasks)) /\ Head(tasks).kind = "attached" /\ Head(tasks) \in Tasks
  BY <1>1, PcTakeDoes DEF TakesTask
<1>3. UNCHANGED handles /\ joinTask \in Seq(Feeds)
  BY <1>1, HeadTaken DEF TypeOK
<1>4. CASE Head(tasks).who = "sub" /\ joinTask # <<>>
  <2>1. AskFor("subjoin", joinTask) /\ ran' = TRUE
    BY <1>4 DEF PcAttached, JoinDue, PcRuns
  <2>2. AsksFor("subjoin", joinTask)
    BY <1>3, <1>4, <2>1, AskForDoes
  <2> QED
    BY <1>1, <1>2, <1>4, <2>1, <2>2
<1>5. CASE ~(Head(tasks).who = "sub" /\ joinTask # <<>>)
  <2>1. UNCHANGED <<toServer, missed, ran>>
    BY <1>5 DEF PcAttached, JoinDue, PcRuns
  <2> QED
    BY <1>1, <1>2, <1>5, <2>1
<1> QED
  BY <1>4, <1>5

\* A list is asked for with the subscription there is, or with a new one.
Reusing(feeds) ==
    /\ attached /\ AsksFor("subscribe", feeds)
    /\ UNCHANGED <<joinTask, ran, early, late>>

Renewing(feeds) ==
    /\ ~attached
    /\ \E m \in SubAsks :
          /\ Waiting' = Waiting \cup {m}
          /\ Single(toServer, SubAsks) /\ Waiting \cap SubAsks = {} => Single(toServer', SubAsks)
          /\ Single(toServer, SubJoins) => Single(toServer', SubJoins)
    /\ joinTask' = feeds /\ feeds # <<>>
    /\ ran' = FALSE
    /\ missed \subseteq missed'
    /\ ~ran => \A f \in Elements(joinTask) : <<f, "replaced">> \in missed'
    /\ early' = (early \/ joinTask # <<>>)
    /\ late' = (late \/ gone)

LEMMA SubscribeToDoes ==
    ASSUME TypeOK, UNCHANGED handles, NEW feeds \in Seq(Feeds), feeds # <<>>, SubscribeTo(feeds)
    PROVE  Reusing(feeds) \/ Renewing(feeds)
<1>1. CASE attached
  <2>1. AskFor("subscribe", feeds) /\ UNCHANGED <<joinTask, ran, early, late>>
    BY <1>1 DEF SubscribeTo, Reuses
  <2> QED
    BY <1>1, <2>1, AskForDoes DEF Reusing
<1>2. CASE ~attached
  <2> DEFINE m == Msg("attach", "sub", 0, <<>>)
  <2>1. /\ Asks(m)
        /\ joinTask' = feeds
        /\ ran' = FALSE
        /\ ran => missed' = missed
        /\ ~ran => missed' = missed \cup {<<f, "replaced">> : f \in Elements(joinTask)}
        /\ early' = (early \/ (joinTask # <<>> /\ ~attached))
        /\ late' = (late \/ gone)
    BY <1>2 DEF SubscribeTo, Reuses
  <2>2. m \in Requests /\ m.kind = "attach" /\ m \in SubAsks /\ m \notin SubJoins
    BY RequestMade DEF SubAsks, SubJoins, Msg, Clients
  <2> HIDE DEF m
  <2>3. /\ Waiting' = Waiting \cup {m}
        /\ Single(toServer, SubAsks) /\ Waiting \cap SubAsks = {} => Single(toServer', SubAsks)
        /\ Single(toServer, SubJoins) => Single(toServer', SubJoins)
    BY <2>1, <2>2, AskedShape
  <2>4. early' = (early \/ joinTask # <<>>)
    BY <1>2, <2>1
  <2>5. missed \subseteq missed' /\ (~ran => \A f \in Elements(joinTask) : <<f, "replaced">> \in missed')
    BY <2>1
  <2> QED
    BY <1>2, <2>1, <2>2, <2>3, <2>4, <2>5 DEF Renewing
<1> QED
  BY <1>1, <1>2

LEMMA PcPublishersDoes ==
    ASSUME TypeOK, PcPublishers
    PROVE  \E t \in Tasks :
              /\ TakesTask(t) /\ t.kind = "publishers" /\ t.feeds \in Seq(Feeds)
              /\ UNCHANGED <<attached, gone, dead>>
              /\ \/ /\ t.feeds # <<>>
                    /\ Reusing(t.feeds) \/ Renewing(t.feeds)
                 \/ /\ t.feeds = <<>>
                    /\ UNCHANGED <<toServer, joinTask, ran, missed, early, late>>
<1> DEFINE t == Head(tasks)
<1>1. PcTake("publishers") /\ UNCHANGED <<attached, gone, dead>>
  BY DEF PcPublishers, PcHears
<1>2. TakesTask(t) /\ t.kind = "publishers" /\ t \in Tasks /\ t.feeds \in Seq(Feeds)
  BY <1>1, PcTakeDoes, TaskTypes DEF TakesTask
<1>3. UNCHANGED handles
  BY <1>1, HeadTaken
<1>4. CASE t.feeds # <<>>
  <2>1. SubscribeTo(t.feeds)
    BY <1>4 DEF PcPublishers, PcHears
  <2>2. Reusing(t.feeds) \/ Renewing(t.feeds)
    BY <1>2, <1>3, <1>4, <2>1, SubscribeToDoes
  <2> QED
    BY <1>1, <1>2, <1>4, <2>2
<1>5. CASE t.feeds = <<>>
  <2>1. UNCHANGED <<toServer, joinTask, ran, missed, early, late>>
    BY <1>5 DEF PcPublishers, PcHears
  <2> QED
    BY <1>1, <1>2, <1>5, <2>1
<1> QED
  BY <1>4, <1>5

\* The steps of plugin-client that ask for nothing.
PcNotes == PcRemove("unpublished") \/ PcRemove("leaving") \/ PcSubscribed \/ PcLeft \/ PcDrops

LEMMA PcNotesDo ==
    ASSUME TypeOK, PcNotes
    PROVE  \E t \in Tasks :
              /\ TakesTask(t) /\ t.kind \in Events \cup {"left"}
              /\ UNCHANGED <<toServer, joinTask, ran, early, gone, dead, late, missed>>
              /\ attached' # attached => t.kind = "subscribed"
              /\ t.kind = "publishers" => t.h \notin mapped
<1>1. PICK kind \in Events \cup {"left"} :
          /\ PcTake(kind)
          /\ UNCHANGED <<toServer, joinTask, ran, early, gone, dead, late, missed>>
          /\ attached' # attached => kind = "subscribed"
          /\ kind = "publishers" => Head(tasks).h \notin mapped
  <2>1. CASE PcDrops
    BY <2>1, PcDropsDo
  <2>2. CASE PcRemove("unpublished") \/ PcRemove("leaving") \/ PcSubscribed \/ PcLeft
    BY <2>2 DEF PcRemove, PcSubscribed, PcLeft, Events, PcRuns, PcHears
  <2> QED
    BY <2>1, <2>2 DEF PcNotes
<1> QED
  BY <1>1, PcTakeDoes DEF TakesTask

\* The steps of plugin-client that take a task.
PcActs ==
    PcAttach \/ PcCall("join") \/ PcCall("leave") \/ PcDetach \/ PcAttached \/ PcPublishers \/ PcNotes

LEMMA StepCases ==
    ASSUME [Next]_vars
    PROVE  Server \/ PcActs \/ MainLeft \/ User \/ (Still /\ held' \in mapped \cup {held})
<1>1. CASE PcFetch
  BY <1>1, PcFetchKeeps DEF PcActs, PcNotes
<1>2. CASE UNCHANGED vars
  BY <1>2 DEF vars, Still
<1> QED
  BY <1>1, <1>2 DEF Next, PcStep, PcActs, PcNotes

\* The calls of main.
LEMMA MainDoes ==
    ASSUME TypeOK, MainLeft \/ User
    PROVE  /\ ServerKept /\ CallsKept /\ UNCHANGED toServer
           /\ TasksKept
           /\ \E t \in Tasks : Coming' = Coming \cup {t} /\ t.kind \in Calls
<1>1. Main /\ \E kind \in Calls : tasks' = Append(tasks, Msg(kind, "pub", 0, <<>>))
  BY DEF MainLeft, User, UserCall, Calls
<1>2. PICK kind \in Calls : tasks' = Append(tasks, Msg(kind, "pub", 0, <<>>))
  BY <1>1
<1> DEFINE t == Msg(kind, "pub", 0, <<>>)
<1>3. t \in Tasks /\ t.kind \in Calls /\ t \notin SubAttached
  <2>1. t \in Tasks
    BY TaskMade
  <2> QED
    BY <2>1 DEF SubAttached, Msg
<1> HIDE DEF t
<1>4. tasks' = Append(tasks, t)
  BY <1>2 DEF t
<1>5. Coming' = Coming \cup {t} /\ TasksKept
  BY <1>3, <1>4, PostedShape DEF TasksKept
<1>6. ServerKept /\ CallsKept /\ UNCHANGED toServer
  BY <1>1 DEF Main, ServerKept, CallsKept, clientVars, serverVars, historyVars
<1> QED
  BY <1>3, <1>5, <1>6

-----------------------------------------------------------------------------
(* The handles: who has them, and what names them.                         *)

HandlesInv ==
    /\ live = mapped
    /\ \A c \in Clients : handleId[c] # 0 => handles[handleId[c]] = c
    /\ \A h \in Handles : h <= handleId[handles[h]]
    /\ \A m \in Waiting : m.kind # "attach" => m.h \in Handles /\ handles[m.h] = m.who
    /\ \A h \in room : h \in live /\ handles[h] = "pub"
    /\ members \subseteq Subscribers
    /\ \A h \in Handles : subs[h] # {} => h \in members
    /\ \A t \in Coming : t.kind = "attached" => t.h \in Handles /\ handles[t.h] = t.who

\* A request that just went out names a handle of its client.
LEMMA FreshNamed ==
    ASSUME TypeOK, HandlesInv, NEW m, Fresh(m), m.kind # "attach"
    PROVE  m.h \in Handles /\ handles[m.h] = m.who
<1>1. m.who \in Clients /\ m.h = handleId[m.who] /\ m.h \in mapped
  BY DEF Fresh
<1>2. m.h \in Handles /\ m.h # 0
  BY <1>1, Handling DEF TypeOK
<1> QED
  BY <1>1, <1>2 DEF HandlesInv

\* A step that gives out no handle and ends none.
LEMMA HandlesStay ==
    ASSUME TypeOK, HandlesInv,
           UNCHANGED <<handleId, mapped, handles, live>>,
           \A h \in room' : h \in room \/ (h \in live /\ handles[h] = "pub"),
           members \subseteq members', members' \subseteq Subscribers,
           \A h \in Handles : subs'[h] # {} => subs[h] # {} \/ h \in members',
           \A m \in Waiting' : m \in Waiting \/ Fresh(m),
           \A t \in Coming' : t \in Coming \/ t.kind # "attached"
    PROVE  HandlesInv'
<1>1. Handles' = Handles /\ Subscribers' = Subscribers
  BY DEF Handles, Subscribers
<1>2. \A m \in Waiting' : m.kind # "attach" => m.h \in Handles /\ handles[m.h] = m.who
  BY FreshNamed DEF HandlesInv
<1>3. \A t \in Coming' : t.kind = "attached" => t.h \in Handles /\ handles[t.h] = t.who
  BY DEF HandlesInv
<1>4. \A h \in Handles : subs'[h] # {} => h \in members'
  BY DEF HandlesInv
<1> QED
  BY <1>1, <1>2, <1>3, <1>4 DEF HandlesInv

LEMMA HandlesAttach == ASSUME TypeOK, HandlesInv, ServeAttach PROVE HandlesInv'
<1>1. PICK m \in Requests, h \in Nat :
          /\ m.who \in Clients /\ h = Len(handles) + 1
          /\ h \notin Handles /\ h # 0
          /\ Waiting = {m} \cup Waiting'
          /\ Handles' = Handles \cup {h}
          /\ \A g \in Handles : handles'[g] = handles[g] /\ subs'[g] = subs[g]
          /\ handles'[h] = m.who /\ subs'[h] = {}
          /\ live' = live \cup {h} /\ mapped' = mapped \cup {h}
          /\ handleId' = [handleId EXCEPT ![m.who] = h]
          /\ Coming' = Coming \cup {Msg("attached", m.who, h, <<>>)}
          /\ UNCHANGED <<room, members>>
  BY ServeAttachDoes
<1>2. handleId \in [Clients -> 0..Len(handles)] /\ Len(handles) \in Nat
      /\ room \subseteq Handles /\ members \subseteq Handles /\ live \subseteq Handles
  BY Handling DEF TypeOK
<1>3. \A c \in Clients : handleId'[c] = IF c = m.who THEN h ELSE handleId[c]
  BY <1>1, <1>2
<1>4. \A c \in Clients : handleId[c] <= h /\ (handleId[c] # 0 => handleId[c] \in Handles)
  BY <1>1, <1>2 DEF Handles
<1>5. live' = mapped'
  BY <1>1 DEF HandlesInv
<1>6. \A c \in Clients : handleId'[c] # 0 => handles'[handleId'[c]] = c
  BY <1>1, <1>3, <1>4 DEF HandlesInv
<1>7. \A g \in Handles' : g <= handleId'[handles'[g]]
  <2>1. ASSUME NEW g \in Handles PROVE g <= handleId'[handles'[g]]
    <3>1. handles[g] \in Clients /\ handles'[g] = handles[g] /\ g <= handleId[handles[g]] /\ g \in Nat
      BY <1>1 DEF TypeOK, Handles, HandlesInv
    <3>2. g <= h
      BY <1>1, <1>2 DEF Handles
    <3> QED
      BY <1>3, <3>1, <3>2
  <2>2. h <= handleId'[handles'[h]]
    BY <1>1, <1>3
  <2> QED
    BY <1>1, <2>1, <2>2
<1>8. \A r \in Waiting' : r.kind # "attach" => r.h \in Handles' /\ handles'[r.h] = r.who
  BY <1>1 DEF HandlesInv
<1>9. \A g \in room' : g \in live' /\ handles'[g] = "pub"
  BY <1>1, <1>2 DEF HandlesInv
<1>10. members' \subseteq Subscribers'
  BY <1>1, <1>2 DEF HandlesInv, Subscribers
<1>11. \A g \in Handles' : subs'[g] # {} => g \in members'
  BY <1>1 DEF HandlesInv
<1>12. \A t \in Coming' : t.kind = "attached" => t.h \in Handles' /\ handles'[t.h] = t.who
  <2>1. Msg("attached", m.who, h, <<>>).h = h /\ Msg("attached", m.who, h, <<>>).who = m.who
    BY DEF Msg
  <2> QED
    BY <1>1, <2>1 DEF HandlesInv
<1> QED
  BY <1>5, <1>6, <1>7, <1>8, <1>9, <1>10, <1>11, <1>12 DEF HandlesInv

LEMMA HandlesDetach == ASSUME TypeOK, HandlesInv, ServeDetach PROVE HandlesInv'
<1>1. PICK m \in Requests :
          /\ Waiting = {m} \cup Waiting' /\ Coming' = Coming
          /\ UNCHANGED <<handleId, handles>>
          /\ live' = live \ {m.h} /\ mapped' = mapped \ {m.h}
          /\ room' = room \ {m.h} /\ members' = members \ {m.h}
          /\ \A h \in Handles : subs'[h] = IF h = m.h THEN {} ELSE subs[h]
  BY ServeDetachDoes
<1>2. Handles' = Handles /\ Subscribers' = Subscribers \ {m.h}
  BY <1>1 DEF Handles, Subscribers
<1>3. \A h \in Handles : subs'[h] # {} => h \in members'
  BY <1>1 DEF HandlesInv
<1> QED
  BY <1>1, <1>2, <1>3 DEF HandlesInv

LEMMA HandlesSubscribe ==
    ASSUME TypeOK, HandlesInv, NEW kind \in {"subjoin", "subscribe"}, ServeSubscribe(kind)
    PROVE  HandlesInv'
<1>1. PICK m \in Requests, f \in Feeds : SubscribeServed(kind, m, f)
  BY ServeSubscribeDoes
<1>2. m.h \in live => m.h \in Subscribers
  BY <1>1 DEF SubscribeServed, HandlesInv, Subscribers
<1>3. members' \subseteq Subscribers /\ members \subseteq members'
  BY <1>1, <1>2 DEF SubscribeServed, HandlesInv
<1>4. \A h \in Handles : subs'[h] # {} => subs[h] # {} \/ h \in members'
  BY <1>1 DEF SubscribeServed
<1>5. \A t \in Coming' : t \in Coming \/ t.kind # "attached"
  BY <1>1 DEF SubscribeServed
<1>6. /\ UNCHANGED <<handleId, mapped, handles, live, room>>
      /\ Waiting' \subseteq Waiting
  BY <1>1 DEF SubscribeServed
<1> QED
  BY <1>3, <1>4, <1>5, <1>6, HandlesStay DEF HandlesInv

LEMMA HandlesServe ==
    ASSUME TypeOK, HandlesInv,
           ServeJoin \/ ServeLeave
    PROVE  HandlesInv'
<1>1. CASE ServeJoin
  <2>1. PICK m \in Requests :
            /\ m.kind = "join"
            /\ Waiting = {m} \cup Waiting'
            /\ UNCHANGED <<handleId, mapped, handles, live, subs, members>>
            /\ \A t \in Coming' : t \in Coming \/ t.kind = "publishers"
            /\ room' = room \/ (m.h \in live /\ room' = room \cup {m.h})
    BY <1>1, ServeJoinDoes
  <2>2. m \in Waiting /\ handles[m.h] = m.who
    BY <2>1 DEF HandlesInv
  <2>3. m.h \in live => handles[m.h] = "pub"
    BY <2>1, <2>2, RequestTypes
  <2> QED
    BY <2>1, <2>3, HandlesStay DEF HandlesInv
<1>2. CASE ServeLeave
  BY <1>2, ServeLeaveDoes, HandlesStay DEF HandlesInv
<1> QED
  BY <1>1, <1>2

\* plugin-client asks on the handles it has, and takes its tasks.
LEMMA PcStepDoes ==
    ASSUME TypeOK, PcActs
    PROVE  /\ ServerKept
           /\ Waiting \subseteq Waiting'
           /\ \A m \in Waiting' : m \in Waiting \/ Fresh(m)
           /\ Coming' \subseteq Coming
<1> USE DEF TakesTask
<1>1. CASE PcAttach
  BY <1>1, PcAttachDoes DEF Fresh
<1>2. CASE PcCall("join") \/ PcCall("leave")
  BY <1>2, PcCallDoes
<1>3. CASE PcDetach
  BY <1>3, PcDetachDoes
<1>4. CASE PcAttached
  <2>1. UNCHANGED toServer => Waiting' = Waiting
    BY DEF Waiting
  <2>2. PICK t \in Tasks :
            /\ TakesTask(t)
            /\ AsksFor("subjoin", joinTask) \/ UNCHANGED toServer
    BY <1>4, PcAttachedDoes
  <2> QED
    BY <2>1, <2>2 DEF AsksFor
<1>5. CASE PcPublishers
  <2>1. UNCHANGED toServer => Waiting' = Waiting
    BY DEF Waiting
  <2>2. PICK t \in Tasks :
            /\ TakesTask(t)
            /\ Reusing(t.feeds) \/ Renewing(t.feeds) \/ UNCHANGED toServer
    BY <1>5, PcPublishersDoes
  <2>3. Reusing(t.feeds) => (\A m \in Waiting' : m \in Waiting \/ Fresh(m)) /\ Waiting \subseteq Waiting'
    BY DEF Reusing, AsksFor
  <2>4. Renewing(t.feeds) => (\A m \in Waiting' : m \in Waiting \/ Fresh(m)) /\ Waiting \subseteq Waiting'
    BY DEF Renewing, SubAsks, Fresh
  <2> QED
    BY <2>1, <2>2, <2>3, <2>4
<1>6. CASE PcNotes
  <2>1. UNCHANGED toServer => Waiting' = Waiting
    BY DEF Waiting
  <2> QED
    BY <1>6, <2>1, PcNotesDo
<1> QED
  BY <1>1, <1>2, <1>3, <1>4, <1>5, <1>6 DEF PcActs

LEMMA HandlesPc == ASSUME TypeOK, HandlesInv, PcActs PROVE HandlesInv'
BY PcStepDoes, HandlesStay DEF ServerKept, HandlesInv

LEMMA HandlesMain == ASSUME TypeOK, HandlesInv, MainLeft \/ User PROVE HandlesInv'
<1>1. ServerKept /\ UNCHANGED toServer /\ \E t \in Tasks : Coming' = Coming \cup {t} /\ t.kind \in Calls
  BY MainDoes
<1>2. Waiting' = Waiting /\ \A t \in Coming' : t \in Coming \/ t.kind # "attached"
  BY <1>1 DEF Waiting, Calls
<1> QED
  BY <1>1, <1>2, HandlesStay DEF ServerKept, HandlesInv

LEMMA HandlesChange ==
    ASSUME TypeOK, HandlesInv, NEW f \in Feeds, Publish(f) \/ Unpublish(f) \/ Leave(f)
    PROVE  HandlesInv'
<1>1. ChangeDoes
  BY ChangesDo
<1>2. Waiting' = Waiting /\ \A t \in Coming' : t \in Coming \/ t.kind # "attached"
  BY <1>1 DEF ChangeDoes, Waiting
<1>3. \A h \in Handles : subs'[h] # {} => subs[h] # {}
  BY <1>1 DEF ChangeDoes
<1> QED
  BY <1>1, <1>2, <1>3, HandlesStay DEF ChangeDoes, HandlesInv

LEMMA HandlesStep == ASSUME TypeOK, HandlesInv, [Next]_vars PROVE HandlesInv'
<1>1. CASE Server
  BY <1>1, HandlesChange, HandlesAttach, HandlesServe, HandlesSubscribe, HandlesDetach DEF Server
<1>2. CASE PcActs
  BY <1>2, HandlesPc
<1>3. CASE MainLeft \/ User
  BY <1>3, HandlesMain
<1>4. CASE Still
  <2>1. UNCHANGED <<toServer, tasks, handleId, mapped, handles, live, room, subs, members>>
    BY <1>4 DEF Still, clientVars, serverVars
  <2> QED
    BY <2>1 DEF HandlesInv, Waiting, Coming, Handles, Subscribers
<1> QED
  BY <1>1, <1>2, <1>3, <1>4, StepCases

LEMMA HandlesInitially == ASSUME Init PROVE HandlesInv
<1>1. Waiting = {} /\ Coming = {} /\ Handles = {}
  BY DEF Init, Waiting, Coming, Handles, Elements
<1> QED
  BY <1>1 DEF Init, HandlesInv, Subscribers, Clients

-----------------------------------------------------------------------------
(* The subscriber: at most one handle, unless a list came early.           *)

SubHandles == {h \in Handles : handles[h] = "sub"}

\* A subscriber is attached for a list, and once.
OnceInv ==
    ~early =>
        /\ joinTask = <<>> => Waiting \cap SubAsks = {} /\ SubHandles = {}
        /\ Single(toServer, SubAsks)
        /\ Waiting \cap SubAsks # {} => SubHandles = {}
        /\ \A g, h \in SubHandles : g = h

\* A task that has not run will.
RanInv ==
    ~ran => joinTask # <<>> /\ (Waiting \cap SubAsks # {} \/ Coming \cap SubAttached # {})

\* What all steps do but the grant of a handle and a list.
OtherStep ==
    /\ UNCHANGED <<handles, handleId, joinTask, early>>
    /\ Waiting' \cap SubAsks = Waiting \cap SubAsks
    /\ Single(toServer, SubAsks) => Single(toServer', SubAsks)
    /\ TasksKept
    /\ Coming' \cap SubAttached \subseteq Coming
    /\ PcAttached \/ (ran' = ran /\ Coming \cap SubAttached \subseteq Coming')

LEMMA SameWaiting == UNCHANGED toServer => Waiting' = Waiting
BY DEF Waiting

LEMMA TakenOther ==
    ASSUME NEW t, TakesTask(t)
    PROVE  /\ UNCHANGED <<handles, handleId>> /\ TasksKept
           /\ Coming' \cap SubAttached \subseteq Coming
           /\ t.kind # "attached" => Coming \cap SubAttached \subseteq Coming'
BY DEF TakesTask, ServerKept, SubAttached

LEMMA ChangeOther == ASSUME TypeOK, NEW f \in Feeds, Publish(f) \/ Unpublish(f) \/ Leave(f) PROVE OtherStep
<1>1. ChangeDoes
  BY ChangesDo
<1>2. Coming' \cap SubAttached \subseteq Coming
  BY <1>1 DEF ChangeDoes, SubAttached
<1> QED
  BY <1>1, <1>2, SameWaiting DEF ChangeDoes, OtherStep

LEMMA ServedOther ==
    ASSUME TypeOK, ServeJoin \/ ServeLeave \/ ServeDetach
                      \/ ServeSubscribe("subjoin") \/ ServeSubscribe("subscribe")
    PROVE  OtherStep
<1>1. PICK m \in Requests :
          /\ m.kind # "attach"
          /\ Waiting = {m} \cup Waiting'
          /\ AsksKept /\ TasksKept
          /\ UNCHANGED <<handleId, handles, joinTask, early, ran>>
          /\ Coming \subseteq Coming'
          /\ \A t \in Coming' : t \in Coming \/ t.kind # "attached"
  <2>1. CASE ServeJoin
    BY <2>1, ServeJoinDoes
  <2>2. CASE ServeLeave
    BY <2>2, ServeLeaveDoes
  <2>3. CASE ServeDetach
    BY <2>3, ServeDetachDoes
  <2>4. ASSUME NEW kind \in {"subjoin", "subscribe"}, ServeSubscribe(kind)
        PROVE  \E m \in Requests :
                  /\ m.kind # "attach"
                  /\ Waiting = {m} \cup Waiting'
                  /\ AsksKept /\ TasksKept
                  /\ UNCHANGED <<handleId, handles, joinTask, early, ran>>
                  /\ Coming \subseteq Coming'
                  /\ \A t \in Coming' : t \in Coming \/ t.kind # "attached"
    <3>1. PICK m \in Requests, f \in Feeds : SubscribeServed(kind, m, f)
      BY <2>4, ServeSubscribeDoes
    <3>2. \A t \in Coming' : t \in Coming \/ t.kind # "attached"
      BY <3>1 DEF SubscribeServed
    <3> QED
      BY <3>1, <3>2 DEF SubscribeServed
  <2> QED
    BY <2>1, <2>2, <2>3, <2>4
<1>2. m \notin SubAsks
  BY <1>1 DEF SubAsks
<1>3. Coming' \cap SubAttached \subseteq Coming
  BY <1>1 DEF SubAttached
<1> QED
  BY <1>1, <1>2, <1>3 DEF OtherStep, AsksKept

LEMMA PcOther == ASSUME TypeOK, PcActs, ~PcPublishers PROVE OtherStep
<1>1. CASE PcAttach
  <2>1. PICK t \in Tasks : TakesTask(t) /\ t.kind = "attach"
    BY <1>1, PcAttachDoes
  <2> QED
    BY <1>1, <2>1, PcAttachDoes, TakenOther DEF OtherStep, AsksKept
<1>2. ASSUME NEW kind \in {"join", "leave"}, PcCall(kind) PROVE OtherStep
  <2>1. PICK t \in Tasks : TakesTask(t) /\ t.kind = kind
    BY <1>2, PcCallDoes
  <2>2. Waiting' \cap SubAsks = Waiting \cap SubAsks
    BY <1>2, PcCallDoes DEF SubAsks
  <2> QED
    BY <1>2, <2>1, <2>2, PcCallDoes, TakenOther DEF OtherStep, AsksKept, CallsKept
<1>3. CASE PcDetach
  <2>1. PICK t \in Tasks : TakesTask(t) /\ t.kind = "detach"
    BY <1>3, PcDetachDoes
  <2>2. Waiting' \cap SubAsks = Waiting \cap SubAsks
    BY <1>3, PcDetachDoes DEF SubAsks
  <2> QED
    BY <1>3, <2>1, <2>2, PcDetachDoes, TakenOther DEF OtherStep, AsksKept
<1>4. CASE PcAttached
  <2>1. PICK t \in Tasks :
            /\ TakesTask(t)
            /\ UNCHANGED <<joinTask, early>>
            /\ AsksFor("subjoin", joinTask) \/ UNCHANGED toServer
    BY <1>4, PcAttachedDoes
  <2>2. AsksFor("subjoin", joinTask) =>
            /\ Waiting' \cap SubAsks = Waiting \cap SubAsks
            /\ Single(toServer, SubAsks) => Single(toServer', SubAsks)
    BY DEF AsksFor, SubAsks
  <2> QED
    BY <1>4, <2>1, <2>2, SameWaiting, TakenOther DEF OtherStep
<1>5. CASE PcNotes
  <2>1. PICK t \in Tasks :
            /\ TakesTask(t) /\ t.kind \in Events \cup {"left"}
            /\ UNCHANGED <<toServer, joinTask, ran, early>>
    BY <1>5, PcNotesDo
  <2> QED
    BY <2>1, SameWaiting, TakenOther DEF OtherStep, Events
<1> QED
  BY <1>1, <1>2, <1>3, <1>4, <1>5 DEF PcActs

LEMMA MainOther == ASSUME TypeOK, MainLeft \/ User PROVE OtherStep
<1>1. PICK t \in Tasks : Coming' = Coming \cup {t} /\ t.kind \in Calls
  BY MainDoes
<1>2. t \notin SubAttached
  BY <1>1 DEF SubAttached, Calls
<1> QED
  BY <1>1, <1>2, MainDoes, SameWaiting DEF OtherStep, ServerKept, CallsKept

LEMMA Others ==
    ASSUME TypeOK, [Next]_vars, ~ServeAttach, ~PcPublishers
    PROVE  OtherStep
<1>1. CASE Still
  BY <1>1 DEF Still, clientVars, serverVars, historyVars, OtherStep, TasksKept, Waiting, Coming
<1> QED
  BY <1>1, ChangeOther, ServedOther, PcOther, MainOther, StepCases DEF Server

LEMMA OnceStep == ASSUME TypeOK, OnceInv, [Next]_vars PROVE OnceInv'
<1> SUFFICES ASSUME ~early'
             PROVE  /\ joinTask' = <<>> => Waiting' \cap SubAsks = {} /\ SubHandles' = {}
                    /\ Single(toServer', SubAsks)
                    /\ Waiting' \cap SubAsks # {} => SubHandles' = {}
                    /\ \A g, h \in SubHandles' : g = h
  BY DEF OnceInv, SubAsks
<1>1. CASE ServeAttach
  <2>1. PICK m \in Requests, h \in Nat :
            /\ m.kind = "attach" /\ m.who \in Clients
            /\ h \notin Handles
            /\ Waiting = {m} \cup Waiting'
            /\ AsksKept
            /\ Single(toServer, SubAsks) /\ m \in SubAsks => Waiting' \cap SubAsks = {}
            /\ Handles' = Handles \cup {h}
            /\ \A g \in Handles : handles'[g] = handles[g]
            /\ handles'[h] = m.who
            /\ UNCHANGED <<joinTask, early>>
    BY <1>1, ServeAttachDoes
  <2>2. SubHandles' = IF m.who = "sub" THEN SubHandles \cup {h} ELSE SubHandles
    BY <2>1 DEF SubHandles
  <2>3. m \in SubAsks <=> m.who = "sub"
    BY <2>1 DEF SubAsks
  <2> QED
    BY <2>1, <2>2, <2>3 DEF OnceInv, AsksKept
<1>2. CASE PcPublishers
  <2>1. PICK t \in Tasks :
            /\ TakesTask(t)
            /\ Reusing(t.feeds) \/ Renewing(t.feeds) \/ UNCHANGED <<toServer, joinTask, early>>
    BY <1>2, PcPublishersDoes
  <2>2. SubHandles' = SubHandles
    BY <2>1 DEF TakesTask, ServerKept, SubHandles, Handles
  <2>3. CASE Reusing(t.feeds)
    <3>1. Waiting' \cap SubAsks = Waiting \cap SubAsks
      BY <2>3 DEF Reusing, AsksFor, SubAsks
    <3> QED
      BY <2>2, <2>3, <3>1 DEF Reusing, AsksFor, OnceInv
  <2>4. CASE Renewing(t.feeds)
    <3>1. PICK m \in SubAsks :
              /\ Waiting' = Waiting \cup {m}
              /\ Single(toServer, SubAsks) /\ Waiting \cap SubAsks = {} => Single(toServer', SubAsks)
      BY <2>4 DEF Renewing
    <3>2. ~early /\ joinTask = <<>> /\ joinTask' # <<>>
      BY <2>4 DEF Renewing
    <3> QED
      BY <2>2, <3>1, <3>2 DEF OnceInv
  <2>5. CASE UNCHANGED <<toServer, joinTask, early>>
    BY <2>2, <2>5, SameWaiting DEF OnceInv
  <2> QED
    BY <2>1, <2>3, <2>4, <2>5
<1>3. CASE ~ServeAttach /\ ~PcPublishers
  <2>1. OtherStep
    BY <1>3, Others
  <2>2. SubHandles' = SubHandles
    BY <2>1 DEF OtherStep, SubHandles, Handles
  <2> QED
    BY <2>1, <2>2 DEF OtherStep, OnceInv
<1> QED
  BY <1>1, <1>2, <1>3

LEMMA RanStep == ASSUME TypeOK, RanInv, [Next]_vars PROVE RanInv'
<1> SUFFICES ASSUME ~ran'
             PROVE  joinTask' # <<>> /\ (Waiting' \cap SubAsks # {} \/ Coming' \cap SubAttached # {})
  BY DEF RanInv, SubAsks, SubAttached
<1>1. CASE ServeAttach
  <2>1. PICK m \in Requests, h \in Nat :
            /\ m.kind = "attach" /\ m.who \in Clients /\ h # 0
            /\ Waiting = {m} \cup Waiting'
            /\ Coming' = Coming \cup {Msg("attached", m.who, h, <<>>)}
            /\ UNCHANGED <<joinTask, ran>>
    BY <1>1, ServeAttachDoes
  <2>2. m \in SubAsks => Msg("attached", m.who, h, <<>>) \in SubAttached
    BY <2>1, TaskMade DEF SubAsks, SubAttached, Msg
  <2> QED
    BY <2>1, <2>2 DEF RanInv
<1>2. CASE PcPublishers
  <2>1. PICK t \in Tasks :
            /\ TakesTask(t) /\ t.kind = "publishers"
            /\ Reusing(t.feeds) \/ Renewing(t.feeds) \/ UNCHANGED <<toServer, joinTask, ran>>
    BY <1>2, PcPublishersDoes
  <2>2. Coming \cap SubAttached \subseteq Coming'
    BY <2>1, TakenOther
  <2>3. CASE Reusing(t.feeds)
    BY <2>2, <2>3 DEF Reusing, AsksFor, RanInv
  <2>4. CASE Renewing(t.feeds)
    BY <2>4 DEF Renewing
  <2>5. CASE UNCHANGED <<toServer, joinTask, ran>>
    BY <2>2, <2>5, SameWaiting DEF RanInv
  <2> QED
    BY <2>1, <2>3, <2>4, <2>5
<1>3. CASE PcAttached
  <2>1. PICK t \in Tasks :
            /\ TakesTask(t) /\ t.kind = "attached"
            /\ UNCHANGED joinTask
            /\ \/ ran' = TRUE
               \/ ~(t.who = "sub" /\ joinTask # <<>>) /\ UNCHANGED <<toServer, ran>>
    BY <1>3, PcAttachedDoes
  <2>2. ~ran /\ joinTask # <<>> /\ t \notin SubAttached /\ Waiting' = Waiting
    BY <2>1, SameWaiting DEF RanInv, SubAttached
  <2>3. Coming \cap SubAttached \subseteq Coming'
    BY <2>1, <2>2 DEF TakesTask
  <2> QED
    BY <2>1, <2>2, <2>3 DEF RanInv
<1>4. CASE ~ServeAttach /\ ~PcPublishers /\ ~PcAttached
  <2>1. OtherStep
    BY <1>4, Others
  <2> QED
    BY <1>4, <2>1 DEF OtherStep, RanInv
<1> QED
  BY <1>1, <1>2, <1>3, <1>4

-----------------------------------------------------------------------------
(* The end of a visit.                                                     *)

SubDetaches == {m \in Requests : m.kind = "detach" /\ m.who = "sub"}

\* Until a detach of the subscriber is asked for, all its handles live.
DeadInv == ~dead => SubHandles \subseteq live /\ Waiting \cap SubDetaches = {}

\* When the room was left, each handle that lives is about to be detached.
GoneInv ==
    gone /\ ~early /\ ~late =>
        /\ Waiting \cap SubAsks = {}
        /\ \A h \in Subscribers : \E m \in Waiting \cap SubDetaches : m.h = h

\* What all steps do but the grant of a handle, and the detach and its reply.
VisitStep ==
    /\ UNCHANGED <<handles, live, mapped, dead>>
    /\ gone' => gone
    /\ PcPublishers \/ late' = late
    /\ Waiting' \cap SubDetaches = Waiting \cap SubDetaches

LEMMA ChangeVisits ==
    ASSUME TypeOK, NEW f \in Feeds, Publish(f) \/ Unpublish(f) \/ Leave(f)
    PROVE  VisitStep
BY ChangesDo, SameWaiting DEF ChangeDoes, VisitStep

LEMMA ServedVisits ==
    ASSUME TypeOK, ServeJoin \/ ServeLeave \/ ServeSubscribe("subjoin") \/ ServeSubscribe("subscribe")
    PROVE  VisitStep
<1>1. CASE ServeJoin
  <2>1. PICK m \in Requests :
            /\ m.kind = "join" /\ Waiting = {m} \cup Waiting'
            /\ UNCHANGED <<handles, live, mapped, dead, gone, late>>
    BY <1>1, ServeJoinDoes
  <2> QED
    BY <2>1 DEF VisitStep, SubDetaches
<1>2. CASE ServeLeave
  <2>1. PICK m \in Requests :
            /\ m.kind = "leave" /\ Waiting = {m} \cup Waiting'
            /\ UNCHANGED <<handles, live, mapped, dead, gone, late>>
    BY <1>2, ServeLeaveDoes
  <2> QED
    BY <2>1 DEF VisitStep, SubDetaches
<1>3. ASSUME NEW kind \in {"subjoin", "subscribe"}, ServeSubscribe(kind) PROVE VisitStep
  <2>1. PICK m \in Requests, f \in Feeds : SubscribeServed(kind, m, f)
    BY <1>3, ServeSubscribeDoes
  <2>2. m \notin SubDetaches
    BY <2>1 DEF SubscribeServed, SubDetaches
  <2> QED
    BY <2>1, <2>2 DEF SubscribeServed, VisitStep
<1> QED
  BY <1>1, <1>2, <1>3

LEMMA PcVisits == ASSUME TypeOK, PcActs, ~PcDetach PROVE VisitStep
<1>1. UNCHANGED <<handles, live, mapped>>
  BY PcStepDoes DEF ServerKept
<1>2. CASE PcAttach
  <2>1. Waiting' \cap SubDetaches = Waiting \cap SubDetaches
    BY <1>2, PcAttachDoes DEF SubDetaches
  <2> QED
    BY <1>1, <1>2, <2>1, PcAttachDoes DEF VisitStep
<1>3. ASSUME NEW kind \in {"join", "leave"}, PcCall(kind) PROVE VisitStep
  <2>1. Waiting' \cap SubDetaches = Waiting \cap SubDetaches
    BY <1>3, PcCallDoes DEF SubDetaches
  <2> QED
    BY <1>1, <1>3, <2>1, PcCallDoes DEF VisitStep, CallsKept
<1>4. CASE PcAttached
  <2>1. /\ UNCHANGED <<gone, dead, late>>
        /\ AsksFor("subjoin", joinTask) \/ UNCHANGED toServer
    BY <1>4, PcAttachedDoes
  <2>2. AsksFor("subjoin", joinTask) => Waiting' \cap SubDetaches = Waiting \cap SubDetaches
    BY DEF AsksFor, SubDetaches
  <2> QED
    BY <1>1, <2>1, <2>2, SameWaiting DEF VisitStep
<1>5. CASE PcPublishers
  <2>1. PICK t \in Tasks :
            /\ UNCHANGED <<gone, dead>>
            /\ Reusing(t.feeds) \/ Renewing(t.feeds) \/ UNCHANGED toServer
    BY <1>5, PcPublishersDoes
  <2>2. Reusing(t.feeds) => Waiting' \cap SubDetaches = Waiting \cap SubDetaches
    BY DEF Reusing, AsksFor, SubDetaches
  <2>3. Renewing(t.feeds) => Waiting' \cap SubDetaches = Waiting \cap SubDetaches
    BY DEF Renewing, SubAsks, SubDetaches
  <2> QED
    BY <1>1, <1>5, <2>1, <2>2, <2>3, SameWaiting DEF VisitStep
<1>6. CASE PcNotes
  BY <1>1, <1>6, PcNotesDo, SameWaiting DEF VisitStep
<1> QED
  BY <1>2, <1>3, <1>4, <1>5, <1>6 DEF PcActs

LEMMA MainVisits == ASSUME TypeOK, MainLeft \/ User PROVE VisitStep
BY MainDoes, SameWaiting DEF VisitStep, ServerKept, CallsKept

LEMMA Visiting ==
    ASSUME TypeOK, [Next]_vars, ~ServeAttach, ~ServeDetach, ~PcDetach
    PROVE  VisitStep
<1>1. CASE Still
  BY <1>1 DEF Still, clientVars, serverVars, historyVars, VisitStep, Waiting
<1> QED
  BY <1>1, ChangeVisits, ServedVisits, PcVisits, MainVisits, StepCases DEF Server

LEMMA DeadStep == ASSUME TypeOK, HandlesInv, DeadInv, [Next]_vars PROVE DeadInv'
<1> SUFFICES ASSUME ~dead'
             PROVE  SubHandles' \subseteq live' /\ Waiting' \cap SubDetaches = {}
  BY DEF DeadInv, SubDetaches
<1>1. CASE ServeAttach
  <2>1. PICK m \in Requests, h \in Nat :
            /\ Waiting = {m} \cup Waiting'
            /\ Handles' = Handles \cup {h}
            /\ \A g \in Handles : handles'[g] = handles[g]
            /\ live' = live \cup {h}
            /\ UNCHANGED dead
    BY <1>1, ServeAttachDoes
  <2>2. SubHandles' \subseteq SubHandles \cup {h}
    BY <2>1 DEF SubHandles
  <2> QED
    BY <2>1, <2>2 DEF DeadInv
<1>2. CASE ServeDetach
  <2>1. PICK m \in Requests :
            /\ m.kind = "detach" /\ Waiting = {m} \cup Waiting'
            /\ UNCHANGED <<handles, dead>>
            /\ live' = live \ {m.h}
    BY <1>2, ServeDetachDoes
  <2>2. m \notin SubDetaches /\ handles[m.h] = m.who
    BY <2>1 DEF DeadInv, HandlesInv
  <2>3. m.h \notin SubHandles
    BY <2>1, <2>2 DEF SubHandles, SubDetaches
  <2>4. SubHandles' = SubHandles
    BY <2>1 DEF SubHandles, Handles
  <2> QED
    BY <2>1, <2>3, <2>4 DEF DeadInv
<1>3. CASE PcDetach
  <2>1. /\ \A m \in Waiting' : m \in Waiting \/ (m.kind = "detach" /\ Fresh(m))
        /\ dead' = (dead \/ handleId["sub"] # 0)
        /\ ServerKept
    BY <1>3, PcDetachDoes DEF TakesTask
  <2>2. ~dead /\ handleId["sub"] = 0 /\ 0 \notin mapped
    BY <2>1, Handling DEF TypeOK
  <2>3. \A m \in SubDetaches : ~Fresh(m)
    BY <2>2 DEF Fresh, SubDetaches
  <2>4. SubHandles' = SubHandles
    BY <2>1 DEF ServerKept, SubHandles, Handles
  <2> QED
    BY <2>1, <2>2, <2>3, <2>4 DEF DeadInv, ServerKept
<1>4. CASE ~ServeAttach /\ ~ServeDetach /\ ~PcDetach
  <2>1. VisitStep
    BY <1>4, Visiting
  <2>2. SubHandles' = SubHandles
    BY <2>1 DEF VisitStep, SubHandles, Handles
  <2> QED
    BY <2>1, <2>2 DEF VisitStep, DeadInv
<1> QED
  BY <1>1, <1>2, <1>3, <1>4

\* The one handle of the subscriber is the one it has.
LEMMA TheSubscriber ==
    ASSUME TypeOK, HandlesInv, OnceInv, ~early, NEW h \in SubHandles
    PROVE  h = handleId["sub"]
<1> DEFINE s == handleId["sub"]
<1>1. h \in Handles /\ handles[h] = "sub" /\ h <= s /\ h \in Nat \ {0} /\ s \in Nat
  BY Handling DEF SubHandles, HandlesInv
<1>2. s # 0
  BY <1>1
<1>3. s \in Handles /\ handles[s] = "sub"
  BY <1>2, Handling DEF HandlesInv
<1> QED
  BY <1>3 DEF SubHandles, OnceInv

LEMMA GoneStep == ASSUME TypeOK, HandlesInv, OnceInv, GoneInv, [Next]_vars PROVE GoneInv'
<1> SUFFICES ASSUME gone', ~early', ~late'
             PROVE  /\ Waiting' \cap SubAsks = {}
                    /\ \A h \in Subscribers' : \E m \in Waiting' \cap SubDetaches : m.h = h
  BY DEF GoneInv, SubAsks, SubDetaches
<1>1. CASE ServeAttach
  <2>1. PICK m \in Requests, h \in Nat :
            /\ m.kind = "attach" /\ m.who \in Clients /\ h \notin Handles
            /\ Waiting = {m} \cup Waiting'
            /\ \A g \in Handles : handles'[g] = handles[g]
            /\ handles'[h] = m.who
            /\ live' = live \cup {h}
            /\ UNCHANGED <<gone, early, late>>
    BY <1>1, ServeAttachDoes
  <2>2. m \notin SubAsks /\ m \notin SubDetaches
    BY <2>1 DEF GoneInv, SubDetaches
  <2>3. m.who # "sub"
    BY <2>1, <2>2 DEF SubAsks
  <2>4. Subscribers' \subseteq Subscribers
    BY <2>1, <2>3 DEF Subscribers, TypeOK
  <2> QED
    BY <2>1, <2>2, <2>4 DEF GoneInv
<1>2. CASE ServeDetach
  <2>1. PICK m \in Requests :
            /\ m.kind = "detach" /\ Waiting = {m} \cup Waiting'
            /\ UNCHANGED <<handles, gone, early, late>>
            /\ live' = live \ {m.h}
    BY <1>2, ServeDetachDoes
  <2>2. Subscribers' = Subscribers \ {m.h}
    BY <2>1 DEF Subscribers
  <2> QED
    BY <2>1, <2>2 DEF GoneInv
<1>3. CASE PcDetach
  <2>1. /\ \A m \in Waiting' : m \in Waiting \/ (m.kind = "detach" /\ Fresh(m))
        /\ handleId["sub"] \in mapped => Msg("detach", "sub", handleId["sub"], <<>>) \in Waiting'
        /\ late' = (late \/ Attaching)
        /\ UNCHANGED early /\ ServerKept
    BY <1>3, PcDetachDoes DEF TakesTask
  <2>2. Waiting \cap SubAsks = {}
    BY <2>1, AttachingIs
  <2>3. Waiting' \cap SubAsks = {}
    BY <2>1, <2>2 DEF SubAsks
  <2>4. \A h \in Subscribers : \E m \in Waiting' \cap SubDetaches : m.h = h
    <3> SUFFICES ASSUME NEW h \in Subscribers
                 PROVE  \E m \in Waiting' \cap SubDetaches : m.h = h
      OBVIOUS
    <3> DEFINE m == Msg("detach", "sub", h, <<>>)
    <3>1. h \in SubHandles /\ h \in live
      BY DEF Subscribers, SubHandles, TypeOK
    <3>2. h = handleId["sub"] /\ h \in mapped /\ h \in Nat
      BY <2>1, <3>1, TheSubscriber, Handling DEF HandlesInv
    <3>3. m \in Waiting'
      BY <2>1, <3>2
    <3>4. m \in Requests
      BY <3>2, RequestMade, Handling
    <3>5. m \in SubDetaches /\ m.h = h
      BY <3>4 DEF SubDetaches, Msg
    <3> QED
      BY <3>3, <3>5
  <2>5. Subscribers' = Subscribers
    BY <2>1 DEF ServerKept, Subscribers
  <2> QED
    BY <2>3, <2>4, <2>5
<1>4. CASE PcPublishers
  <2>1. VisitStep
    BY <1>4, PcVisits DEF PcActs, PcPublishers, PcDetach, PcRuns, PcHears, PcTake
  <2>2. PICK t \in Tasks :
            Reusing(t.feeds) \/ Renewing(t.feeds) \/ UNCHANGED <<toServer, early, late>>
    BY <1>4, PcPublishersDoes
  <2>3. ~Renewing(t.feeds)
    BY <2>1 DEF Renewing, VisitStep
  <2>4. UNCHANGED <<early, late>> /\ Waiting' \cap SubAsks = Waiting \cap SubAsks
    BY <2>2, <2>3, SameWaiting DEF Reusing, AsksFor, SubAsks
  <2> QED
    BY <2>1, <2>4 DEF VisitStep, GoneInv, Subscribers
<1>5. CASE ~ServeAttach /\ ~ServeDetach /\ ~PcDetach /\ ~PcPublishers
  <2>1. VisitStep
    BY <1>5, Visiting
  <2>2. OtherStep
    BY <1>5, Others
  <2> QED
    BY <1>5, <2>1, <2>2 DEF VisitStep, OtherStep, GoneInv, Subscribers
<1> QED
  BY <1>1, <1>2, <1>3, <1>4, <1>5

-----------------------------------------------------------------------------
(* The one subscription, unless a list came early or a detach was asked    *)
(* for: its handle is asked for, granted, joins, and has joined.           *)

Granted == Coming \cap SubAttached # {}
Asking == Waiting \cap SubAsks # {}
Joining == Waiting \cap SubJoins # {}
Subscribing ==
    \/ attached
    \/ \E t \in Coming : t.kind = "subscribed"
    \/ \E m \in Waiting : m.kind = "subscribe"

OneInv ==
    ~early /\ ~dead =>
        /\ Single(tasks, SubAttached) /\ Single(toServer, SubJoins)
        /\ Asking => ~Granted /\ ~Joining /\ members = {}
        /\ Granted => ~Joining /\ members = {}
        /\ Joining => members = {}
        /\ Subscribing => handleId["sub"] \in members

\* What the steps do that leave the subscription as it is.
PlainStep ==
    /\ dead => dead'
    /\ UNCHANGED members
    /\ Single(toServer, SubJoins) => Single(toServer', SubJoins)
    /\ \A m \in Waiting' : m \in Waiting \/ m.kind \notin {"subjoin", "subscribe"}
    /\ \A t \in Coming' : t \in Coming \/ t.kind # "subscribed"
    /\ attached' => attached \/ \E t \in Coming : t.kind = "subscribed"

LEMMA PlainOne == ASSUME OneInv, OtherStep, PlainStep PROVE OneInv'
<1> SUFFICES ASSUME ~early', ~dead'
             PROVE  /\ Single(tasks', SubAttached) /\ Single(toServer', SubJoins)
                    /\ Asking' => ~Granted' /\ ~Joining' /\ members' = {}
                    /\ Granted' => ~Joining' /\ members' = {}
                    /\ Joining' => members' = {}
                    /\ Subscribing' => handleId'["sub"] \in members'
  BY DEF OneInv, SubAttached, SubJoins
<1>1. ~early /\ ~dead /\ UNCHANGED <<members, handleId>>
  BY DEF OtherStep, PlainStep
<1>2. (Asking' => Asking) /\ (Granted' => Granted)
  BY DEF OtherStep, Asking, Granted, SubAsks, SubAttached
<1>3. Joining' => Joining
  BY DEF PlainStep, Joining, SubJoins
<1>4. Single(tasks', SubAttached) /\ Single(toServer', SubJoins)
  BY <1>1 DEF OneInv, OtherStep, PlainStep, TasksKept
<1>5. Subscribing' => Subscribing
  BY DEF PlainStep, Subscribing
<1> QED
  BY <1>1, <1>2, <1>3, <1>4, <1>5 DEF OneInv

LEMMA PlainSteps ==
    ASSUME TypeOK, [Next]_vars, ~ServeAttach, ~ServeDetach, ~PcAttached, ~PcPublishers,
           ~ServeSubscribe("subjoin"), ~ServeSubscribe("subscribe")
    PROVE  PlainStep
<1>1. ASSUME NEW f \in Feeds, Publish(f) \/ Unpublish(f) \/ Leave(f) PROVE PlainStep
  BY <1>1, ChangesDo, SameWaiting DEF ChangeDoes, PlainStep
<1>2. CASE ServeJoin
  BY <1>2, ServeJoinDoes DEF PlainStep, AsksKept
<1>3. CASE ServeLeave
  BY <1>3, ServeLeaveDoes DEF PlainStep, AsksKept
<1>4. CASE PcActs
  <2>1. UNCHANGED members /\ Coming' \subseteq Coming
    BY <1>4, PcStepDoes DEF ServerKept
  <2>2. CASE PcAttach
    BY <2>1, <2>2, PcAttachDoes DEF PlainStep, AsksKept
  <2>3. ASSUME NEW kind \in {"join", "leave"}, PcCall(kind) PROVE PlainStep
    BY <2>1, <2>3, PcCallDoes DEF PlainStep, AsksKept, CallsKept
  <2>4. CASE PcDetach
    <3>1. dead => dead'
      BY <2>4, PcDetachDoes
    <3>2. \A m \in Waiting' : m \in Waiting \/ m.kind \notin {"subjoin", "subscribe"}
      BY <2>4, PcDetachDoes
    <3>3. UNCHANGED attached /\ AsksKept
      BY <2>4, PcDetachDoes
    <3> QED
      BY <2>1, <3>1, <3>2, <3>3 DEF PlainStep, AsksKept
  <2>5. CASE PcNotes
    <3>1. PICK t \in Tasks :
              /\ TakesTask(t)
              /\ UNCHANGED <<toServer, dead>>
              /\ attached' # attached => t.kind = "subscribed"
      BY <2>5, PcNotesDo
    <3>2. t \in Coming
      BY <3>1 DEF TakesTask
    <3>3. attached' => attached \/ t.kind = "subscribed"
      BY <3>1 DEF TypeOK
    <3> QED
      BY <2>1, <3>1, <3>2, <3>3, SameWaiting DEF PlainStep
  <2> QED
    BY <1>4, <2>2, <2>3, <2>4, <2>5 DEF PcActs
<1>5. CASE MainLeft \/ User
  BY <1>5, MainDoes, SameWaiting DEF PlainStep, ServerKept, CallsKept, Calls
<1>6. CASE Still
  BY <1>6 DEF Still, clientVars, serverVars, historyVars, PlainStep, Waiting, Coming
<1> QED
  BY <1>1, <1>2, <1>3, <1>4, <1>5, <1>6, StepCases DEF Server

LEMMA OneAttach ==
    ASSUME TypeOK, HandlesInv, OnceInv, OneInv, ServeAttach
    PROVE  OneInv'
<1> SUFFICES ASSUME ~early', ~dead'
             PROVE  /\ Single(tasks', SubAttached) /\ Single(toServer', SubJoins)
                    /\ Asking' => ~Granted' /\ ~Joining' /\ members' = {}
                    /\ Granted' => ~Joining' /\ members' = {}
                    /\ Joining' => members' = {}
                    /\ Subscribing' => handleId'["sub"] \in members'
  BY DEF OneInv, SubAttached, SubJoins
<1>1. PICK m \in Requests, h \in Nat :
          /\ m.kind = "attach" /\ m.who \in Clients
          /\ Waiting = {m} \cup Waiting'
          /\ AsksKept
          /\ Single(toServer, SubAsks) /\ m \in SubAsks => Waiting' \cap SubAsks = {}
          /\ handleId' = [handleId EXCEPT ![m.who] = h]
          /\ Coming' = Coming \cup {Msg("attached", m.who, h, <<>>)}
          /\ m.who = "pub" => TasksKept
          /\ Single(tasks, SubAttached) /\ Coming \cap SubAttached = {} => Single(tasks', SubAttached)
          /\ UNCHANGED <<members, attached, early, dead>>
  BY ServeAttachDoes
<1> DEFINE a == Msg("attached", m.who, h, <<>>)
<1>2. a.kind = "attached" /\ a.who = m.who
  BY DEF Msg
<1> HIDE DEF a
<1>3. /\ Asking' => Asking
      /\ Joining' => Joining
      /\ Subscribing' => Subscribing
  BY <1>1, <1>2 DEF Asking, Joining, Subscribing, SubAsks, SubJoins, a
<1>4. CASE m.who = "pub"
  <2>1. Granted' => Granted
    BY <1>1, <1>2, <1>4 DEF Granted, SubAttached, a
  <2>2. handleId'["sub"] = handleId["sub"]
    BY <1>1, <1>4 DEF TypeOK, Clients
  <2>3. Single(tasks', SubAttached) /\ Single(toServer', SubJoins)
    BY <1>1, <1>4 DEF OneInv, TasksKept, AsksKept
  <2> QED
    BY <1>1, <1>3, <2>1, <2>2, <2>3 DEF OneInv
<1>5. CASE m.who = "sub"
  <2>1. m \in SubAsks /\ m \in Waiting
    BY <1>1, <1>5 DEF SubAsks
  <2>2. ~Granted /\ ~Joining /\ members = {} /\ ~Subscribing
    BY <1>1, <2>1 DEF OneInv, Asking
  <2>3. ~Asking'
    BY <1>1, <2>1 DEF OnceInv, Asking, SubAsks
  <2>4. Single(tasks', SubAttached) /\ Single(toServer', SubJoins)
    BY <1>1, <2>2 DEF OneInv, Granted, AsksKept
  <2> QED
    BY <1>1, <1>3, <2>2, <2>3, <2>4
<1> QED
  BY <1>1, <1>4, <1>5 DEF Clients

LEMMA OneDetach ==
    ASSUME TypeOK, HandlesInv, DeadInv, OneInv, ServeDetach
    PROVE  OneInv'
<1> SUFFICES ASSUME ~dead'
             PROVE  OneInv'
  BY DEF OneInv
<1>1. PICK m \in Requests :
          /\ m.kind = "detach" /\ Waiting = {m} \cup Waiting' /\ AsksKept /\ Coming' = Coming
          /\ UNCHANGED <<dead, attached>>
          /\ members' = members \ {m.h}
  BY ServeDetachDoes
<1>2. m.who # "sub" /\ handles[m.h] = m.who
  BY <1>1 DEF DeadInv, SubDetaches, HandlesInv
<1>3. members' = members
  BY <1>1, <1>2 DEF HandlesInv, Subscribers
<1>4. PlainStep
  BY <1>1, <1>3 DEF PlainStep, AsksKept
<1> QED
  BY <1>4, ServedOther, PlainOne

LEMMA OneAttached == ASSUME TypeOK, OneInv, PcAttached PROVE OneInv'
<1>1. PICK t \in Tasks :
          /\ TakesTask(t) /\ t.kind = "attached"
          /\ UNCHANGED <<attached, early, dead>>
          /\ \/ t.who = "sub" /\ AsksFor("subjoin", joinTask)
             \/ UNCHANGED toServer
  BY PcAttachedDoes
<1>2. OtherStep
  BY PcOther DEF PcActs, PcPublishers, PcAttached, PcRuns, PcHears, PcTake
<1>3. CASE UNCHANGED toServer
  <2>1. PlainStep
    BY <1>1, <1>3, SameWaiting DEF PlainStep, TakesTask, ServerKept
  <2> QED
    BY <1>2, <2>1, PlainOne
<1>4. CASE t.who = "sub" /\ AsksFor("subjoin", joinTask)
  <2> SUFFICES ASSUME ~early', ~dead'
               PROVE  /\ Single(tasks', SubAttached) /\ Single(toServer', SubJoins)
                      /\ Asking' => ~Granted' /\ ~Joining' /\ members' = {}
                      /\ Granted' => ~Joining' /\ members' = {}
                      /\ Joining' => members' = {}
                      /\ Subscribing' => handleId'["sub"] \in members'
    BY DEF OneInv, SubAttached, SubJoins
  <2>1. t \in SubAttached /\ t \in Coming /\ members' = members
    BY <1>1, <1>4 DEF SubAttached, TakesTask, ServerKept
  <2>2. ~Asking /\ ~Joining /\ members = {} /\ ~Subscribing
    BY <1>1, <2>1 DEF OneInv, Granted
  <2>3. Single(tasks', SubAttached) /\ ~Granted'
    BY <1>1, <2>1 DEF OneInv, TakesTask, TasksKept, Granted, SubAttached
  <2>4. Single(toServer', SubJoins)
    BY <1>1, <1>4, <2>2 DEF OneInv, AsksFor, Joining
  <2>5. ~Asking'
    BY <1>2, <2>2 DEF OtherStep, Asking, SubAsks
  <2>6. ~Subscribing'
    BY <1>1, <1>4, <2>2 DEF Subscribing, AsksFor, TakesTask
  <2> QED
    BY <2>1, <2>2, <2>3, <2>4, <2>5, <2>6
<1> QED
  BY <1>1, <1>3, <1>4

LEMMA OnePublishers ==
    ASSUME TypeOK, HandlesInv, OnceInv, OneInv, PcPublishers
    PROVE  OneInv'
<1> SUFFICES ASSUME ~early', ~dead'
             PROVE  /\ Single(tasks', SubAttached) /\ Single(toServer', SubJoins)
                    /\ Asking' => ~Granted' /\ ~Joining' /\ members' = {}
                    /\ Granted' => ~Joining' /\ members' = {}
                    /\ Joining' => members' = {}
                    /\ Subscribing' => handleId'["sub"] \in members'
  BY DEF OneInv, SubAttached, SubJoins
<1>1. PICK t \in Tasks :
          /\ TakesTask(t) /\ t.kind = "publishers"
          /\ UNCHANGED <<attached, dead>>
          /\ Reusing(t.feeds) \/ Renewing(t.feeds) \/ UNCHANGED <<toServer, early>>
  BY PcPublishersDoes
<1>2. UNCHANGED <<members, handleId>> /\ TasksKept /\ Coming' \subseteq Coming /\ (Granted' => Granted)
  BY <1>1 DEF TakesTask, ServerKept, Granted, SubAttached
<1>3. CASE Reusing(t.feeds)
  <2>1. ~early /\ Subscribing
    BY <1>3 DEF Reusing, Subscribing
  <2>2. (Asking' => Asking) /\ (Joining' => Joining)
    BY <1>3 DEF Reusing, AsksFor, Asking, Joining, SubAsks, SubJoins
  <2>3. Single(tasks', SubAttached) /\ Single(toServer', SubJoins)
    BY <1>1, <1>2, <1>3, <2>1 DEF OneInv, TasksKept, Reusing, AsksFor
  <2> QED
    BY <1>1, <1>2, <2>1, <2>2, <2>3 DEF OneInv
<1>4. CASE Renewing(t.feeds)
  <2>1. PICK m \in SubAsks :
            /\ Waiting' = Waiting \cup {m}
            /\ Single(toServer, SubJoins) => Single(toServer', SubJoins)
    BY <1>4 DEF Renewing
  <2>2. ~early /\ SubHandles = {}
    BY <1>4 DEF Renewing, OnceInv
  <2>3. members = {}
    BY <2>2 DEF HandlesInv, Subscribers, SubHandles, TypeOK
  <2>4. ~Granted
    BY <2>2 DEF Granted, HandlesInv, SubAttached, SubHandles
  <2>5. ~Joining
    <3>1. \A r \in SubJoins : r.who = "sub" /\ r.kind # "attach"
      BY RequestTypes DEF SubJoins
    <3> QED
      BY <2>2, <3>1 DEF Joining, HandlesInv, SubHandles
  <2>6. ~Subscribing
    BY <1>1, <2>2, <2>3 DEF OneInv
  <2>7. ~Joining' /\ ~Subscribing'
    BY <1>1, <1>2, <2>1, <2>5, <2>6 DEF Joining, Subscribing, SubAsks, SubJoins
  <2>8. Single(tasks', SubAttached) /\ Single(toServer', SubJoins)
    BY <1>1, <1>2, <2>1, <2>2 DEF OneInv, TasksKept
  <2> QED
    BY <1>2, <2>3, <2>4, <2>7, <2>8
<1>5. CASE UNCHANGED <<toServer, early>>
  <2>1. (Asking' => Asking) /\ (Joining' => Joining) /\ (Subscribing' => Subscribing)
    BY <1>1, <1>2, <1>5, SameWaiting DEF Asking, Joining, Subscribing, SubAsks, SubJoins
  <2> QED
    BY <1>1, <1>2, <1>5, <2>1 DEF OneInv, TasksKept
<1> QED
  BY <1>1, <1>3, <1>4, <1>5

LEMMA OneSubscribe ==
    ASSUME TypeOK, HandlesInv, OnceInv, OneInv, NEW kind \in {"subjoin", "subscribe"}, ServeSubscribe(kind)
    PROVE  OneInv'
<1> SUFFICES ASSUME ~early', ~dead'
             PROVE  /\ Single(tasks', SubAttached) /\ Single(toServer', SubJoins)
                    /\ Asking' => ~Granted' /\ ~Joining' /\ members' = {}
                    /\ Granted' => ~Joining' /\ members' = {}
                    /\ Joining' => members' = {}
                    /\ Subscribing' => handleId'["sub"] \in members'
  BY DEF OneInv, SubAttached, SubJoins
<1>1. PICK m \in Requests, f \in Feeds : SubscribeServed(kind, m, f)
  BY ServeSubscribeDoes
<1>2. ~early /\ ~dead /\ UNCHANGED <<handleId, attached>> /\ m \in Waiting /\ Waiting' \subseteq Waiting
  BY <1>1 DEF SubscribeServed
<1>3. m.h = handleId["sub"]
  <2>1. m.h \in SubHandles
    BY <1>1, <1>2 DEF SubscribeServed, HandlesInv, SubHandles
  <2> QED
    BY <1>2, <2>1, TheSubscriber
<1>4. members' = members \/ members' = members \cup {handleId["sub"]}
  BY <1>1, <1>3 DEF SubscribeServed
<1>5. Single(tasks', SubAttached) /\ Single(toServer', SubJoins)
  BY <1>1, <1>2 DEF OneInv, SubscribeServed, TasksKept, AsksKept
<1>6. (Granted' => Granted) /\ (Asking' => Asking) /\ (Joining' => Joining)
  BY <1>1, <1>2 DEF SubscribeServed, Granted, Asking, Joining, SubAttached, SubAsks, SubJoins
<1>7. Subscribing' => Subscribing \/ handleId["sub"] \in members'
  BY <1>1, <1>2, <1>3 DEF SubscribeServed, Subscribing
<1>8. CASE kind = "subjoin"
  <2>1. m \in SubJoins
    BY <1>1, <1>8 DEF SubscribeServed, SubJoins
  <2>2. members = {} /\ ~Asking /\ ~Granted
    BY <1>2, <2>1 DEF OneInv, Joining
  <2>3. ~Joining'
    BY <1>1, <1>2, <2>1 DEF OneInv, SubscribeServed, Joining, SubJoins
  <2> QED
    BY <1>2, <1>4, <1>5, <1>6, <1>7, <2>2, <2>3 DEF OneInv
<1>9. CASE kind = "subscribe"
  <2>1. m.kind = "subscribe"
    BY <1>1, <1>9 DEF SubscribeServed
  <2>2. handleId["sub"] \in members
    BY <1>2, <2>1 DEF OneInv, Subscribing
  <2> QED
    BY <1>2, <1>4, <1>5, <1>6, <2>2 DEF OneInv
<1> QED
  BY <1>8, <1>9

LEMMA OneStep ==
    ASSUME TypeOK, HandlesInv, OnceInv, DeadInv, OneInv, [Next]_vars
    PROVE  OneInv'
<1>1. CASE /\ ~ServeAttach /\ ~ServeDetach /\ ~PcAttached /\ ~PcPublishers
           /\ ~ServeSubscribe("subjoin") /\ ~ServeSubscribe("subscribe")
  BY <1>1, Others, PlainSteps, PlainOne
<1> QED
  BY <1>1, OneAttach, OneDetach, OneAttached, OnePublishers, OneSubscribe

-----------------------------------------------------------------------------
(* The invariant, and what it says of the subscriptions.                   *)

SubInv == TypeOK /\ HandlesInv /\ OnceInv /\ RanInv /\ DeadInv /\ GoneInv /\ OneInv

LEMMA SubInitially == ASSUME Init PROVE SubInv
<1>1. TypeOK /\ HandlesInv
  BY InitiallyTyped, HandlesInitially
<1>2. /\ Waiting = {} /\ Coming = {} /\ SubHandles = {} /\ members = {}
      /\ \A K : Single(toServer, K) /\ Single(tasks, K)
      /\ ran /\ ~attached
  BY DEF Init, Waiting, Coming, Elements, SubHandles, Handles, Single
<1>3. Subscribers = {}
  BY DEF Init, Subscribers
<1>4. OnceInv /\ RanInv /\ DeadInv /\ GoneInv
  BY <1>2, <1>3 DEF OnceInv, RanInv, DeadInv, GoneInv
<1>5. OneInv
  BY <1>2 DEF OneInv, Asking, Granted, Joining, Subscribing
<1> QED
  BY <1>1, <1>4, <1>5 DEF SubInv

LEMMA SubStep == ASSUME SubInv, [Next]_vars PROVE SubInv'
BY StepTyped, HandlesStep, OnceStep, RanStep, DeadStep, GoneStep, OneStep DEF SubInv

LEMMA SubHolds == Spec => []SubInv
<1>1. Init => SubInv
  BY SubInitially
<1>2. SubInv /\ [Next]_vars => SubInv'
  BY SubStep
<1> QED
  BY <1>1, <1>2, PTL DEF Spec

LEMMA OneFollows == ASSUME TypeOK, OnceInv PROVE FollowedOnce
<1> SUFFICES ASSUME ~early, NEW f \in Feeds
             PROVE  Cardinality(Followers(f)) <= 1
  BY DEF FollowedOnce
<1>1. \A g, h \in Followers(f) : g = h
  BY DEF Followers, Subscribers, OnceInv, SubHandles, TypeOK
<1>2. CASE Followers(f) = {}
  <2>1. Cardinality(Followers(f)) = 0
    BY <1>2, FS_EmptySet
  <2> QED
    BY <2>1
<1>3. CASE Followers(f) # {}
  <2>1. PICK h \in Followers(f) : Followers(f) = {h}
    BY <1>1, <1>3
  <2>2. Cardinality(Followers(f)) = 1
    BY <2>1, FS_Singleton
  <2> QED
    BY <2>2
<1> QED
  BY <1>2, <1>3

\* The media of a feed comes once: however many lists came, the subscriber has
\* one handle (video_room_subscriber.cpp:65-80).
THEOREM MediaComesOnce == Spec => []FollowedOnce
<1>1. SubInv => FollowedOnce
  BY OneFollows DEF SubInv
<1> QED
  BY <1>1, SubHolds, PTL

\* A visit that is over leaves no subscriber: its detach is on its way until it
\* is served (video_room_client.cpp:73-78).
THEOREM NobodyStays == Spec => []LeftBehind
<1>1. SubInv => LeftBehind
  <2>1. toServer = <<>> => Waiting = {}
    BY DEF Waiting, Elements
  <2> QED
    BY <2>1 DEF SubInv, GoneInv, LeftBehind, Quiet
<1> QED
  BY <1>1, SubHolds, PTL

-----------------------------------------------------------------------------
(* The order of the detaches.                                              *)

Pub == handleId["pub"]
Sub == handleId["sub"]

\* A request before i detaches the publisher, or lets it join.
Detached(i) == \E j \in 1..(i - 1) : toServer[j].kind = "detach" /\ toServer[j].who = "pub" /\ toServer[j].h = Pub
Joins(i) == \E j \in 1..(i - 1) : toServer[j].kind = "join" /\ toServer[j].h = Pub

\* When a detach of the subscriber is served the publisher is not in the room:
\* it was detached before, or it is a new one that did not join yet.
OutsideAt(i) == Detached(i) \/ Pub \notin live \/ (Pub \notin room /\ ~Joins(i))
OutsideInv == \A i \in 1..Len(toServer) : toServer[i] \in SubDetaches => OutsideAt(i)

\* A step that leaves the server as it is, and only adds to the queue.
Adds(K) ==
    /\ toServer' \in Seq(Requests)
    /\ Len(toServer') >= Len(toServer)
    /\ \A i \in 1..Len(toServer) : toServer'[i] = toServer[i]
    /\ \A i \in 1..Len(toServer') : i > Len(toServer) => toServer'[i] \notin K

LEMMA AsksAdd ==
    ASSUME TypeOK, NEW m \in Requests, m \notin SubDetaches, Asks(m)
    PROVE  Adds(SubDetaches)
<1> DEFINE q == toServer \o Sent(m)
<1>1. /\ q \in Seq(Requests)
      /\ Len(toServer) \in Nat
      /\ Len(q) \in {Len(toServer), Len(toServer) + 1}
      /\ \A i \in 1..Len(toServer) : q[i] = toServer[i]
      /\ Len(q) = Len(toServer) + 1 => q[Len(toServer) + 1] = m
  BY QueuesTyped, SentAt
<1>2. toServer' = q
  BY DEF Asks
<1> HIDE DEF q
<1>3. \A i \in 1..Len(q) : i > Len(toServer) => i = Len(toServer) + 1 /\ Len(q) = Len(toServer) + 1
  BY <1>1
<1> QED
  BY <1>1, <1>2, <1>3 DEF Adds

LEMMA NoneAdded == ASSUME TypeOK, UNCHANGED toServer PROVE Adds(SubDetaches)
<1>1. toServer \in Seq(Requests) /\ Len(toServer) \in Nat
  BY QueuesTyped
<1> QED
  BY <1>1 DEF Adds

LEMMA AskForAdds ==
    ASSUME TypeOK, NEW kind \in {"subjoin", "subscribe"},
           NEW feeds \in Seq(Feeds), feeds # <<>>, AskFor(kind, feeds)
    PROVE  Adds(SubDetaches)
<1> DEFINE f == feeds[Len(feeds)]
           m == Msg(kind, "sub", handleId["sub"], <<f>>)
<1>1. Asks(m) /\ f \in Feeds
  BY RequestedIs DEF AskFor
<1> HIDE DEF f
<1>2. m \in Requests
  BY <1>1, RequestMade, Handling
<1>3. m \notin SubDetaches
  BY DEF SubDetaches, Msg
<1> QED
  BY <1>1, <1>2, <1>3, AsksAdd

\* What all steps do but those of the server, and the detach.
LEMMA PcAdds == ASSUME TypeOK, PcActs, ~PcDetach PROVE Adds(SubDetaches)
<1>1. CASE PcAttach
  <2>1. Asks(Msg("attach", "pub", 0, <<>>))
    BY <1>1 DEF PcAttach, PcRuns
  <2>2. Msg("attach", "pub", 0, <<>>) \in Requests /\ Msg("attach", "pub", 0, <<>>) \notin SubDetaches
    BY RequestMade DEF SubDetaches, Msg, Clients
  <2> QED
    BY <2>1, <2>2, AsksAdd
<1>2. ASSUME NEW kind \in {"join", "leave"}, PcCall(kind) PROVE Adds(SubDetaches)
  <2> DEFINE m == Msg(kind, "pub", handleId["pub"], <<>>)
  <2>1. Asks(m)
    BY <1>2 DEF PcCall, PcRuns
  <2>2. m \in Requests
    BY RequestMade, Handling
  <2>3. m \notin SubDetaches
    BY DEF SubDetaches, Msg
  <2> HIDE DEF m
  <2> QED
    BY <2>1, <2>2, <2>3, AsksAdd
<1>3. CASE PcAttached
  <2>1. (joinTask # <<>> /\ AskFor("subjoin", joinTask)) \/ UNCHANGED toServer
    BY <1>3 DEF PcAttached, JoinDue, PcRuns
  <2>2. joinTask \in Seq(Feeds)
    BY DEF TypeOK
  <2> QED
    BY <2>1, <2>2, AskForAdds, NoneAdded
<1>4. CASE PcPublishers
  <2> DEFINE feeds == Head(tasks).feeds
             m == Msg("attach", "sub", 0, <<>>)
  <2>1. (feeds # <<>> /\ SubscribeTo(feeds)) \/ UNCHANGED toServer
    BY <1>4 DEF PcPublishers, PcHears
  <2>2. feeds \in Seq(Feeds)
    <3>1. PcTake("publishers")
      BY <1>4 DEF PcPublishers, PcHears
    <3> QED
      BY <3>1, PcTakeDoes, TaskTypes DEF TakesTask
  <2>3. SubscribeTo(feeds) => AskFor("subscribe", feeds) \/ Asks(m)
    BY DEF SubscribeTo
  <2>4. m \in Requests /\ m \notin SubDetaches
    BY RequestMade DEF SubDetaches, Msg, Clients
  <2> HIDE DEF feeds, m
  <2> QED
    BY <2>1, <2>2, <2>3, <2>4, AskForAdds, AsksAdd, NoneAdded
<1>5. CASE PcNotes
  BY <1>5, PcNotesDo, NoneAdded
<1> QED
  BY <1>1, <1>2, <1>3, <1>4, <1>5 DEF PcActs

LEMMA AddedOutside ==
    ASSUME TypeOK, OutsideInv, NEW K, Adds(K), UNCHANGED <<handleId, live, room>>,
           NEW i \in 1..Len(toServer), toServer[i] \in SubDetaches
    PROVE  OutsideAt(i)'
<1>1. /\ OutsideAt(i) /\ i \in Nat /\ Len(toServer) \in Nat
      /\ \A j \in 1..(i - 1) : j \in 1..Len(toServer) /\ toServer'[j] = toServer[j]
  BY QueuesTyped DEF OutsideInv, Adds
<1>2. (Detached(i) => Detached(i)') /\ (Joins(i)' => Joins(i))
  BY <1>1 DEF Detached, Joins, Pub
<1> QED
  BY <1>1, <1>2 DEF OutsideAt, Pub

LEMMA AddsOutside ==
    ASSUME TypeOK, OutsideInv, Adds(SubDetaches), UNCHANGED <<handleId, live, room>>
    PROVE  OutsideInv'
<1> SUFFICES ASSUME NEW i \in 1..Len(toServer'), toServer'[i] \in SubDetaches
             PROVE  OutsideAt(i)'
  BY DEF OutsideInv, SubDetaches
<1>1. i \in 1..Len(toServer)
  BY QueuesTyped DEF Adds
<1>2. toServer[i] \in SubDetaches
  BY <1>1 DEF Adds
<1> QED
  BY <1>1, <1>2, AddedOutside

LEMMA DetachOutside == ASSUME TypeOK, HandlesInv, OutsideInv, PcDetach PROVE OutsideInv'
<1> DEFINE p == Msg("detach", "pub", Pub, <<>>)
           s == Msg("detach", "sub", Sub, <<>>)
           n == Len(toServer)
           mid == toServer \o Sent(p)
<1>1. toServer' = mid \o Sent(s) /\ UNCHANGED <<handleId, live, room>>
  BY DEF PcDetach, PcTake, serverVars, Pub, Sub, PcRuns
<1>2. /\ p \in Requests /\ p.kind = "detach" /\ p.who = "pub" /\ p.h = Pub /\ p \notin SubDetaches
      /\ s \in Requests
  <2>1. p \in Requests /\ s \in Requests
    BY RequestMade, Handling DEF Pub, Sub
  <2> QED
    BY <2>1 DEF SubDetaches, Msg
<1> HIDE DEF p, s
<1>3. /\ mid \in Seq(Requests)
      /\ n \in Nat /\ Len(mid) \in {n, n + 1}
      /\ \A i \in 1..n : mid[i] = toServer[i]
      /\ Len(mid) = n + 1 => mid[n + 1] = p
      /\ Pub \in mapped => Len(mid) = n + 1
  BY <1>2, QueuesTyped, SentAt
<1> HIDE DEF mid
<1>4. /\ toServer' \in Seq(Requests) /\ Len(toServer') \in {Len(mid), Len(mid) + 1}
      /\ \A i \in 1..Len(mid) : toServer'[i] = mid[i]
  BY <1>1, <1>2, <1>3, SentAt
<1> SUFFICES ASSUME NEW i \in 1..Len(toServer'), toServer'[i] \in SubDetaches
             PROVE  OutsideAt(i)'
  BY DEF OutsideInv, SubDetaches
<1>5. CASE i \in 1..n
  <2>1. Adds({})
    BY <1>3, <1>4 DEF Adds
  <2>2. toServer[i] \in SubDetaches
    BY <1>3, <1>4, <1>5
  <2> QED
    BY <1>1, <1>5, <2>1, <2>2, AddedOutside
<1>6. CASE i \notin 1..n
  <2>1. CASE Pub \in mapped
    <3>1. n + 1 \in 1..Len(mid) /\ toServer'[n + 1] = p
      BY <1>3, <1>4, <2>1
    <3>2. n + 1 \in 1..(i - 1)
      BY <1>2, <1>3, <1>4, <1>6, <3>1
    <3>3. Pub' = Pub
      BY <1>1 DEF Pub
    <3>4. Detached(i)'
      BY <1>2, <3>1, <3>2, <3>3 DEF Detached
    <3> QED
      BY <3>4 DEF OutsideAt
  <2>2. CASE Pub \notin mapped
    <3>1. Pub' \notin live'
      BY <1>1, <2>2 DEF HandlesInv, Pub
    <3> QED
      BY <3>1 DEF OutsideAt
  <2> QED
    BY <2>1, <2>2
<1> QED
  BY <1>5, <1>6

\* The server takes a request.
LEMMA Shifted ==
    ASSUME TypeOK, NEW kind, Serve(kind)
    PROVE  /\ toServer' \in Seq(Requests) /\ Len(toServer) \in Nat /\ Len(toServer') = Len(toServer) - 1
           /\ \A i \in 1..Len(toServer') :
                 i \in Nat /\ i + 1 \in 1..Len(toServer) /\ toServer'[i] = toServer[i + 1]
           /\ 1 \in 1..Len(toServer) /\ toServer[1] = Head(toServer)
<1>1. toServer \in Seq(Requests) /\ toServer # <<>> /\ toServer' = Tail(toServer)
  BY QueuesTyped DEF Serve
<1>2. /\ Tail(toServer) \in Seq(Requests)
      /\ Len(toServer) \in Nat \ {0} /\ Len(Tail(toServer)) = Len(toServer) - 1
      /\ \A i \in 1..(Len(toServer) - 1) : Tail(toServer)[i] = toServer[i + 1]
      /\ Head(toServer) = toServer[1]
  BY <1>1, TailAt
<1> QED
  BY <1>1, <1>2

LEMMA ServedOutside ==
    ASSUME TypeOK, OutsideInv, NEW kind, Serve(kind), handleId'["pub"] = handleId["pub"],
           \A h \in live' : h \in live \/ h # Pub,
           Head(toServer).kind = "detach" /\ Head(toServer).h = Pub => Pub \notin live',
           \A h \in room' : h \in room \/ (Head(toServer).kind = "join" /\ Head(toServer).h = h)
    PROVE  OutsideInv'
<1> SUFFICES ASSUME NEW i \in 1..Len(toServer'), toServer'[i] \in SubDetaches
             PROVE  OutsideAt(i)'
  BY DEF OutsideInv, SubDetaches
<1>1. /\ Len(toServer) \in Nat /\ i \in Nat /\ i + 1 \in 1..Len(toServer) /\ toServer'[i] = toServer[i + 1]
      /\ \A j \in 1..(i - 1) : j \in Nat /\ j + 1 \in 1..i /\ toServer'[j] = toServer[j + 1]
      /\ 1 \in 1..i /\ toServer[1] = Head(toServer)
  BY Shifted
<1>2. (i + 1) - 1 = i /\ \A j \in 1..i : j = 1 \/ (j - 1 \in 1..(i - 1) /\ (j - 1) + 1 = j)
  BY <1>1
<1>3. OutsideAt(i + 1) /\ Pub' = Pub
  BY <1>1 DEF OutsideInv, Pub
<1>4. CASE Detached(i + 1)
  <2>1. PICK j \in 1..i : toServer[j].kind = "detach" /\ toServer[j].who = "pub" /\ toServer[j].h = Pub
    BY <1>2, <1>4 DEF Detached
  <2>2. CASE j = 1
    <3>1. Pub' \notin live'
      BY <1>1, <1>3, <2>1, <2>2
    <3> QED
      BY <3>1 DEF OutsideAt
  <2>3. CASE j - 1 \in 1..(i - 1) /\ (j - 1) + 1 = j
    <3>1. toServer'[j - 1] = toServer[j]
      BY <1>1, <2>3
    <3>2. Detached(i)'
      BY <1>3, <2>1, <2>3, <3>1 DEF Detached
    <3> QED
      BY <3>2 DEF OutsideAt
  <2> QED
    BY <1>2, <2>2, <2>3
<1>5. CASE Pub \notin live
  <2>1. Pub' \notin live'
    BY <1>3, <1>5
  <2> QED
    BY <2>1 DEF OutsideAt
<1>6. CASE Pub \notin room /\ ~Joins(i + 1)
  <2>1. \A j \in 1..i : ~(toServer[j].kind = "join" /\ toServer[j].h = Pub)
    BY <1>2, <1>6 DEF Joins
  <2>2. ~Joins(i)'
    BY <1>1, <1>3, <2>1 DEF Joins
  <2>3. Pub' \notin room'
    BY <1>1, <1>3, <1>6, <2>1
  <2> QED
    BY <2>2, <2>3 DEF OutsideAt
<1> QED
  BY <1>3, <1>4, <1>5, <1>6 DEF OutsideAt

LEMMA AttachOutside == ASSUME TypeOK, HandlesInv, OutsideInv, ServeAttach PROVE OutsideInv'
<1>1. PICK m \in Requests, h \in Nat :
          /\ m.kind = "attach" /\ m.who \in Clients
          /\ h \notin Handles /\ h # 0
          /\ live' = live \cup {h}
          /\ handleId' = [handleId EXCEPT ![m.who] = h]
          /\ UNCHANGED room
  BY ServeAttachDoes
<1>2. Serve("attach") /\ Head(toServer).kind = "attach"
  BY HeadServed DEF ServeAttach
<1>3. CASE m.who = "sub"
  <2>1. handleId'["pub"] = handleId["pub"]
    BY <1>1, <1>3 DEF TypeOK, Clients
  <2>2. h # Pub
    BY <1>1, Handling DEF Pub
  <2> QED
    BY <1>1, <1>2, <2>1, <2>2, ServedOutside
<1>4. CASE m.who = "pub"
  <2>1. Pub' = h
    BY <1>1, <1>4 DEF Pub, TypeOK, Clients
  <2>2. h \notin room'
    BY <1>1 DEF TypeOK
  <2>3. \A r \in Waiting' : r.kind = "join" => r.h # h
    <3>1. Waiting' \subseteq Waiting
      BY <1>2, ServedDoes
    <3> QED
      BY <1>1, <3>1 DEF HandlesInv
  <2> SUFFICES ASSUME NEW i \in 1..Len(toServer')
               PROVE  ~Joins(i)'
    BY <2>1, <2>2 DEF OutsideInv, OutsideAt, SubDetaches
  <2>4. \A j \in 1..(i - 1) : j \in 1..Len(toServer')
    BY <1>2, Shifted
  <2>5. \A j \in 1..(i - 1) : toServer'[j] \in Waiting'
    BY <2>4 DEF Waiting, Elements
  <2> QED
    BY <2>1, <2>3, <2>5 DEF Joins
<1> QED
  BY <1>1, <1>3, <1>4 DEF Clients

LEMMA OutsideStep == ASSUME TypeOK, HandlesInv, OutsideInv, [Next]_vars PROVE OutsideInv'
<1>1. CASE ServeJoin
  BY <1>1, ServedOutside DEF ServeJoin, Serve
<1>2. CASE ServeLeave
  BY <1>2, ServedOutside DEF ServeLeave, Serve
<1>3. CASE ServeDetach
  BY <1>3, ServedOutside DEF ServeDetach, Serve
<1>4. ASSUME NEW kind \in {"subjoin", "subscribe"}, ServeSubscribe(kind) PROVE OutsideInv'
  BY <1>4, ServedOutside DEF ServeSubscribe, Serve
<1>5. CASE PcActs
  <2>1. UNCHANGED <<handleId, live, room>>
    BY <1>5, PcStepDoes DEF ServerKept
  <2> QED
    BY <1>5, <2>1, PcAdds, DetachOutside, AddsOutside
<1>6. ASSUME NEW f \in Feeds, Publish(f) \/ Unpublish(f) \/ Leave(f) PROVE OutsideInv'
  BY <1>6, ChangesDo, NoneAdded, AddsOutside DEF ChangeDoes
<1>7. CASE MainLeft \/ User
  BY <1>7, MainDoes, NoneAdded, AddsOutside DEF ServerKept
<1>8. CASE Still
  BY <1>8, NoneAdded, AddsOutside DEF Still, clientVars, serverVars
<1> QED
  BY <1>1, <1>2, <1>3, <1>4, <1>5, <1>6, <1>7, <1>8, AttachOutside, StepCases DEF Server

-----------------------------------------------------------------------------
(* While the publisher is in the room, each feed that publishes is         *)
(* followed, or on its way to be, or was forgotten.                        *)

Excused(f) ==
    \/ <<f, "notLast">> \in missed
    \/ <<f, "replaced">> \in missed
    \/ <<f, "dead">> \in missed /\ (dead \/ early)
Told(f) == \E t \in Coming : t.kind = "publishers" /\ t.h = Pub /\ f \in Elements(t.feeds)
ToJoin(f) == ~ran /\ f \in Elements(joinTask)
Asked(f) == \E m \in Waiting : m.kind \in {"subjoin", "subscribe"} /\ m.feeds = <<f>>

Cared(f) == Followers(f) # {} \/ Excused(f) \/ Told(f) \/ ToJoin(f) \/ Asked(f)
CareInv == Pub \in room => \A f \in Publishing : Cared(f)

\* The parts of it that most steps keep.
FollowersKept ==
    /\ UNCHANGED <<handles, live>>
    /\ \A h \in Handles : subs[h] \subseteq subs'[h]
ExcusesKept == missed \subseteq missed' /\ (dead => dead') /\ (early => early')
TasksToldKept == Pub' = Pub /\ \A t \in Coming : t.kind = "publishers" => t \in Coming'
ToJoinKept == ran' = ran /\ joinTask' = joinTask
AskedKept == \A m \in Waiting : m.kind \in {"subjoin", "subscribe"} => m \in Waiting'

LEMMA FollowersStay ==
    ASSUME TypeOK, FollowersKept, NEW f, Followers(f) # {}
    PROVE  Followers(f)' # {}
BY DEF FollowersKept, Followers, Subscribers, TypeOK

LEMMA ExcusesStay == ASSUME ExcusesKept, NEW f, Excused(f) PROVE Excused(f)'
BY DEF ExcusesKept, Excused

LEMMA ToldStays == ASSUME TasksToldKept, NEW f, Told(f) PROVE Told(f)'
BY DEF TasksToldKept, Told

LEMMA ToJoinStays == ASSUME ToJoinKept, NEW f, ToJoin(f) PROVE ToJoin(f)'
BY DEF ToJoinKept, ToJoin

LEMMA AskedStays == ASSUME AskedKept, NEW f, Asked(f) PROVE Asked(f)'
BY DEF AskedKept, Asked

CareKept ==
    /\ FollowersKept /\ ExcusesKept /\ TasksToldKept /\ ToJoinKept /\ AskedKept
    /\ Pub' \in room' => Pub \in room
    /\ Publishing' \subseteq Publishing

LEMMA CareStays == ASSUME TypeOK, CareInv, CareKept PROVE CareInv'
<1> SUFFICES ASSUME Pub' \in room', NEW f \in Publishing'
             PROVE  Cared(f)'
  BY DEF CareInv
<1>1. Cared(f)
  BY DEF CareInv, CareKept
<1>2. FollowersKept /\ ExcusesKept /\ TasksToldKept /\ ToJoinKept /\ AskedKept
  BY DEF CareKept
<1> QED
  BY <1>1, <1>2, FollowersStay, ExcusesStay, ToldStays, ToJoinStays, AskedStays DEF Cared

LEMMA SamePublishing == UNCHANGED feed => Publishing' = Publishing
BY DEF Publishing

\* A feed begins to publish, and the publisher is told.
LEMMA PublishCares ==
    ASSUME TypeOK, HandlesInv, CareInv, NEW f \in Feeds, Publish(f)
    PROVE  CareInv'
<1>1. /\ TellRoom("publishers", f)
      /\ UNCHANGED <<toServer, handleId, handles, live, room, subs, missed, joinTask, ran, early, dead>>
      /\ feed' = [feed EXCEPT ![f] = "publishing"]
  BY DEF Publish, Changes, clientVars
<1>2. Coming' = Coming \cup {Msg("publishers", "pub", h, <<f>>) : h \in room \cap mapped}
  BY <1>1, RoomToldDoes
<1>3. Publishing' \subseteq Publishing \cup {f}
  BY <1>1 DEF Publishing, TypeOK
<1> SUFFICES ASSUME Pub' \in room', NEW g \in Publishing'
             PROVE  Cared(g)'
  BY DEF CareInv
<1>4. Pub' = Pub /\ Pub \in room \cap mapped
  BY <1>1 DEF Pub, HandlesInv
<1>5. CASE g = f
  <2> DEFINE t == Msg("publishers", "pub", Pub, <<f>>)
  <2>1. t \in Coming' /\ t.kind = "publishers" /\ t.h = Pub' /\ t.feeds = <<f>>
    BY <1>2, <1>4 DEF Msg
  <2> HIDE DEF t
  <2>2. f \in Elements(<<f>>)
    BY DEF Elements
  <2>3. Told(f)'
    BY <2>1, <2>2 DEF Told
  <2> QED
    BY <1>5, <2>3 DEF Cared
<1>6. CASE g \in Publishing
  <2>1. Cared(g)
    BY <1>1, <1>4, <1>6 DEF CareInv
  <2>2. FollowersKept /\ ExcusesKept /\ TasksToldKept /\ ToJoinKept /\ AskedKept
    BY <1>1, <1>2, <1>4, SameWaiting
       DEF FollowersKept, ExcusesKept, TasksToldKept, ToJoinKept, AskedKept
  <2> QED
    BY <2>1, <2>2, FollowersStay, ExcusesStay, ToldStays, ToJoinStays, AskedStays DEF Cared
<1> QED
  BY <1>3, <1>5, <1>6

\* A feed stops, and only its own entries go.
LEMMA UnpublishCares ==
    ASSUME TypeOK, CareInv, NEW f \in Feeds, Unpublish(f)
    PROVE  CareInv'
<1>1. /\ TellRoom("unpublished", f)
      /\ UNCHANGED <<toServer, handleId, handles, live, room, joinTask, ran, early, dead>>
      /\ feed' = [feed EXCEPT ![f] = "here"]
      /\ subs' = [h \in DOMAIN subs |-> subs[h] \ {f}]
      /\ missed' = {m \in missed : m[1] # f}
  BY DEF Unpublish, Changes, clientVars
<1>2. Coming \subseteq Coming'
  BY <1>1, RoomToldDoes
<1> SUFFICES ASSUME Pub' \in room', NEW g \in Publishing'
             PROVE  Cared(g)'
  BY DEF CareInv
<1>3. g # f /\ g \in Publishing /\ Pub' = Pub
  BY <1>1 DEF Publishing, TypeOK, Pub
<1>4. Cared(g)
  BY <1>1, <1>3 DEF CareInv
<1>5. Followers(g) # {} => Followers(g)' # {}
  BY <1>1, <1>3 DEF Followers, Subscribers, TypeOK
<1>6. Excused(g) => Excused(g)'
  BY <1>1, <1>3 DEF Excused
<1>7. TasksToldKept /\ ToJoinKept /\ AskedKept
  BY <1>1, <1>2, <1>3, SameWaiting DEF TasksToldKept, ToJoinKept, AskedKept
<1> QED
  BY <1>4, <1>5, <1>6, <1>7, ToldStays, ToJoinStays, AskedStays DEF Cared

LEMMA LeaveCares ==
    ASSUME TypeOK, CareInv, NEW f \in Feeds, Leave(f)
    PROVE  CareInv'
<1>1. /\ TellRoom("leaving", f)
      /\ UNCHANGED <<toServer, handleId, handles, live, room, subs, missed, joinTask, ran, early, dead>>
      /\ feed' = [feed EXCEPT ![f] = "away"]
  BY DEF Leave, Changes, clientVars
<1>2. Coming \subseteq Coming'
  BY <1>1, RoomToldDoes
<1>3. Publishing' \subseteq Publishing
  BY <1>1 DEF Publishing, TypeOK
<1>4. FollowersKept /\ ExcusesKept /\ TasksToldKept /\ ToJoinKept /\ AskedKept
  BY <1>1, <1>2, SameWaiting
     DEF FollowersKept, ExcusesKept, TasksToldKept, ToJoinKept, AskedKept, Pub
<1> QED
  BY <1>1, <1>3, <1>4, CareStays DEF CareKept, Pub

LEMMA AttachCares == ASSUME TypeOK, HandlesInv, CareInv, ServeAttach PROVE CareInv'
<1>1. PICK m \in Requests, h \in Nat :
          /\ m.kind = "attach" /\ m.who \in Clients
          /\ h \notin Handles
          /\ Waiting = {m} \cup Waiting'
          /\ \A g \in Handles : handles'[g] = handles[g] /\ subs'[g] = subs[g]
          /\ live' = live \cup {h}
          /\ handleId' = [handleId EXCEPT ![m.who] = h]
          /\ Coming' = Coming \cup {Msg("attached", m.who, h, <<>>)}
          /\ UNCHANGED <<room, missed, joinTask, feed, ran, early, dead>>
  BY ServeAttachDoes
<1> SUFFICES ASSUME Pub' \in room', NEW f \in Publishing'
             PROVE  Cared(f)'
  BY DEF CareInv
<1>2. m.who # "pub"
  BY <1>1 DEF Pub, TypeOK, Clients
<1>3. Pub' = Pub
  BY <1>1, <1>2 DEF Pub, TypeOK, Clients
<1>4. Cared(f)
  BY <1>1, <1>3, SamePublishing DEF CareInv
<1>5. Followers(f) # {} => Followers(f)' # {}
  BY <1>1 DEF Followers, Subscribers, TypeOK
<1>6. ExcusesKept /\ TasksToldKept /\ ToJoinKept /\ AskedKept
  BY <1>1, <1>3 DEF ExcusesKept, TasksToldKept, ToJoinKept, AskedKept
<1> QED
  BY <1>4, <1>5, <1>6, ExcusesStay, ToldStays, ToJoinStays, AskedStays DEF Cared

\* Who joins is told of all that publish.
LEMMA JoinCares == ASSUME TypeOK, HandlesInv, CareInv, ServeJoin PROVE CareInv'
<1>1. PICK m \in Requests :
          /\ m.kind = "join"
          /\ Waiting = {m} \cup Waiting'
          /\ UNCHANGED <<handleId, handles, live, subs, missed, joinTask, feed, ran, early, dead>>
          /\ Coming \subseteq Coming'
          /\ \/ room' = room
             \/ /\ m.h \in live /\ room' = room \cup {m.h}
                /\ m.h \in mapped => \E t \in Coming' :
                      t.kind = "publishers" /\ t.h = m.h /\ Publishing \subseteq Elements(t.feeds)
  BY ServeJoinDoes
<1>2. Pub' = Pub /\ Publishing' = Publishing
  BY <1>1, SamePublishing DEF Pub
<1>3. FollowersKept /\ ExcusesKept /\ TasksToldKept /\ ToJoinKept /\ AskedKept
  BY <1>1, <1>2 DEF FollowersKept, ExcusesKept, TasksToldKept, ToJoinKept, AskedKept
<1>4. CASE Pub' \in room' => Pub \in room
  BY <1>2, <1>3, <1>4, CareStays DEF CareKept
<1>5. CASE Pub' \in room' /\ Pub \notin room
  <2>1. m.h = Pub /\ m.h \in mapped
    BY <1>1, <1>2, <1>5 DEF HandlesInv
  <2>2. PICK t \in Coming' : t.kind = "publishers" /\ t.h = Pub /\ Publishing \subseteq Elements(t.feeds)
    BY <1>1, <1>2, <1>5, <2>1
  <2>3. \A f \in Publishing' : Told(f)'
    BY <1>2, <2>2 DEF Told
  <2> QED
    BY <2>3 DEF CareInv, Cared
<1> QED
  BY <1>4, <1>5

LEMMA LeaveRoomCares == ASSUME TypeOK, CareInv, ServeLeave PROVE CareInv'
<1>1. PICK m \in Requests :
          /\ m.kind = "leave"
          /\ Waiting = {m} \cup Waiting'
          /\ UNCHANGED <<handleId, handles, live, subs, missed, joinTask, feed, ran, early, dead>>
          /\ Coming \subseteq Coming'
          /\ room' \subseteq room
  BY ServeLeaveDoes
<1>2. FollowersKept /\ ExcusesKept /\ TasksToldKept /\ ToJoinKept /\ AskedKept
  BY <1>1 DEF FollowersKept, ExcusesKept, TasksToldKept, ToJoinKept, AskedKept, Pub
<1> QED
  BY <1>1, <1>2, SamePublishing, CareStays DEF CareKept, Pub

\* A request is refused only after a detach or an early list.
LEMMA Refused ==
    ASSUME SubInv, ~dead, ~early, NEW kind \in {"subjoin", "subscribe"}, NEW m \in Waiting,
           m.kind = kind, m.who = "sub"
    PROVE  m.h \in live /\ ~(kind = "subjoin" <=> m.h \in members)
<1>1. m.h \in SubHandles
  BY DEF SubInv, HandlesInv, SubHandles
<1>2. m.h \in live
  BY <1>1 DEF SubInv, DeadInv
<1>3. m.h = Sub
  BY <1>1, TheSubscriber DEF SubInv, Sub
<1>4. kind = "subjoin" => members = {}
  <2>1. kind = "subjoin" => m \in SubJoins
    BY QueuesTyped DEF SubInv, SubJoins
  <2> QED
    BY <2>1 DEF SubInv, OneInv, Joining
<1>5. kind = "subscribe" => Sub \in members
  BY DEF SubInv, OneInv, Subscribing, Sub
<1> QED
  BY <1>2, <1>3, <1>4, <1>5

LEMMA SubscribeCares ==
    ASSUME SubInv, CareInv, NEW kind \in {"subjoin", "subscribe"}, ServeSubscribe(kind)
    PROVE  CareInv'
<1>1. TypeOK /\ HandlesInv
  BY DEF SubInv
<1>2. PICK m \in Requests, f \in Feeds : SubscribeServed(kind, m, f)
  BY <1>1, ServeSubscribeDoes
<1>3. /\ m.kind = kind /\ m.who = "sub" /\ m.feeds = <<f>> /\ m \in Waiting
      /\ Waiting = {m} \cup Waiting'
      /\ UNCHANGED <<handleId, handles, live, room, joinTask, feed, ran, early, dead>>
      /\ Coming \subseteq Coming' /\ missed \subseteq missed'
  BY <1>2 DEF SubscribeServed
<1>4. m.h \in Handles /\ handles[m.h] = "sub"
  BY <1>1, <1>3 DEF HandlesInv
<1> SUFFICES ASSUME Pub' \in room', NEW g \in Publishing'
             PROVE  Cared(g)'
  BY DEF CareInv
<1>5. Pub' = Pub /\ g \in Publishing /\ Cared(g)
  BY <1>3, SamePublishing DEF CareInv, Pub
<1>6. FollowersKept /\ ExcusesKept /\ TasksToldKept /\ ToJoinKept
  <2>1. \A h \in Handles : subs[h] \subseteq subs'[h]
    BY <1>2 DEF SubscribeServed
  <2> QED
    BY <1>3, <1>5, <2>1 DEF FollowersKept, ExcusesKept, TasksToldKept, ToJoinKept
<1>7. CASE ~Asked(g)
  BY <1>1, <1>5, <1>6, <1>7, FollowersStay, ExcusesStay, ToldStays, ToJoinStays DEF Cared
<1>8. CASE Asked(g) /\ g # f
  <2>1. PICK r \in Waiting : r.kind \in {"subjoin", "subscribe"} /\ r.feeds = <<g>>
    BY <1>8 DEF Asked
  <2>2. r # m
    BY <1>3, <1>8, <2>1
  <2>3. Asked(g)'
    BY <1>3, <2>1, <2>2 DEF Asked
  <2> QED
    BY <2>3 DEF Cared
<1>9. CASE g = f
  <2>1. CASE (m.h \notin live \/ (kind = "subjoin" <=> m.h \in members)) /\ <<f, "dead">> \in missed'
    <3>1. dead \/ early
      BY <1>3, <2>1, Refused
    <3>2. Excused(g)'
      BY <1>3, <1>9, <2>1, <3>1 DEF Excused
    <3> QED
      BY <3>2 DEF Cared
  <2>2. CASE m.h \in live /\ \A h \in Handles : subs'[h] = IF h = m.h THEN subs[h] \cup {f} ELSE subs[h]
    <3>1. m.h \in Followers(g)'
      BY <1>3, <1>4, <1>9, <2>2 DEF Followers, Subscribers
    <3> QED
      BY <3>1 DEF Cared
  <2>3. f \in Publishing
    BY <1>5, <1>9
  <2> QED
    BY <1>2, <2>1, <2>2, <2>3 DEF SubscribeServed
<1> QED
  BY <1>7, <1>8, <1>9

\* With the publisher in the room, no subscriber is detached.
LEMMA DetachCares ==
    ASSUME TypeOK, HandlesInv, OutsideInv, CareInv, ServeDetach
    PROVE  CareInv'
<1>1. PICK m \in Requests :
          /\ m.kind = "detach"
          /\ m = Head(toServer)
          /\ Waiting = {m} \cup Waiting' /\ Coming' = Coming
          /\ UNCHANGED <<handleId, handles, missed, joinTask, feed, ran, early, dead>>
          /\ live' = live \ {m.h}
          /\ room' = room \ {m.h}
          /\ \A h \in Handles : subs'[h] = IF h = m.h THEN {} ELSE subs[h]
  BY ServeDetachDoes
<1> SUFFICES ASSUME Pub' \in room', NEW f \in Publishing'
             PROVE  Cared(f)'
  BY DEF CareInv
<1>2. Pub' = Pub /\ Pub \in room /\ f \in Publishing
  BY <1>1, SamePublishing DEF Pub
<1>3. m \notin SubDetaches
  <2> SUFFICES ASSUME m \in SubDetaches
               PROVE  FALSE
    OBVIOUS
  <2>1. 1 \in 1..Len(toServer) /\ toServer[1] = m
    BY <1>1, Shifted DEF ServeDetach
  <2>2. OutsideAt(1)
    BY <2>1 DEF OutsideInv
  <2>3. ~Detached(1)
    BY DEF Detached
  <2> QED
    BY <1>2, <2>2, <2>3 DEF OutsideAt, HandlesInv
<1>4. handles[m.h] # "sub"
  BY <1>1, <1>3 DEF HandlesInv, SubDetaches
<1>5. Followers(f)' = Followers(f)
  BY <1>1, <1>4 DEF Followers, Subscribers, TypeOK
<1>6. ExcusesKept /\ TasksToldKept /\ ToJoinKept /\ AskedKept
  BY <1>1, <1>2 DEF ExcusesKept, TasksToldKept, ToJoinKept, AskedKept
<1> QED
  BY <1>2, <1>5, <1>6, ExcusesStay, ToldStays, ToJoinStays, AskedStays DEF CareInv, Cared

\* What the steps of plugin-client leave alone.
LEMMA TakenCares ==
    ASSUME TypeOK, NEW t, TakesTask(t)
    PROVE  /\ FollowersKept
           /\ Pub' = Pub /\ Sub' = Sub /\ Publishing' = Publishing /\ room' = room
           /\ t.kind # "publishers" => TasksToldKept
BY SamePublishing DEF TakesTask, ServerKept, FollowersKept, TasksToldKept, Pub, Sub

LEMMA PlainCares ==
    ASSUME TypeOK, CareInv, NEW t, TakesTask(t), t.kind # "publishers",
           ExcusesKept, ToJoinKept, Waiting \subseteq Waiting'
    PROVE  CareInv'
BY TakenCares, CareStays DEF CareKept, AskedKept

\* The subscriber's handle is dead only after a detach or an early list.
LEMMA SubscriberMapped ==
    ASSUME SubInv, ~dead, ~early, attached \/ \E t \in Coming : t.kind = "attached" /\ t.who = "sub"
    PROVE  Sub \in mapped
<1>1. attached => Sub \in members
  BY DEF SubInv, OneInv, Subscribing, Sub
<1>2. Sub \in members => Sub \in mapped
  BY DEF SubInv, HandlesInv, Subscribers
<1>3. ASSUME NEW t \in Coming, t.kind = "attached", t.who = "sub" PROVE Sub \in mapped
  <2>1. t.h \in SubHandles
    BY <1>3 DEF SubInv, HandlesInv, SubHandles
  <2>2. t.h = Sub /\ t.h \in live
    BY <2>1, TheSubscriber DEF SubInv, DeadInv, Sub
  <2> QED
    BY <2>2 DEF SubInv, HandlesInv
<1> QED
  BY <1>1, <1>2, <1>3

\* The feeds of a list that is asked for are asked for, or forgotten.
LEMMA AskedCares ==
    ASSUME SubInv, NEW kind \in {"subjoin", "subscribe"}, NEW feeds, AsksFor(kind, feeds),
           attached \/ \E t \in Coming : t.kind = "attached" /\ t.who = "sub",
           dead' = dead, early' = early, NEW f \in Elements(feeds)
    PROVE  Excused(f)' \/ Asked(f)'
<1>1. dead \/ early \/ Sub \in mapped
  BY SubscriberMapped
<1>2. \/ <<f, "notLast">> \in missed'
      \/ Sub \notin mapped /\ <<f, "dead">> \in missed'
      \/ \E m \in Waiting' : m.kind = kind /\ m.feeds = <<f>>
  BY DEF AsksFor, Sub
<1> QED
  BY <1>1, <1>2 DEF Excused, Asked

LEMMA AttachedCares == ASSUME SubInv, CareInv, PcAttached PROVE CareInv'
<1>1. TypeOK
  BY DEF SubInv
<1>2. PICK t \in Tasks :
          /\ TakesTask(t) /\ t.kind = "attached"
          /\ UNCHANGED <<joinTask, early, dead>>
          /\ \/ t.who = "sub" /\ ran' = TRUE /\ AsksFor("subjoin", joinTask)
             \/ UNCHANGED <<toServer, missed, ran>>
  BY <1>1, PcAttachedDoes
<1>3. CASE UNCHANGED <<toServer, missed, ran>>
  BY <1>1, <1>2, <1>3, SameWaiting, PlainCares DEF ExcusesKept, ToJoinKept
<1>4. CASE t.who = "sub" /\ AsksFor("subjoin", joinTask)
  <2> SUFFICES ASSUME Pub' \in room', NEW f \in Publishing'
               PROVE  Cared(f)'
    BY DEF CareInv
  <2>1. FollowersKept /\ TasksToldKept /\ Cared(f)
    BY <1>1, <1>2, TakenCares DEF CareInv
  <2>2. ExcusesKept /\ AskedKept
    BY <1>2, <1>4 DEF AsksFor, ExcusesKept, AskedKept
  <2>3. ASSUME ToJoin(f) PROVE Excused(f)' \/ Asked(f)'
    <3>1. t \in Coming
      BY <1>2 DEF TakesTask
    <3>2. f \in Elements(joinTask)
      BY <2>3 DEF ToJoin
    <3> QED
      BY <1>2, <1>4, <3>1, <3>2, AskedCares
  <2> QED
    BY <1>1, <2>1, <2>2, <2>3, FollowersStay, ExcusesStay, ToldStays, AskedStays DEF Cared
<1> QED
  BY <1>2, <1>3, <1>4

LEMMA PublishersCare == ASSUME SubInv, CareInv, PcPublishers PROVE CareInv'
<1>1. TypeOK /\ HandlesInv
  BY DEF SubInv
<1>2. PICK t \in Tasks :
          /\ TakesTask(t) /\ t.feeds \in Seq(Feeds)
          /\ UNCHANGED <<attached, dead>>
          /\ \/ Reusing(t.feeds)
             \/ Renewing(t.feeds)
             \/ /\ t.feeds = <<>>
                /\ UNCHANGED <<toServer, joinTask, ran, missed, early>>
  BY <1>1, PcPublishersDoes
<1> SUFFICES ASSUME Pub' \in room', NEW f \in Publishing'
             PROVE  Cared(f)'
  BY DEF CareInv
<1>3. FollowersKept /\ Pub' = Pub /\ Pub \in room /\ Cared(f)
  BY <1>1, <1>2, TakenCares DEF CareInv
<1>4. Followers(f) # {} => Cared(f)'
  BY <1>1, <1>3, FollowersStay DEF Cared
<1>5. Told(f) => Told(f)' \/ (t.h = Pub /\ f \in Elements(t.feeds))
  BY <1>2, <1>3 DEF Told, TakesTask
<1>6. CASE Reusing(t.feeds)
  <2>1. attached /\ AsksFor("subscribe", t.feeds) /\ UNCHANGED <<joinTask, ran, early>>
    BY <1>6 DEF Reusing
  <2>2. ExcusesKept /\ ToJoinKept /\ AskedKept
    BY <1>2, <2>1 DEF AsksFor, ExcusesKept, ToJoinKept, AskedKept
  <2>3. f \in Elements(t.feeds) => Excused(f)' \/ Asked(f)'
    BY <1>2, <2>1, AskedCares
  <2> QED
    BY <1>3, <1>4, <1>5, <2>2, <2>3, ExcusesStay, ToJoinStays, AskedStays DEF Cared
<1>7. CASE Renewing(t.feeds)
  <2>1. ExcusesKept /\ AskedKept
    BY <1>2, <1>7 DEF Renewing, ExcusesKept, AskedKept
  <2>2. f \in Elements(t.feeds) => ToJoin(f)'
    BY <1>7 DEF Renewing, ToJoin
  <2>3. ToJoin(f) => Excused(f)'
    BY <1>7 DEF Renewing, ToJoin, Excused
  <2> QED
    BY <1>3, <1>4, <1>5, <2>1, <2>2, <2>3, ExcusesStay, AskedStays DEF Cared
<1>8. CASE t.feeds = <<>> /\ UNCHANGED <<toServer, joinTask, ran, missed, early>>
  <2>1. ExcusesKept /\ ToJoinKept /\ AskedKept
    BY <1>2, <1>8, SameWaiting DEF ExcusesKept, ToJoinKept, AskedKept
  <2>2. Elements(t.feeds) = {}
    BY <1>2, <1>8, ElementsOf
  <2> QED
    BY <1>3, <1>4, <1>5, <2>1, <2>2, ExcusesStay, ToJoinStays, AskedStays DEF Cared
<1> QED
  BY <1>2, <1>6, <1>7, <1>8

LEMMA PcCares == ASSUME SubInv, CareInv, PcActs PROVE CareInv'
<1>1. TypeOK
  BY DEF SubInv
<1>2. CASE PcAttach
  <2>1. PICK t \in Tasks : TakesTask(t) /\ t.kind = "attach"
    BY <1>1, <1>2, PcAttachDoes
  <2> QED
    BY <1>1, <1>2, <2>1, PcAttachDoes, PlainCares DEF ExcusesKept, ToJoinKept
<1>3. ASSUME NEW kind \in {"join", "leave"}, PcCall(kind) PROVE CareInv'
  <2>1. PICK t \in Tasks : TakesTask(t) /\ t.kind = kind
    BY <1>1, <1>3, PcCallDoes
  <2> QED
    BY <1>1, <1>3, <2>1, PcCallDoes, PlainCares DEF CallsKept, ExcusesKept, ToJoinKept
<1>4. CASE PcDetach
  <2>1. PICK t \in Tasks : TakesTask(t) /\ t.kind = "detach"
    BY <1>1, <1>4, PcDetachDoes
  <2>2. dead => dead'
    BY <1>1, <1>4, PcDetachDoes
  <2>3. Waiting \subseteq Waiting' /\ UNCHANGED <<missed, joinTask, ran, early>>
    BY <1>1, <1>4, PcDetachDoes
  <2> QED
    BY <1>1, <2>1, <2>2, <2>3, PlainCares DEF ExcusesKept, ToJoinKept
<1>5. CASE PcNotes
  <2>1. PICK t \in Tasks :
            /\ TakesTask(t)
            /\ UNCHANGED <<toServer, joinTask, ran, early, dead, missed>>
            /\ t.kind = "publishers" => t.h \notin mapped
    BY <1>1, <1>5, PcNotesDo
  <2>2. ExcusesKept /\ ToJoinKept /\ AskedKept
    BY <2>1, SameWaiting DEF ExcusesKept, ToJoinKept, AskedKept
  <2>3. CASE t.kind # "publishers"
    BY <1>1, <2>1, <2>2, <2>3, SameWaiting, PlainCares
  <2>4. CASE t.h \notin mapped
    <3> SUFFICES ASSUME Pub' \in room', NEW f \in Publishing'
                 PROVE  Cared(f)'
      BY DEF CareInv
    <3>1. FollowersKept /\ Pub' = Pub /\ Pub \in room /\ Cared(f)
      BY <1>1, <2>1, TakenCares DEF CareInv
    <3>2. t.h # Pub
      BY <2>4, <3>1 DEF SubInv, HandlesInv
    <3>3. Told(f) => Told(f)'
      BY <2>1, <3>1, <3>2 DEF Told, TakesTask
    <3> QED
      BY <1>1, <2>2, <3>1, <3>3, FollowersStay, ExcusesStay, ToJoinStays, AskedStays DEF Cared
  <2> QED
    BY <2>1, <2>3, <2>4
<1> QED
  BY <1>2, <1>3, <1>4, <1>5, AttachedCares, PublishersCare DEF PcActs

LEMMA MainCares == ASSUME TypeOK, CareInv, MainLeft \/ User PROVE CareInv'
<1>1. /\ ServerKept /\ CallsKept /\ UNCHANGED toServer
      /\ \E t \in Tasks : Coming' = Coming \cup {t}
  BY MainDoes
<1>2. FollowersKept /\ ExcusesKept /\ TasksToldKept /\ ToJoinKept /\ AskedKept
  BY <1>1, SameWaiting DEF ServerKept, CallsKept, FollowersKept, ExcusesKept, TasksToldKept,
                           ToJoinKept, AskedKept, Pub
<1> QED
  BY <1>1, <1>2, SamePublishing, CareStays DEF ServerKept, CareKept, Pub

FollowInv == SubInv /\ OutsideInv /\ CareInv

LEMMA CareStep == ASSUME FollowInv, [Next]_vars PROVE CareInv'
<1>1. TypeOK /\ HandlesInv /\ SubInv /\ OutsideInv /\ CareInv
  BY DEF FollowInv, SubInv
<1>2. CASE Still
  <2>1. UNCHANGED <<toServer, tasks, handleId, joinTask, handles, live, room, subs, feed, missed, ran, early, dead>>
    BY <1>2 DEF Still, clientVars, serverVars, historyVars
  <2> QED
    BY <1>1, <2>1 DEF CareInv, Cared, Followers, Subscribers, Excused, Told, ToJoin, Asked,
                      Publishing, Pub, Coming, Waiting
<1> QED
  BY <1>1, <1>2, PublishCares, UnpublishCares, LeaveCares, AttachCares, JoinCares, LeaveRoomCares,
     SubscribeCares, DetachCares, PcCares, MainCares, StepCases DEF Server

LEMMA FollowHolds == Spec => []FollowInv
<1>1. Init => FollowInv
  <2> SUFFICES ASSUME Init
               PROVE  FollowInv
    OBVIOUS
  <2>1. OutsideInv /\ CareInv
    BY DEF Init, OutsideInv, CareInv
  <2> QED
    BY <2>1, SubInitially DEF FollowInv
<1>2. FollowInv /\ [Next]_vars => FollowInv'
  BY SubStep, OutsideStep, CareStep DEF FollowInv, SubInv
<1> QED
  BY <1>1, <1>2, PTL DEF Spec

\* While the publisher is in the room, a feed that publishes is followed, or
\* was forgotten in one of the three ways (video_room_subscriber.cpp:65-104).
THEOREM PublishersAreFollowed == Spec => []FeedsFollowed
<1>1. FollowInv => FeedsFollowed
  <2> SUFFICES ASSUME FollowInv, Quiet, Pub \in room, NEW f \in Publishing
               PROVE  Followers(f) # {} \/ Excused(f)
    BY DEF FeedsFollowed, Excused, Pub
  <2>1. Waiting = {} /\ Coming = {}
    BY DEF Quiet, Waiting, Coming, Elements
  <2>2. ran
    BY <2>1 DEF FollowInv, SubInv, RanInv
  <2> QED
    BY <2>1, <2>2 DEF FollowInv, CareInv, Cared, Told, ToJoin, Asked
<1> QED
  BY <1>1, FollowHolds, PTL

-----------------------------------------------------------------------------
(* What the list of main shows of a feed.  The notices in the queue are    *)
(* each of a visit to the room, and of one visit a notice that adds the    *)
(* feed and one that takes it off come in turn.                            *)

Shows(t, f) == t.kind = "publishers" /\ f \in Elements(t.feeds)
Hides(t, f) == t.kind \in {"unpublished", "leaving"} /\ t.feeds[1] = f

\* The visit v adds the feed f at place i of the queue q, or the feed may be in
\* the list from it already, at 0; it takes the feed off between places i and j.
\* M are the handles that are mapped, V[i] the visit of the task at i, and C
\* the visits the list may still show the feed for.
ShownAt(q, f, M, C, V, i, v) ==
    \/ i = 0 /\ v \in C
    \/ i \in 1..Len(q) /\ Shows(q[i], f) /\ q[i].h \in M /\ V[i] = v
HiddenIn(q, f, M, V, i, j, v) ==
    \E k \in 1..Len(q) : i < k /\ k < j /\ Hides(q[k], f) /\ q[k].h \in M /\ V[k] = v

\* A visit is one of a handle, who[v]; the handles in the room, R, are each on
\* one, cur[h].  Between two places where a visit adds the feed it takes it off,
\* and after all of them, if the visit goes on and the feed does not publish.
Counted(q, f, M, R, n, off, C, V, who, cur) ==
    /\ C \subseteq 1..n
    /\ \A i \in 1..Len(q) : (Shows(q[i], f) \/ Hides(q[i], f)) /\ q[i].h \in M =>
          V[i] \in 1..n /\ who[V[i]] = q[i].h
    /\ \A h \in R : h \in M /\ cur[h] \in 1..n /\ who[cur[h]] = h
    /\ \A i \in 0..Len(q), j \in 1..Len(q), v \in 1..n :
          i < j /\ ShownAt(q, f, M, C, V, i, v) /\ ShownAt(q, f, M, C, V, j, v) => HiddenIn(q, f, M, V, i, j, v)
    /\ off => \A h \in R, i \in 0..Len(q) :
          ShownAt(q, f, M, C, V, i, cur[h]) => HiddenIn(q, f, M, V, i, Len(q) + 1, cur[h])

\* Nothing that tells of the feed joins the queue; handles may go.
LEMMA CountedKeep ==
    ASSUME NEW q \in Seq(Tasks), NEW q2 \in Seq(Tasks), NEW f, NEW M, NEW M2, NEW R, NEW R2, NEW n \in Nat,
           NEW off, NEW off2, NEW C, NEW V, NEW who, NEW cur,
           Counted(q, f, M, R, n, off, C, V, who, cur),
           Len(q) <= Len(q2), \A i \in 1..Len(q) : q2[i] = q[i],
           \A i \in 1..Len(q2) : (Shows(q2[i], f) \/ Hides(q2[i], f)) /\ q2[i].h \in M2 => i <= Len(q) /\ q2[i].h \in M,
           R2 \subseteq R, R2 \subseteq M2, off2 => off
    PROVE  Counted(q2, f, M2, R2, n, off2, C, V, who, cur)
<1>1. Len(q) \in Nat /\ Len(q2) \in Nat
  OBVIOUS
<1>2. ASSUME NEW i \in 0..Len(q2), NEW v, ShownAt(q2, f, M2, C, V, i, v)
      PROVE  i \in 0..Len(q) /\ ShownAt(q, f, M, C, V, i, v) /\ (i # 0 => v \in 1..n /\ who[v] \in M2)
  BY <1>1, <1>2 DEF ShownAt, Counted
<1>3. ASSUME NEW i, NEW j \in 0..(Len(q) + 1), NEW j2 \in Nat, j <= j2, NEW v, HiddenIn(q, f, M, V, i, j, v), who[v] \in M2
      PROVE  HiddenIn(q2, f, M2, V, i, j2, v)
  <2>1. PICK k \in 1..Len(q) : i < k /\ k < j /\ Hides(q[k], f) /\ q[k].h \in M /\ V[k] = v
    BY <1>3 DEF HiddenIn
  <2>2. who[v] = q[k].h
    BY <2>1 DEF Counted
  <2>3. k \in 1..Len(q2) /\ q2[k] = q[k] /\ k < j2
    BY <1>1, <1>3, <2>1
  <2> QED
    BY <1>3, <2>1, <2>2, <2>3 DEF HiddenIn
<1>4. ASSUME NEW i \in 1..Len(q2), Shows(q2[i], f) \/ Hides(q2[i], f), q2[i].h \in M2
      PROVE  V[i] \in 1..n /\ who[V[i]] = q2[i].h
  BY <1>1, <1>4 DEF Counted
<1>5. ASSUME NEW i \in 0..Len(q2), NEW j \in 1..Len(q2), NEW v \in 1..n,
             i < j, ShownAt(q2, f, M2, C, V, i, v), ShownAt(q2, f, M2, C, V, j, v)
      PROVE  HiddenIn(q2, f, M2, V, i, j, v)
  <2>1. i \in 0..Len(q) /\ ShownAt(q, f, M, C, V, i, v)
    BY <1>2, <1>5
  <2>2. j \in 1..Len(q) /\ ShownAt(q, f, M, C, V, j, v) /\ who[v] \in M2
    BY <1>1, <1>2, <1>5
  <2>3. HiddenIn(q, f, M, V, i, j, v)
    BY <1>5, <2>1, <2>2 DEF Counted
  <2> QED
    BY <1>1, <1>3, <2>2, <2>3
<1>6. ASSUME off2, NEW h \in R2, NEW i \in 0..Len(q2), ShownAt(q2, f, M2, C, V, i, cur[h])
      PROVE  HiddenIn(q2, f, M2, V, i, Len(q2) + 1, cur[h])
  <2>1. i \in 0..Len(q) /\ ShownAt(q, f, M, C, V, i, cur[h])
    BY <1>2, <1>6
  <2>2. HiddenIn(q, f, M, V, i, Len(q) + 1, cur[h]) /\ who[cur[h]] \in M2
    BY <1>6, <2>1 DEF Counted
  <2> QED
    BY <1>1, <1>3, <2>2
<1> QED
  BY <1>4, <1>5, <1>6 DEF Counted

\* A handle comes into the room, on a visit of its own, and is told of the feeds.
LEMMA CountedJoin ==
    ASSUME NEW q \in Seq(Tasks), NEW t \in Tasks, NEW f, NEW M, NEW R, NEW h \in M, NEW n \in Nat,
           NEW off, NEW C, NEW V, NEW who, NEW cur,
           Counted(q, f, M, R, n, off, C, V, who, cur),
           t.kind = "publishers", t.h = h, Shows(t, f) => ~off
    PROVE  \E V2, who2, cur2 : Counted(Append(q, t), f, M, R \cup {h}, n + 1, off, C, V2, who2, cur2)
<1> DEFINE q2 == Append(q, t)
           V2 == [i \in 1..(Len(q) + 1) |-> IF i = Len(q) + 1 THEN n + 1 ELSE V[i]]
           who2 == [v \in 1..(n + 1) |-> IF v = n + 1 THEN h ELSE who[v]]
           cur2 == [g \in R \cup {h} |-> IF g = h THEN n + 1 ELSE cur[g]]
<1>1. /\ Len(q) \in Nat /\ Len(q2) = Len(q) + 1
      /\ \A i \in 1..Len(q) : q2[i] = q[i] /\ V2[i] = V[i]
      /\ q2[Len(q) + 1] = t /\ V2[Len(q) + 1] = n + 1
  BY AppendAt
<1>2. (\A v \in 1..n : who2[v] = who[v]) /\ who2[n + 1] = h
  OBVIOUS
<1>3. \A g \in R : g # h => cur2[g] = cur[g]
  OBVIOUS
<1>4. cur2[h] = n + 1
  OBVIOUS
<1> HIDE DEF q2, V2, who2, cur2
<1>5. ~Hides(t, f)
  BY DEF Hides
<1>6. ASSUME NEW i \in 0..Len(q2), NEW v \in 1..n, ShownAt(q2, f, M, C, V2, i, v)
      PROVE  i \in 0..Len(q) /\ ShownAt(q, f, M, C, V, i, v)
  BY <1>1, <1>6 DEF ShownAt
<1>7. ASSUME NEW i \in 0..Len(q2), ShownAt(q2, f, M, C, V2, i, n + 1)
      PROVE  i = Len(q) + 1 /\ Shows(t, f)
  <2>1. n + 1 \notin C
    BY DEF Counted
  <2>2. i # 0 /\ Shows(q2[i], f) /\ q2[i].h \in M /\ V2[i] = n + 1
    BY <1>7, <2>1 DEF ShownAt
  <2>3. i \in 1..Len(q) => V[i] \in 1..n
    BY <1>1, <2>2 DEF Counted
  <2> QED
    BY <1>1, <2>2, <2>3
<1>8. ASSUME NEW i, NEW j, NEW v, HiddenIn(q, f, M, V, i, j, v)
      PROVE  HiddenIn(q2, f, M, V2, i, j, v)
  BY <1>1, <1>8 DEF HiddenIn
<1>9. C \subseteq 1..(n + 1)
  BY DEF Counted
<1>10. ASSUME NEW i \in 1..Len(q2), Shows(q2[i], f) \/ Hides(q2[i], f), q2[i].h \in M
       PROVE  V2[i] \in 1..(n + 1) /\ who2[V2[i]] = q2[i].h
  <2>1. CASE i = Len(q) + 1
    BY <1>1, <1>2, <2>1
  <2>2. CASE i \in 1..Len(q)
    BY <1>1, <1>2, <1>10, <2>2 DEF Counted
  <2> QED
    BY <1>1, <2>1, <2>2
<1>11. \A g \in R \cup {h} : g \in M /\ cur2[g] \in 1..(n + 1) /\ who2[cur2[g]] = g
  BY <1>2, <1>3, <1>4 DEF Counted
<1>12. ASSUME NEW i \in 0..Len(q2), NEW j \in 1..Len(q2), NEW v \in 1..(n + 1),
              i < j, ShownAt(q2, f, M, C, V2, i, v), ShownAt(q2, f, M, C, V2, j, v)
       PROVE  HiddenIn(q2, f, M, V2, i, j, v)
  <2>1. v # n + 1
    BY <1>7, <1>12
  <2>2. v \in 1..n
    BY <2>1
  <2>3. i \in 0..Len(q) /\ ShownAt(q, f, M, C, V, i, v) /\ ShownAt(q, f, M, C, V, j, v) /\ j \in 1..Len(q)
    BY <1>1, <1>6, <1>12, <2>2
  <2> QED
    BY <1>8, <1>12, <2>2, <2>3 DEF Counted
<1>13. ASSUME off, NEW g \in R \cup {h}, NEW i \in 0..Len(q2), ShownAt(q2, f, M, C, V2, i, cur2[g])
       PROVE  HiddenIn(q2, f, M, V2, i, Len(q2) + 1, cur2[g])
  <2>1. g # h
    BY <1>4, <1>7, <1>13
  <2>2. g \in R /\ cur2[g] = cur[g] /\ cur[g] \in 1..n
    BY <1>3, <1>13, <2>1 DEF Counted
  <2>3. i \in 0..Len(q) /\ ShownAt(q, f, M, C, V, i, cur[g])
    BY <1>6, <1>13, <2>2
  <2>4. HiddenIn(q, f, M, V, i, Len(q) + 1, cur[g])
    BY <1>13, <2>2, <2>3 DEF Counted
  <2>5. HiddenIn(q2, f, M, V2, i, Len(q) + 1, cur[g])
    BY <1>8, <2>4
  <2> QED
    BY <1>1, <2>2, <2>5 DEF HiddenIn
<1>14. Counted(q2, f, M, R \cup {h}, n + 1, off, C, V2, who2, cur2)
  BY <1>9, <1>10, <1>11, <1>12, <1>13 DEF Counted
<1> QED
  BY <1>14 DEF q2

\* The handles in the room are told of a feed, which did not publish and does.
LEMMA CountedShow ==
    ASSUME NEW q \in Seq(Tasks), NEW told \in Seq(Tasks), NEW f, NEW M, NEW R, NEW n \in Nat,
           NEW C, NEW V, NEW who, NEW cur,
           Counted(q, f, M, R, n, TRUE, C, V, who, cur),
           \A i \in 1..Len(told) : told[i].h \in R /\ ~Hides(told[i], f),
           \A i, j \in 1..Len(told) : told[i].h = told[j].h => i = j
    PROVE  \E V2 : Counted(q \o told, f, M, R, n, FALSE, C, V2, who, cur)
<1> DEFINE q2 == q \o told
           V2 == [i \in 1..Len(q2) |-> IF i <= Len(q) THEN V[i] ELSE cur[told[i - Len(q)].h]]
<1>1. /\ Len(q) \in Nat /\ Len(told) \in Nat /\ Len(q2) = Len(q) + Len(told)
      /\ \A i \in 1..Len(q) : q2[i] = q[i] /\ V2[i] = V[i]
  BY ConcatAt
<1>2. ASSUME NEW i \in 1..Len(q2), i > Len(q)
      PROVE  /\ i - Len(q) \in 1..Len(told) /\ q2[i] = told[i - Len(q)]
             /\ V2[i] = cur[q2[i].h] /\ q2[i].h \in R /\ ~Hides(q2[i], f)
  <2>1. i - Len(q) \in 1..Len(told) /\ i = Len(q) + (i - Len(q))
    BY <1>1, <1>2
  <2>2. q2[i] = told[i - Len(q)]
    BY <2>1, ConcatAt
  <2> QED
    BY <1>1, <1>2, <2>1, <2>2
<1> HIDE DEF q2, V2
<1>3. \A h \in R : h \in M /\ cur[h] \in 1..n /\ who[cur[h]] = h
  BY DEF Counted
<1>4. ASSUME NEW i \in 0..Len(q2), i <= Len(q), NEW v, ShownAt(q2, f, M, C, V2, i, v)
      PROVE  i \in 0..Len(q) /\ ShownAt(q, f, M, C, V, i, v)
  BY <1>1, <1>4 DEF ShownAt
<1>5. ASSUME NEW i, NEW j, NEW v, HiddenIn(q, f, M, V, i, j, v)
      PROVE  HiddenIn(q2, f, M, V2, i, j, v)
  BY <1>1, <1>5 DEF HiddenIn
<1>6. ASSUME NEW i \in 1..Len(q2), Shows(q2[i], f) \/ Hides(q2[i], f), q2[i].h \in M
      PROVE  V2[i] \in 1..n /\ who[V2[i]] = q2[i].h
  <2>1. CASE i > Len(q)
    BY <1>2, <1>3, <2>1
  <2>2. CASE i \in 1..Len(q)
    BY <1>1, <1>6, <2>2 DEF Counted
  <2> QED
    BY <1>1, <2>1, <2>2
<1>7. ASSUME NEW i \in 0..Len(q2), NEW j \in 1..Len(q2), NEW v \in 1..n,
             i < j, ShownAt(q2, f, M, C, V2, i, v), ShownAt(q2, f, M, C, V2, j, v)
      PROVE  HiddenIn(q2, f, M, V2, i, j, v)
  <2>1. CASE j <= Len(q)
    <3>1. i <= Len(q) /\ j \in 1..Len(q)
      BY <1>1, <1>7, <2>1
    <3>2. i \in 0..Len(q) /\ ShownAt(q, f, M, C, V, i, v) /\ ShownAt(q, f, M, C, V, j, v)
      BY <1>4, <1>7, <2>1, <3>1
    <3> QED
      BY <1>5, <1>7, <3>1, <3>2 DEF Counted
  <2>2. CASE j > Len(q) /\ i <= Len(q)
    <3>1. i \in 0..Len(q) /\ ShownAt(q, f, M, C, V, i, v)
      BY <1>4, <1>7, <2>2
    <3>2. v = cur[q2[j].h] /\ q2[j].h \in R
      BY <1>1, <1>2, <1>7, <2>2 DEF ShownAt
    <3>3. HiddenIn(q, f, M, V, i, Len(q) + 1, v)
      BY <3>1, <3>2 DEF Counted
    <3>4. HiddenIn(q2, f, M, V2, i, Len(q) + 1, v)
      BY <1>5, <3>3
    <3> QED
      BY <1>1, <2>2, <3>4 DEF HiddenIn
  <2>3. CASE i > Len(q)
    <3>1. j > Len(q)
      BY <1>1, <1>7, <2>3
    <3>2. v = cur[q2[i].h] /\ q2[i].h \in R /\ v = cur[q2[j].h] /\ q2[j].h \in R
      BY <1>1, <1>2, <1>7, <2>3, <3>1 DEF ShownAt
    <3>3. q2[i].h = q2[j].h
      <4>1. who[cur[q2[i].h]] = q2[i].h /\ who[cur[q2[j].h]] = q2[j].h
        BY <1>3, <3>2
      <4>2. cur[q2[i].h] = cur[q2[j].h]
        BY <3>2
      <4> QED
        BY <4>1, <4>2, Zenon
    <3>4. /\ i - Len(q) \in 1..Len(told) /\ q2[i] = told[i - Len(q)]
          /\ j - Len(q) \in 1..Len(told) /\ q2[j] = told[j - Len(q)]
      BY <1>1, <1>2, <1>7, <2>3, <3>1
    <3>5. i - Len(q) = j - Len(q)
      BY <3>3, <3>4
    <3> QED
      BY <1>1, <1>7, <3>5
  <2> QED
    BY <1>1, <2>1, <2>2, <2>3
<1>8. Counted(q2, f, M, R, n, FALSE, C, V2, who, cur)
  BY <1>3, <1>6, <1>7 DEF Counted
<1> QED
  BY <1>8 DEF q2

\* They are told that a feed publishes no more, or leaves.
LEMMA CountedHide ==
    ASSUME NEW q \in Seq(Tasks), NEW told \in Seq(Tasks), NEW f, NEW M, NEW R, NEW n \in Nat,
           NEW off, NEW C, NEW V, NEW who, NEW cur,
           Counted(q, f, M, R, n, off, C, V, who, cur),
           \A i \in 1..Len(told) : told[i].h \in R /\ Hides(told[i], f),
           \A h \in R : \E i \in 1..Len(told) : told[i].h = h
    PROVE  \E V2 : Counted(q \o told, f, M, R, n, TRUE, C, V2, who, cur)
<1> DEFINE q2 == q \o told
           V2 == [i \in 1..Len(q2) |-> IF i <= Len(q) THEN V[i] ELSE cur[told[i - Len(q)].h]]
<1>1. /\ Len(q) \in Nat /\ Len(told) \in Nat /\ Len(q2) = Len(q) + Len(told)
      /\ \A i \in 1..Len(q) : q2[i] = q[i] /\ V2[i] = V[i]
  BY ConcatAt
<1>2. ASSUME NEW i \in 1..Len(told)
      PROVE  /\ Len(q) + i \in 1..Len(q2) /\ q2[Len(q) + i] = told[i]
             /\ V2[Len(q) + i] = cur[told[i].h]
  <2>1. Len(q) + i \in 1..Len(q2) /\ q2[Len(q) + i] = told[i] /\ ~(Len(q) + i <= Len(q)) /\ (Len(q) + i) - Len(q) = i
    BY <1>1, ConcatAt
  <2> QED
    BY <2>1
<1>3. ASSUME NEW i \in 1..Len(q2), i > Len(q)
      PROVE  i - Len(q) \in 1..Len(told) /\ i = Len(q) + (i - Len(q))
  BY <1>1, <1>3
<1> HIDE DEF q2, V2
<1>4. ASSUME NEW i \in 1..Len(q2), i > Len(q)
      PROVE  V2[i] = cur[q2[i].h] /\ q2[i].h \in R /\ Hides(q2[i], f)
  <2>1. PICK k \in 1..Len(told) : i = Len(q) + k
    BY <1>3, <1>4
  <2>2. q2[i] = told[k] /\ V2[i] = cur[told[k].h]
    BY <1>2, <2>1
  <2> QED
    BY <2>2
<1>5. \A h \in R : h \in M /\ cur[h] \in 1..n /\ who[cur[h]] = h
  BY DEF Counted
<1>6. ASSUME NEW i \in 0..Len(q2), NEW v, ShownAt(q2, f, M, C, V2, i, v)
      PROVE  i \in 0..Len(q) /\ ShownAt(q, f, M, C, V, i, v)
  <2>1. CASE i > Len(q)
    <3>1. i \in 1..Len(q2)
      BY <1>1, <2>1
    <3>2. Hides(q2[i], f) /\ i # 0
      BY <1>1, <1>4, <2>1, <3>1
    <3>3. Shows(q2[i], f)
      BY <1>6, <3>2 DEF ShownAt
    <3> QED
      BY <3>2, <3>3 DEF Shows, Hides
  <2>2. CASE ~(i > Len(q))
    BY <1>1, <1>6, <2>2 DEF ShownAt
  <2> QED
    BY <2>1, <2>2
<1>7. ASSUME NEW i, NEW j, NEW v, HiddenIn(q, f, M, V, i, j, v)
      PROVE  HiddenIn(q2, f, M, V2, i, j, v)
  BY <1>1, <1>7 DEF HiddenIn
<1>8. ASSUME NEW i \in 1..Len(q2), Shows(q2[i], f) \/ Hides(q2[i], f), q2[i].h \in M
      PROVE  V2[i] \in 1..n /\ who[V2[i]] = q2[i].h
  <2>1. CASE i > Len(q)
    BY <1>4, <1>5, <2>1
  <2>2. CASE i \in 1..Len(q)
    BY <1>1, <1>8, <2>2 DEF Counted
  <2> QED
    BY <1>1, <2>1, <2>2
<1>9. ASSUME NEW i \in 0..Len(q2), NEW j \in 1..Len(q2), NEW v \in 1..n,
             i < j, ShownAt(q2, f, M, C, V2, i, v), ShownAt(q2, f, M, C, V2, j, v)
      PROVE  HiddenIn(q2, f, M, V2, i, j, v)
  <2>1. i \in 0..Len(q) /\ ShownAt(q, f, M, C, V, i, v)
    BY <1>6, <1>9
  <2>2. j \in 1..Len(q) /\ ShownAt(q, f, M, C, V, j, v)
    BY <1>1, <1>6, <1>9
  <2> QED
    BY <1>7, <1>9, <2>1, <2>2 DEF Counted
<1>10. ASSUME NEW h \in R, NEW i \in 0..Len(q2), ShownAt(q2, f, M, C, V2, i, cur[h])
       PROVE  HiddenIn(q2, f, M, V2, i, Len(q2) + 1, cur[h])
  <2>1. PICK k \in 1..Len(told) : told[k].h = h
    OBVIOUS
  <2>2. Len(q) + k \in 1..Len(q2) /\ V2[Len(q) + k] = cur[h] /\ q2[Len(q) + k] = told[k]
    BY <1>2, <2>1
  <2>3. i < Len(q) + k /\ Len(q) + k < Len(q2) + 1
    BY <1>1, <1>6, <1>10
  <2>4. h \in M /\ Hides(told[k], f)
    BY <1>5
  <2> QED
    BY <2>1, <2>2, <2>3, <2>4 DEF HiddenIn
<1>11. Counted(q2, f, M, R, n, TRUE, C, V2, who, cur)
  BY <1>5, <1>8, <1>9, <1>10 DEF Counted
<1> QED
  BY <1>11 DEF q2

\* The first task is taken: the list may show the feed for one more visit, or
\* for one less.
TailCounted(q, f, M, R, n, off, C, who, cur) ==
    \E C2, V2 :
        /\ Counted(Tail(q), f, M, R, n, off, C2, V2, who, cur)
        /\ \/ Shows(Head(q), f) /\ Head(q).h \in M /\ \E v \in (1..n) \ C : C2 = C \cup {v}
           \/ Hides(Head(q), f) /\ Head(q).h \in M /\ \E v : C2 = C \ {v}
           \/ ~((Shows(Head(q), f) \/ Hides(Head(q), f)) /\ Head(q).h \in M) /\ C2 = C

LEMMA CountedTail ==
    ASSUME NEW q \in Seq(Tasks), q # <<>>, NEW f, NEW M, NEW R, NEW n \in Nat,
           NEW off, NEW C, NEW V, NEW who, NEW cur,
           Counted(q, f, M, R, n, off, C, V, who, cur)
    PROVE  TailCounted(q, f, M, R, n, off, C, who, cur)
<1> DEFINE q2 == Tail(q)
           v1 == V[1]
           adds == Shows(q[1], f) /\ q[1].h \in M
           takes == Hides(q[1], f) /\ q[1].h \in M
           C2 == IF adds THEN C \cup {v1} ELSE IF takes THEN C \ {v1} ELSE C
           V2 == [i \in 1..(Len(q) - 1) |-> V[i + 1]]
<1>1. /\ Len(q) \in Nat \ {0} /\ Len(q2) = Len(q) - 1 /\ Head(q) = q[1]
      /\ \A i \in 1..Len(q2) : i + 1 \in 1..Len(q) /\ q2[i] = q[i + 1] /\ V2[i] = V[i + 1]
  BY TailAt
<1>2. ~(adds /\ takes)
  BY DEF Shows, Hides
<1>3. adds => C2 = C \cup {v1}
  OBVIOUS
<1>4. takes => C2 = C \ {v1}
  BY <1>2
<1>5. ~adds /\ ~takes => C2 = C
  OBVIOUS
<1>6. C \subseteq 1..n /\ (adds => v1 \in 1..n)
  BY <1>1 DEF Counted
<1> HIDE DEF q2, V2, C2
<1>7. adds => v1 \notin C
  <2> SUFFICES ASSUME adds, v1 \in C
               PROVE  FALSE
    OBVIOUS
  <2>1. ShownAt(q, f, M, C, V, 0, v1) /\ ShownAt(q, f, M, C, V, 1, v1)
    BY <1>1 DEF ShownAt
  <2>2. HiddenIn(q, f, M, V, 0, 1, v1)
    BY <1>1, <1>6, <2>1 DEF Counted
  <2> QED
    BY <1>1, <2>2 DEF HiddenIn
\* A place of the queue that is left was the next one, and 0 was 0 or 1.
<1>8. ASSUME NEW i \in 0..Len(q2), NEW v, ShownAt(q2, f, M, C2, V2, i, v)
      PROVE  \E p \in {i, i + 1} :
                /\ p \in 0..Len(q) /\ ShownAt(q, f, M, C, V, p, v)
                /\ p = i => i = 0 /\ ~(takes /\ v = v1)
  <2>1. CASE i \in 1..Len(q2)
    <3>1. i + 1 \in 1..Len(q) /\ ShownAt(q, f, M, C, V, i + 1, v) /\ i + 1 # i
      BY <1>1, <1>8, <2>1 DEF ShownAt
    <3> QED
      BY <3>1
  <2>2. CASE i = 0
    <3>1. v \in C2
      BY <1>1, <1>8, <2>2 DEF ShownAt
    <3>2. CASE v \in C /\ ~(takes /\ v = v1)
      <4>1. ShownAt(q, f, M, C, V, 0, v)
        BY <3>2 DEF ShownAt
      <4> QED
        BY <1>1, <2>2, <3>2, <4>1
    <3>3. CASE ~(v \in C /\ ~(takes /\ v = v1))
      <4>1. adds /\ v = v1
        BY <1>3, <1>4, <1>5, <3>1, <3>3
      <4>2. ShownAt(q, f, M, C, V, 1, v)
        BY <1>1, <4>1 DEF ShownAt
      <4> QED
        BY <1>1, <2>2, <4>2
    <3> QED
      BY <3>2, <3>3
  <2> QED
    BY <1>1, <2>1, <2>2
<1>9. ASSUME NEW i \in 0..Len(q2), NEW p \in {i, i + 1}, NEW j \in Nat, NEW v, HiddenIn(q, f, M, V, p, j + 1, v),
             p = i => i = 0 /\ ~(takes /\ v = v1)
      PROVE  HiddenIn(q2, f, M, V2, i, j, v)
  <2>1. PICK k \in 1..Len(q) : p < k /\ k < j + 1 /\ Hides(q[k], f) /\ q[k].h \in M /\ V[k] = v
    BY <1>9 DEF HiddenIn
  <2>2. k # 1
    BY <1>9, <2>1
  <2>3. k - 1 \in 1..Len(q2) /\ i < k - 1 /\ k - 1 < j /\ (k - 1) + 1 = k
    BY <1>1, <1>9, <2>1, <2>2
  <2>4. q2[k - 1] = q[k] /\ V2[k - 1] = V[k]
    BY <1>1, <2>3
  <2> QED
    BY <2>1, <2>3, <2>4 DEF HiddenIn
<1>10. C2 \subseteq 1..n
  BY <1>3, <1>4, <1>5, <1>6
<1>11. ASSUME NEW i \in 1..Len(q2), Shows(q2[i], f) \/ Hides(q2[i], f), q2[i].h \in M
       PROVE  V2[i] \in 1..n /\ who[V2[i]] = q2[i].h
  BY <1>1, <1>11 DEF Counted
<1>12. ASSUME NEW i \in 0..Len(q2), NEW j \in 1..Len(q2), NEW v \in 1..n,
              i < j, ShownAt(q2, f, M, C2, V2, i, v), ShownAt(q2, f, M, C2, V2, j, v)
       PROVE  HiddenIn(q2, f, M, V2, i, j, v)
  <2>1. PICK p \in {i, i + 1} :
            p \in 0..Len(q) /\ ShownAt(q, f, M, C, V, p, v) /\ (p = i => i = 0 /\ ~(takes /\ v = v1))
    BY <1>8, <1>12
  <2>2. j + 1 \in 1..Len(q) /\ ShownAt(q, f, M, C, V, j + 1, v) /\ p < j + 1
    BY <1>1, <1>12, <2>1 DEF ShownAt
  <2>3. HiddenIn(q, f, M, V, p, j + 1, v)
    BY <2>1, <2>2 DEF Counted
  <2> QED
    BY <1>9, <2>1, <2>3
<1>13. ASSUME off, NEW h \in R, NEW i \in 0..Len(q2), ShownAt(q2, f, M, C2, V2, i, cur[h])
       PROVE  HiddenIn(q2, f, M, V2, i, Len(q2) + 1, cur[h])
  <2>1. PICK p \in {i, i + 1} :
            /\ p \in 0..Len(q) /\ ShownAt(q, f, M, C, V, p, cur[h])
            /\ p = i => i = 0 /\ ~(takes /\ cur[h] = v1)
    BY <1>8, <1>13
  <2>2. HiddenIn(q, f, M, V, p, Len(q) + 1, cur[h])
    BY <1>13, <2>1 DEF Counted
  <2>3. Len(q) + 1 = (Len(q2) + 1) + 1 /\ Len(q2) + 1 \in Nat
    BY <1>1
  <2> QED
    BY <1>9, <2>1, <2>2, <2>3
<1>14. Counted(q2, f, M, R, n, off, C2, V2, who, cur)
  <2>1. \A h \in R : h \in M /\ cur[h] \in 1..n /\ who[cur[h]] = h
    BY DEF Counted
  <2> QED
    BY <1>10, <1>11, <1>12, <1>13, <2>1 DEF Counted
<1>15. \/ adds /\ \E v \in (1..n) \ C : C2 = C \cup {v}
       \/ takes /\ \E v : C2 = C \ {v}
       \/ ~adds /\ ~takes /\ C2 = C
  BY <1>3, <1>4, <1>5, <1>6, <1>7
<1> QED
  BY <1>1, <1>14, <1>15 DEF q2, TailCounted

\* The last task about the feed f on the handle h adds it, or there is none and
\* the list, which shows it n times, has it.
LastShown(q, f, M, n, h) ==
    \E i \in 0..Len(q) :
        /\ (i = 0 /\ n >= 1) \/ (i \in 1..Len(q) /\ Shows(q[i], f) /\ q[i].h = h)
        /\ \A k \in 1..Len(q) : i < k => ~(Hides(q[k], f) /\ q[k].h \in M)

LEMMA LastKeep ==
    ASSUME NEW q \in Seq(Tasks), NEW q2 \in Seq(Tasks), NEW f, NEW M, NEW M2, NEW n, NEW h,
           LastShown(q, f, M, n, h),
           Len(q) <= Len(q2), \A i \in 1..Len(q) : q2[i] = q[i],
           \A i \in 1..Len(q2) : Hides(q2[i], f) /\ q2[i].h \in M2 => i <= Len(q) /\ q2[i].h \in M
    PROVE  LastShown(q2, f, M2, n, h)
<1>1. PICK i \in 0..Len(q) :
          /\ (i = 0 /\ n >= 1) \/ (i \in 1..Len(q) /\ Shows(q[i], f) /\ q[i].h = h)
          /\ \A k \in 1..Len(q) : i < k => ~(Hides(q[k], f) /\ q[k].h \in M)
  BY DEF LastShown
<1>2. i \in 0..Len(q2) /\ ((i = 0 /\ n >= 1) \/ (i \in 1..Len(q2) /\ Shows(q2[i], f) /\ q2[i].h = h))
  BY <1>1
<1>3. \A k \in 1..Len(q2) : i < k => ~(Hides(q2[k], f) /\ q2[k].h \in M2)
  BY <1>1
<1> QED
  BY <1>2, <1>3 DEF LastShown

LEMMA LastTail ==
    ASSUME NEW q \in Seq(Tasks), q # <<>>, NEW f, NEW M, NEW n \in Nat, NEW n2 \in Nat, NEW h \in M,
           LastShown(q, f, M, n, h),
           ~(Hides(Head(q), f) /\ Head(q).h \in M) => n2 >= n,
           Shows(Head(q), f) /\ Head(q).h \in M => n2 >= 1
    PROVE  LastShown(Tail(q), f, M, n2, h)
<1>1. /\ Len(q) \in Nat \ {0} /\ Len(Tail(q)) = Len(q) - 1 /\ Head(q) = q[1]
      /\ \A i \in 1..Len(Tail(q)) : i + 1 \in 1..Len(q) /\ Tail(q)[i] = q[i + 1]
  BY TailAt
<1>2. PICK i \in 0..Len(q) :
          /\ (i = 0 /\ n >= 1) \/ (i \in 1..Len(q) /\ Shows(q[i], f) /\ q[i].h = h)
          /\ \A k \in 1..Len(q) : i < k => ~(Hides(q[k], f) /\ q[k].h \in M)
  BY DEF LastShown
<1>3. CASE i \in {0, 1}
  <2>1. n2 >= 1
    <3>1. i = 0 => n2 >= 1
      BY <1>1, <1>2
    <3>2. i = 1 => n2 >= 1
      BY <1>1, <1>2
    <3> QED
      BY <1>3, <3>1, <3>2
  <2>2. \A k \in 1..Len(Tail(q)) : 0 < k => ~(Hides(Tail(q)[k], f) /\ Tail(q)[k].h \in M)
    BY <1>1, <1>2, <1>3
  <2>3. 0 \in 0..Len(Tail(q))
    BY <1>1
  <2> QED
    BY <2>1, <2>2, <2>3 DEF LastShown
<1>4. CASE i > 1
  <2>1. i - 1 \in 1..Len(Tail(q)) /\ Tail(q)[i - 1] = q[i] /\ i - 1 \in 0..Len(Tail(q))
    BY <1>1, <1>4
  <2>2. \A k \in 1..Len(Tail(q)) : i - 1 < k => ~(Hides(Tail(q)[k], f) /\ Tail(q)[k].h \in M)
    BY <1>1, <1>2, <1>4
  <2>3. Shows(Tail(q)[i - 1], f) /\ Tail(q)[i - 1].h = h
    BY <1>2, <1>4, <2>1
  <2> QED
    BY <2>1, <2>2, <2>3 DEF LastShown
<1> QED
  BY <1>3, <1>4

Notices == {"publishers", "unpublished", "leaving"}

LEMMA NoticesTell == ASSUME NEW t, t.kind \notin Notices PROVE \A f : ~Shows(t, f) /\ ~Hides(t, f)
BY DEF Notices, Shows, Hides

\* The handles whose events plugin-client hears: that of the event it is at may
\* have been taken off the map.
Acting == mapped \cup {held}
HeldInv == held # 0 => tasks # <<>> /\ Head(tasks).kind \in Events /\ Head(tasks).h = held

Telling(f) ==
    \E C, V, who, cur :
        /\ Counted(tasks, f, Acting, room, visits, f \notin Publishing, C, V, who, cur)
        /\ list[f] <= Cardinality(C)
        /\ C = {} \/ f \in known

\* A notice is on a handle that was given and names no feed twice; the list
\* shows a feed at most once for each visit that may have it there; and once
\* the last notice is taken, it shows a feed that publishes.
NamedInv ==
    \A t \in Coming : t.kind \in Notices =>
        /\ t.h \in Handles
        /\ t.kind = "publishers" => \A i, j \in 1..Len(t.feeds) : t.feeds[i] = t.feeds[j] => i = j
CountInv == \A f \in Feeds : Telling(f)
LastInv == \A f \in Publishing, h \in room : LastShown(tasks, f, Acting, list[f], h)

ListInv == HeldInv /\ NamedInv /\ CountInv /\ LastInv

\* A step that tells nothing of the feeds and takes no task.
Silent ==
    /\ \E told \in Seq(Tasks) :
          tasks' = tasks \o told /\ \A i \in 1..Len(told) : told[i].kind \notin Notices
    /\ UNCHANGED <<list, known, visits, feed>>
    /\ room' \subseteq room /\ Handles \subseteq Handles' /\ Acting' \cap Handles \subseteq Acting

\* The rooms' handles are heard, and a notice's that is not held only if mapped.
LEMMA ActingIs ==
    ASSUME TypeOK, HandlesInv
    PROVE  /\ room \subseteq Acting
           /\ held = 0 => \A h \in Handles : h \in Acting => h \in mapped
BY DEF HandlesInv, Acting, Handles

LEMMA NoneTold ==
    ASSUME TypeOK, tasks' = tasks
    PROVE  \E told \in Seq(Tasks) :
              tasks' = tasks \o told /\ \A i \in 1..Len(told) : told[i].kind \notin Notices
<1>1. tasks = tasks \o <<>> /\ <<>> \in Seq(Tasks)
  BY QueuesTyped
<1>2. \A i \in 1..Len(<<>>) : <<>>[i].kind \notin Notices
  OBVIOUS
<1> QED
  BY <1>1, <1>2, Zenon

LEMMA OneTold ==
    ASSUME TypeOK, NEW t \in Tasks, tasks' = Append(tasks, t), t.kind \notin Notices
    PROVE  \E told \in Seq(Tasks) :
              tasks' = tasks \o told /\ \A i \in 1..Len(told) : told[i].kind \notin Notices
<1>1. Append(tasks, t) = tasks \o <<t>> /\ <<t>> \in Seq(Tasks)
  BY QueuesTyped
<1>2. \A i \in 1..Len(<<t>>) : <<t>>[i].kind \notin Notices
  OBVIOUS
<1> QED
  BY <1>1, <1>2, Zenon

LEMMA ServeSilent ==
    ASSUME TypeOK, \/ ServeAttach \/ ServeLeave \/ ServeDetach
                   \/ \E kind \in {"subjoin", "subscribe"} : ServeSubscribe(kind)
    PROVE  Silent
<1>1. Len(handles) \in Nat
  BY Handling
<1>2. UNCHANGED handles => Handles' = Handles
  BY DEF Handles
<1>3. CASE ServeAttach
  <2> DEFINE m == Head(toServer)
             h == Len(handles) + 1
  <2>1. m \in Requests /\ m.who \in Clients
    BY <1>3, ServedDoes, HeadServed DEF ServeAttach
  <2>2. /\ tasks' = Append(tasks, Msg("attached", m.who, h, <<>>))
        /\ handles' = Append(handles, m.who) /\ mapped' = mapped \cup {h} /\ room' = room
        /\ UNCHANGED <<held, list, known, visits, feed>>
    BY <1>3 DEF ServeAttach, Serve, Posts
  <2>3. h \in Nat \ {0}
    BY <1>1
  <2>4. Msg("attached", m.who, h, <<>>) \in Tasks
    BY <2>1, <2>3, TaskMade
  <2>5. Msg("attached", m.who, h, <<>>).kind \notin Notices
    BY DEF Msg, Notices
  <2>6. Len(handles') = h /\ h \notin Handles
    BY <1>1, <2>1, <2>2, AppendAt DEF TypeOK, Handles
  <2>7. Handles \subseteq Handles' /\ Acting' \cap Handles \subseteq Acting
    BY <1>1, <2>2, <2>6 DEF Handles, Acting
  <2> QED
    BY <2>2, <2>4, <2>5, <2>7, OneTold DEF Silent
<1>4. CASE ServeLeave
  <2>1. /\ tasks' = Append(tasks, Msg("left", "pub", Head(toServer).h, <<>>))
        /\ room' \subseteq room /\ UNCHANGED <<handles, mapped, held, list, known, visits, feed>>
    BY <1>4 DEF ServeLeave, Serve, Posts
  <2>2. Head(toServer).h \in Nat
    BY <1>4, ServedDoes DEF ServeLeave
  <2>3. Msg("left", "pub", Head(toServer).h, <<>>) \in Tasks
    BY <2>2, TaskMade
  <2>4. Msg("left", "pub", Head(toServer).h, <<>>).kind \notin Notices
    BY DEF Msg, Notices
  <2> QED
    BY <1>2, <2>1, <2>3, <2>4, OneTold DEF Silent, Acting
<1>5. CASE ServeDetach
  <2>1. /\ tasks' = tasks /\ room' \subseteq room /\ mapped' \subseteq mapped
        /\ UNCHANGED <<handles, held, list, known, visits, feed>>
    BY <1>5 DEF ServeDetach, Serve
  <2> QED
    BY <1>2, <2>1, NoneTold DEF Silent, Acting
<1>6. ASSUME NEW kind \in {"subjoin", "subscribe"}, ServeSubscribe(kind) PROVE Silent
  <2> DEFINE t == Msg("subscribed", "sub", Head(toServer).h, <<>>)
  <2>1. /\ UNCHANGED <<handles, mapped, held, room, list, known, visits, feed>>
        /\ tasks' = tasks \/ tasks' = Append(tasks, t)
    BY <1>6 DEF ServeSubscribe, Serve, Tells, Posts
  <2>2. Head(toServer).h \in Nat
    BY <1>6, ServedDoes DEF ServeSubscribe
  <2>3. t \in Tasks
    BY <2>2, TaskMade
  <2>4. t.kind \notin Notices
    BY DEF Msg, Notices
  <2> HIDE DEF t
  <2> QED
    BY <1>2, <2>1, <2>3, <2>4, NoneTold, OneTold DEF Silent, Acting
<1> QED
  BY <1>3, <1>4, <1>5, <1>6

LEMMA MainSilent == ASSUME TypeOK, MainLeft \/ User PROVE Silent
<1>1. PICK kind \in Calls :
          /\ tasks' = Append(tasks, Msg(kind, "pub", 0, <<>>))
          /\ UNCHANGED <<list, known, visits, feed, room, handles, mapped, held>>
  BY DEF MainLeft, User, UserCall, Main, Calls, clientVars, serverVars, historyVars
<1>2. Msg(kind, "pub", 0, <<>>) \in Tasks
  BY TaskMade
<1>3. Msg(kind, "pub", 0, <<>>).kind \notin Notices
  BY DEF Msg, Notices, Calls
<1>4. Handles' = Handles
  BY <1>1 DEF Handles
<1> QED
  BY <1>1, <1>2, <1>3, <1>4, OneTold DEF Silent, Acting

\* What a step that adds to the queue does to the notices in it.
LEMMA SilentLists ==
    ASSUME TypeOK, TypeOK', HandlesInv', HeldInv', ListInv, Silent
    PROVE  ListInv'
<1>1. PICK told \in Seq(Tasks) : tasks' = tasks \o told /\ \A i \in 1..Len(told) : told[i].kind \notin Notices
  BY DEF Silent
<1>2. /\ tasks \in Seq(Tasks) /\ tasks' \in Seq(Tasks)
      /\ Len(tasks) \in Nat /\ Len(told) \in Nat /\ Len(tasks') = Len(tasks) + Len(told)
      /\ \A i \in 1..Len(tasks) : tasks'[i] = tasks[i]
      /\ \A i \in 1..Len(told) : tasks'[Len(tasks) + i] = told[i]
  BY <1>1, QueuesTyped, ConcatAt
<1>3. Publishing' = Publishing
  BY SamePublishing DEF Silent
<1>4. ASSUME NEW i \in 1..Len(tasks'), i > Len(tasks) PROVE tasks'[i].kind \notin Notices
  <2>1. i - Len(tasks) \in 1..Len(told) /\ i = Len(tasks) + (i - Len(tasks))
    BY <1>2, <1>4
  <2>2. tasks'[i] = told[i - Len(tasks)]
    BY <1>2, <2>1
  <2> QED
    BY <1>1, <2>1, <2>2
<1>5. ASSUME NEW i \in 1..Len(tasks), tasks[i].kind \in Notices PROVE tasks[i].h \in Handles
  <2>1. tasks[i] \in Coming
    BY DEF Coming, Elements
  <2> QED
    BY <1>5, <2>1 DEF ListInv, NamedInv
<1>6. ASSUME NEW f, NEW i \in 1..Len(tasks'), Shows(tasks'[i], f) \/ Hides(tasks'[i], f), tasks'[i].h \in Acting'
      PROVE  i <= Len(tasks) /\ tasks'[i].h \in Acting
  <2>1. tasks'[i].kind \in Notices
    BY <1>6, NoticesTell
  <2>2. i \in 1..Len(tasks) /\ tasks'[i] = tasks[i]
    BY <1>2, <1>4, <2>1
  <2>3. tasks[i].h \in Handles
    BY <1>5, <2>1, <2>2
  <2> QED
    BY <1>2, <1>6, <2>2, <2>3 DEF Silent
<1>7. NamedInv'
  <2>1. \A t \in Coming' : t \in Coming \/ t.kind \notin Notices
    <3>1. Coming' = Coming \cup Elements(told)
      BY <1>1, <1>2, ElementsConcat DEF Coming
    <3> QED
      BY <1>1, <3>1 DEF Elements
  <2> QED
    BY <2>1 DEF ListInv, NamedInv, Silent
<1>8. room' \subseteq room /\ room' \subseteq Acting' /\ UNCHANGED <<list, known, visits>>
  BY DEF Silent, HandlesInv, Acting
<1>9. ASSUME NEW f \in Feeds PROVE Telling(f)'
  <2>1. PICK C, V, who, cur :
            /\ Counted(tasks, f, Acting, room, visits, f \notin Publishing, C, V, who, cur)
            /\ list[f] <= Cardinality(C)
            /\ C = {} \/ f \in known
    BY DEF ListInv, CountInv, Telling
  <2>2. visits \in Nat /\ Len(tasks) <= Len(tasks')
    BY <1>2 DEF TypeOK
  <2>3. \A i \in 1..Len(tasks') : (Shows(tasks'[i], f) \/ Hides(tasks'[i], f)) /\ tasks'[i].h \in Acting'
            => i <= Len(tasks) /\ tasks'[i].h \in Acting
    BY <1>6
  <2>4. Counted(tasks', f, Acting', room', visits, f \notin Publishing, C, V, who, cur)
    <3> DEFINE off == f \notin Publishing
               q == tasks
               q2 == tasks'
               R2 == room'
               M2 == Acting'
    <3>1. q \in Seq(Tasks) /\ q2 \in Seq(Tasks) /\ visits \in Nat
      BY <1>2, <2>2
    <3>2. Counted(q, f, Acting, room, visits, off, C, V, who, cur)
      BY <2>1
    <3>3. Len(q) <= Len(q2) /\ \A i \in 1..Len(q) : q2[i] = q[i]
      BY <1>2, <2>2
    <3>4. \A i \in 1..Len(q2) : (Shows(q2[i], f) \/ Hides(q2[i], f)) /\ q2[i].h \in M2 => i <= Len(q) /\ q2[i].h \in Acting
      BY <2>3
    <3>5. R2 \subseteq room /\ R2 \subseteq M2
      BY <1>8
    <3> HIDE DEF off, q, q2, R2, M2
    <3>6. Counted(q2, f, M2, R2, visits, off, C, V, who, cur)
      BY <3>1, <3>2, <3>3, <3>4, <3>5, CountedKeep, SMTT(30), ZenonT(60)
    <3> QED
      BY <3>6 DEF off, q2, R2, M2
  <2> QED
    BY <1>3, <1>8, <2>1, <2>4 DEF Telling
<1>10. LastInv'
  <2> SUFFICES ASSUME NEW f \in Publishing', NEW h \in room'
               PROVE  LastShown(tasks', f, Acting', list'[f], h)
    BY DEF LastInv
  <2>1. LastShown(tasks, f, Acting, list[f], h)
    BY <1>3, <1>8 DEF ListInv, LastInv
  <2>2. \A i \in 1..Len(tasks') : Hides(tasks'[i], f) /\ tasks'[i].h \in Acting'
            => i <= Len(tasks) /\ tasks'[i].h \in Acting
    BY <1>6
  <2>3. Len(tasks) <= Len(tasks')
    BY <1>2
  <2> QED
    BY <1>2, <1>8, <2>1, <2>2, <2>3, LastKeep
<1> QED
  BY <1>7, <1>9, <1>10 DEF ListInv, CountInv

LEMMA JoinLists ==
    ASSUME TypeOK, TypeOK', HandlesInv, HandlesInv', HeldInv', ListInv, ServeJoin
    PROVE  ListInv'
<1> DEFINE h == Head(toServer).h
<1>1. UNCHANGED <<handles, mapped, held, list, known, feed>> /\ Acting' = Acting
  BY DEF ServeJoin, Serve, Acting
<1>2. Handles' = Handles /\ Publishing' = Publishing
  BY <1>1, SamePublishing DEF Handles
<1>3. CASE h \notin live \ room
  <2>1. UNCHANGED <<room, visits, tasks>>
    BY <1>3 DEF ServeJoin
  <2>2. Silent
    BY <1>1, <1>2, <2>1, NoneTold DEF Silent
  <2> QED
    BY <2>2, SilentLists
<1>4. CASE h \in live \ room
  <2>1. PICK order \in Orders(Publishing) :
            /\ room' = room \cup {h} /\ visits' = visits + 1
            /\ Tells("publishers", "pub", h, order)
    BY <1>4 DEF ServeJoin
  <2> DEFINE t == Msg("publishers", "pub", h, order)
  <2>2. h \in Handles /\ h \in mapped /\ h \in Acting /\ h \in Nat
    BY <1>4, Handling DEF HandlesInv, TypeOK, Acting
  <2>3. tasks' = Append(tasks, t)
    BY <2>1, <2>2 DEF Tells, Posts
  <2>4. /\ order \in Seq(Publishing) /\ Elements(order) = Publishing
        /\ \A i, j \in 1..Len(order) : order[i] = order[j] => i = j
    BY <2>1, PublishingFinite, OrderOf DEF Orders
  <2>5. order \in Seq(Feeds)
    <3>1. Publishing \subseteq Feeds
      BY DEF Publishing
    <3> QED
      BY <2>4, <3>1
  <2>6. t \in Tasks
    BY <2>2, <2>5, TaskMade
  <2>7. t.kind = "publishers" /\ t.h = h /\ t.feeds = order
    BY DEF Msg
  <2>8. \A f : Shows(t, f) <=> f \in Publishing
    BY <2>4, <2>7 DEF Shows
  <2> HIDE DEF t, h
  <2>9. /\ tasks \in Seq(Tasks) /\ tasks' \in Seq(Tasks) /\ Len(tasks) \in Nat
        /\ Len(tasks') = Len(tasks) + 1
        /\ \A i \in 1..Len(tasks) : tasks'[i] = tasks[i]
        /\ tasks'[Len(tasks) + 1] = t
        /\ Coming' = Coming \cup {t}
    BY <2>3, <2>6, QueuesTyped, AppendAt, PostedShape
  <2>10. NamedInv'
    BY <1>2, <2>2, <2>4, <2>7, <2>9 DEF ListInv, NamedInv
  <2>11. ASSUME NEW f \in Feeds PROVE Telling(f)'
    <3>1. PICK C, V, who, cur :
              /\ Counted(tasks, f, Acting, room, visits, f \notin Publishing, C, V, who, cur)
              /\ list[f] <= Cardinality(C)
              /\ C = {} \/ f \in known
      BY DEF ListInv, CountInv, Telling
    <3>2. visits \in Nat
      BY DEF TypeOK
    <3>3. PICK V2, who2, cur2 :
              Counted(Append(tasks, t), f, Acting, room \cup {h}, visits + 1, f \notin Publishing, C, V2, who2, cur2)
      BY <2>2, <2>6, <2>7, <2>8, <2>9, <3>1, <3>2, CountedJoin
    <3> QED
      BY <1>1, <1>2, <2>1, <2>3, <3>1, <3>3 DEF Telling
  <2>12. LastInv'
    <3> SUFFICES ASSUME NEW f \in Publishing', NEW g \in room'
                 PROVE  LastShown(tasks', f, Acting', list'[f], g)
      BY DEF LastInv
    <3>1. CASE g = h
      <4>1. Len(tasks') \in 0..Len(tasks') /\ Len(tasks') \in 1..Len(tasks')
        BY <2>9
      <4>2. Shows(tasks'[Len(tasks')], f) /\ tasks'[Len(tasks')].h = g
        BY <1>2, <2>7, <2>8, <2>9, <3>1
      <4>3. \A k \in 1..Len(tasks') : ~(Len(tasks') < k)
        BY <2>9
      <4> QED
        BY <4>1, <4>2, <4>3 DEF LastShown
    <3>2. CASE g # h
      <4>1. LastShown(tasks, f, Acting, list[f], g)
        BY <1>2, <2>1, <3>2 DEF ListInv, LastInv
      <4>2. \A i \in 1..Len(tasks') : Hides(tasks'[i], f) /\ tasks'[i].h \in Acting
                => i <= Len(tasks) /\ tasks'[i].h \in Acting
        BY <2>7, <2>9 DEF Hides
      <4>3. Len(tasks) <= Len(tasks')
        BY <2>9
      <4>4. LastShown(tasks', f, Acting, list[f], g)
        BY <2>9, <4>1, <4>2, <4>3, LastKeep
      <4> QED
        BY <1>1, <4>4
    <3> QED
      BY <3>1, <3>2
  <2> QED
    BY <2>10, <2>11, <2>12 DEF ListInv, CountInv
<1> QED
  BY <1>3, <1>4

\* The room is told of a change of the feed f.
LEMMA ChangeLists ==
    ASSUME TypeOK, TypeOK', HandlesInv, HeldInv', ListInv,
           NEW f \in Feeds, Publish(f) \/ Unpublish(f) \/ Leave(f)
    PROVE  ListInv'
<1>1. PICK kind \in Notices :
          /\ TellRoom(kind, f)
          /\ feed' \in {[feed EXCEPT ![f] = s] : s \in {"away", "here", "publishing"}}
          /\ IF kind = "publishers" THEN f \notin Publishing /\ f \in Publishing' ELSE f \notin Publishing'
  BY DEF Publish, Unpublish, Leave, Changes, Notices, Publishing, TypeOK
<1>2. UNCHANGED <<handles, mapped, held, room, visits, list, known>> /\ Acting' = Acting
  BY DEF Publish, Unpublish, Leave, Changes, clientVars, Acting
<1>3. ASSUME NEW g \in Feeds, g # f PROVE g \in Publishing <=> g \in Publishing'
  <2>1. PICK s : feed' = [feed EXCEPT ![f] = s]
    BY <1>1
  <2>2. feed'[g] = feed[g]
    BY <1>3, <2>1 DEF TypeOK
  <2> QED
    BY <2>2 DEF Publishing
<1>4. PICK told \in Seq(Tasks) :
          /\ tasks' = tasks \o told
          /\ \A i \in 1..Len(told) : \E h \in room \cap mapped : told[i] = Msg(kind, "pub", h, <<f>>)
          /\ \A h \in room \cap mapped : \E i \in 1..Len(told) : told[i] = Msg(kind, "pub", h, <<f>>)
          /\ \A i, j \in 1..Len(told) : told[i].h = told[j].h => i = j
  BY <1>1, RoomTold DEF Notices
<1>5. room \cap mapped = room /\ room \subseteq Acting
  BY ActingIs DEF HandlesInv
<1>6. \A h : /\ Msg(kind, "pub", h, <<f>>).kind = kind
             /\ Msg(kind, "pub", h, <<f>>).h = h
             /\ Msg(kind, "pub", h, <<f>>).feeds = <<f>>
  BY DEF Msg
<1>7. \A i \in 1..Len(told) : told[i].kind = kind /\ told[i].h \in room /\ told[i].feeds = <<f>>
  <2> SUFFICES ASSUME NEW i \in 1..Len(told)
               PROVE  told[i].kind = kind /\ told[i].h \in room /\ told[i].feeds = <<f>>
    OBVIOUS
  <2>1. PICK h \in room : told[i] = Msg(kind, "pub", h, <<f>>)
    BY <1>4, <1>5
  <2> QED
    BY <1>6, <2>1
<1>8. \A h \in room : \E i \in 1..Len(told) : told[i].h = h
  <2> SUFFICES ASSUME NEW h \in room
               PROVE  \E i \in 1..Len(told) : told[i].h = h
    OBVIOUS
  <2>1. PICK i \in 1..Len(told) : told[i] = Msg(kind, "pub", h, <<f>>)
    BY <1>4, <1>5
  <2> QED
    BY <1>6, <2>1
<1>9. Elements(<<f>>) = {f}
  BY DEF Elements
<1>10. \A i \in 1..Len(told) :
          /\ Shows(told[i], f) <=> kind = "publishers"
          /\ Hides(told[i], f) <=> kind # "publishers"
          /\ \A g : g # f => ~Shows(told[i], g) /\ ~Hides(told[i], g)
  <2>1. <<f>>[1] = f
    OBVIOUS
  <2> QED
    BY <1>1, <1>7, <1>9, <2>1 DEF Shows, Hides, Notices
<1>11. /\ tasks \in Seq(Tasks) /\ tasks' \in Seq(Tasks)
       /\ Len(tasks) \in Nat /\ Len(told) \in Nat /\ Len(tasks') = Len(tasks) + Len(told)
       /\ \A i \in 1..Len(tasks) : tasks'[i] = tasks[i]
       /\ \A i \in 1..Len(told) : tasks'[Len(tasks) + i] = told[i]
       /\ Coming' = Coming \cup Elements(told)
  BY <1>4, QueuesTyped, ConcatAt, ElementsConcat DEF Coming
<1>12. ASSUME NEW i \in 1..Len(tasks'), i > Len(tasks)
       PROVE  \E j \in 1..Len(told) : i = Len(tasks) + j /\ tasks'[i] = told[j]
  <2>1. i - Len(tasks) \in 1..Len(told) /\ i = Len(tasks) + (i - Len(tasks))
    BY <1>11, <1>12
  <2> QED
    BY <1>11, <2>1
\* What is said of another feed, or takes this one off if the change adds it,
\* was there before.
<1>13. ASSUME NEW g, NEW i \in 1..Len(tasks'),
              \/ g # f /\ (Shows(tasks'[i], g) \/ Hides(tasks'[i], g))
              \/ kind = "publishers" /\ Hides(tasks'[i], g)
       PROVE  i <= Len(tasks) /\ tasks'[i] = tasks[i]
  <2>1. CASE i > Len(tasks)
    <3>1. PICK j \in 1..Len(told) : tasks'[i] = told[j]
      BY <1>12, <2>1
    <3> QED
      BY <1>10, <1>13, <3>1
  <2> QED
    BY <1>11, <2>1
<1>14. NamedInv'
  <2> SUFFICES ASSUME NEW t \in Coming', t.kind \in Notices
               PROVE  /\ t.h \in Handles
                      /\ t.kind = "publishers" => \A i, j \in 1..Len(t.feeds) : t.feeds[i] = t.feeds[j] => i = j
    BY <1>2 DEF NamedInv, Handles
  <2>1. CASE t \in Coming
    BY <2>1 DEF ListInv, NamedInv
  <2>2. CASE t \in Elements(told)
    <3>1. t.h \in room /\ t.feeds = <<f>>
      BY <1>7, <2>2 DEF Elements
    <3>2. t.h \in Handles
      BY <3>1 DEF TypeOK
    <3>3. \A i \in 1..Len(<<f>>) : i = 1
      OBVIOUS
    <3> QED
      BY <3>1, <3>2, <3>3
  <2> QED
    BY <1>11, <2>1, <2>2
<1>15. ASSUME NEW g \in Feeds PROVE Telling(g)'
  <2>1. PICK C, V, who, cur :
            /\ Counted(tasks, g, Acting, room, visits, g \notin Publishing, C, V, who, cur)
            /\ list[g] <= Cardinality(C)
            /\ C = {} \/ g \in known
    BY DEF ListInv, CountInv, Telling
  <2>2. visits \in Nat
    BY DEF TypeOK
  <2>3. CASE g # f
    <3>1. \A i \in 1..Len(tasks') : (Shows(tasks'[i], g) \/ Hides(tasks'[i], g)) /\ tasks'[i].h \in Acting
              => i <= Len(tasks) /\ tasks'[i].h \in Acting
      BY <1>13, <2>3
    <3>2. Len(tasks) <= Len(tasks') /\ room \subseteq Acting
      BY <1>5, <1>11
    <3>3. g \notin Publishing' => g \notin Publishing
      BY <1>3, <2>3
    <3>4. Counted(tasks', g, Acting, room, visits, g \notin Publishing', C, V, who, cur)
      BY <1>11, <2>1, <2>2, <3>1, <3>2, <3>3, CountedKeep
    <3> QED
      BY <1>2, <2>1, <3>4 DEF Telling
  <2>4. CASE g = f /\ kind = "publishers"
    <3>1. Counted(tasks, f, Acting, room, visits, TRUE, C, V, who, cur)
      BY <1>1, <2>1, <2>4 DEF Counted
    <3>2. PICK V2 : Counted(tasks \o told, f, Acting, room, visits, FALSE, C, V2, who, cur)
      BY <1>4, <1>7, <1>10, <1>11, <2>2, <2>4, <3>1, CountedShow
    <3>3. Counted(tasks', f, Acting, room, visits, f \notin Publishing', C, V2, who, cur)
      BY <1>1, <1>4, <2>4, <3>2 DEF Counted
    <3> QED
      BY <1>2, <2>1, <2>4, <3>3 DEF Telling
  <2>5. CASE g = f /\ kind # "publishers"
    <3>1. PICK V2 : Counted(tasks \o told, f, Acting, room, visits, TRUE, C, V2, who, cur)
      BY <1>7, <1>8, <1>10, <1>11, <2>1, <2>2, <2>5, CountedHide
    <3>2. Counted(tasks', f, Acting, room, visits, f \notin Publishing', C, V2, who, cur)
      BY <1>4, <3>1 DEF Counted
    <3> QED
      BY <1>2, <2>1, <2>5, <3>2 DEF Telling
  <2> QED
    BY <2>3, <2>4, <2>5
<1>16. LastInv'
  <2> SUFFICES ASSUME NEW g \in Publishing', NEW h \in room
               PROVE  LastShown(tasks', g, Acting, list[g], h)
    BY <1>2 DEF LastInv
  <2>1. CASE g # f
    <3>1. g \in Publishing
      BY <1>3, <2>1 DEF Publishing
    <3>2. LastShown(tasks, g, Acting, list[g], h)
      BY <3>1 DEF ListInv, LastInv
    <3>3. \A i \in 1..Len(tasks') : Hides(tasks'[i], g) /\ tasks'[i].h \in Acting
              => i <= Len(tasks) /\ tasks'[i].h \in Acting
      BY <1>13, <2>1
    <3>4. Len(tasks) <= Len(tasks')
      BY <1>11
    <3> QED
      BY <1>11, <3>2, <3>3, <3>4, LastKeep
  <2>2. CASE g = f
    <3>1. kind = "publishers"
      BY <1>1, <2>2
    <3>2. PICK j \in 1..Len(told) : told[j].h = h
      BY <1>8
    <3>3. Len(tasks) + j \in 1..Len(tasks') /\ Len(tasks) + j \in 0..Len(tasks') /\ tasks'[Len(tasks) + j] = told[j]
      BY <1>11
    <3>4. \A k \in 1..Len(tasks') : Len(tasks) + j < k => ~Hides(tasks'[k], f)
      BY <1>11, <1>13, <3>1
    <3>5. Shows(told[j], f)
      BY <1>10, <3>1
    <3> QED
      BY <2>2, <3>2, <3>3, <3>4, <3>5 DEF LastShown
  <2> QED
    BY <2>1, <2>2
<1> QED
  BY <1>14, <1>15, <1>16 DEF ListInv, CountInv

\* A task of plugin-client changes what the list shows of a feed as the notice
\* says, if its client is called.
TakesNotice(t, f) ==
    \/ Shows(t, f) /\ t.h \in Acting /\ f \in known' /\ list'[f] = list[f] + 1
    \/ /\ Hides(t, f) /\ t.h \in Acting
       /\ list'[f] = IF f \in known /\ list[f] > 0 THEN list[f] - 1 ELSE list[f]
    \/ ~((Shows(t, f) \/ Hides(t, f)) /\ t.h \in Acting) /\ list'[f] = list[f]

LEMMA OccursOnce ==
    ASSUME NEW f, NEW s \in Seq(Feeds), \A i, j \in 1..Len(s) : s[i] = s[j] => i = j
    PROVE  /\ f \in Elements(s) => Occurrences(f, s) = 1
           /\ f \notin Elements(s) => Occurrences(f, s) = 0
<1> DEFINE I == {i \in 1..Len(s) : s[i] = f}
<1>1. ASSUME f \in Elements(s) PROVE Cardinality(I) = 1
  <2>1. PICK i \in 1..Len(s) : s[i] = f
    BY <1>1 DEF Elements
  <2>2. I = {i}
    BY <2>1
  <2> QED
    BY <2>2, FS_Singleton
<1>2. ASSUME f \notin Elements(s) PROVE Cardinality(I) = 0
  <2>1. I = {}
    BY <1>2 DEF Elements
  <2> QED
    BY <2>1, FS_EmptySet
<1> QED
  BY <1>1, <1>2 DEF Occurrences

LEMMA PcTakes ==
    ASSUME TypeOK, HandlesInv, HeldInv, NamedInv, PcActs
    PROVE  /\ tasks # <<>> /\ tasks' = Tail(tasks)
           /\ UNCHANGED <<handles, room, feed, visits>>
           /\ known \subseteq known'
           /\ Acting' \subseteq Acting \cup {0}
           /\ \A f \in Feeds : TakesNotice(Head(tasks), f)
<1> DEFINE t == Head(tasks)
<1>1. PICK kind : PcTake(kind) /\ held' \in {0, held}
  <2>1. CASE PcDrops
    BY <2>1, PcDropsDo
  <2>2. CASE PcNotes /\ ~PcDrops
    BY <2>2 DEF PcNotes, PcRemove, PcSubscribed, PcLeft, PcRuns, PcHears
  <2>3. CASE ~PcNotes
    BY <2>3 DEF PcActs, PcAttach, PcCall, PcDetach, PcAttached, PcPublishers, PcRuns, PcHears
  <2> QED
    BY <2>1, <2>2, <2>3
<1>2. /\ tasks # <<>> /\ tasks' = Tail(tasks) /\ t \in Tasks /\ t \in Coming /\ t.kind = kind
      /\ UNCHANGED <<mapped, handles, room, feed, visits>>
  BY <1>1, HeadTaken, PcTakeDoes DEF TakesTask
<1>3. Acting' \subseteq Acting \cup {0}
  BY <1>1, <1>2 DEF Acting
<1>4. ASSUME NEW k, PcHears(k) PROVE t.h \in Acting
  BY <1>4 DEF PcHears, HeldInv, Acting
<1>5. CASE PcPublishers
  <2>1. t.kind = "publishers" /\ t.feeds \in Seq(Feeds) /\ t.h \in Acting
    BY <1>2, <1>4, <1>5, TaskTypes DEF PcPublishers, PcTake, PcHears
  <2>2. \A i, j \in 1..Len(t.feeds) : t.feeds[i] = t.feeds[j] => i = j
    BY <1>2, <2>1 DEF NamedInv, Notices
  <2>3. \A f : ~Hides(t, f) /\ (Shows(t, f) <=> f \in Elements(t.feeds))
    BY <2>1 DEF Hides, Shows
  <2>4. CASE t.feeds # <<>>
    <3>1. /\ known' = known \cup Elements(t.feeds)
          /\ list' = [f \in Feeds |-> list[f] + Occurrences(f, t.feeds)]
      BY <1>5, <2>4 DEF PcPublishers, PcHears
    <3> HIDE DEF t
    <3>2. ASSUME NEW f \in Feeds PROVE TakesNotice(t, f)
      <4>1. list'[f] = list[f] + Occurrences(f, t.feeds) /\ list[f] \in Nat
        BY <3>1 DEF TypeOK
      <4>2. CASE f \in Elements(t.feeds)
        <5>1. list'[f] = list[f] + 1
          BY <2>1, <2>2, <4>1, <4>2, OccursOnce
        <5> QED
          BY <2>1, <2>3, <3>1, <4>2, <5>1 DEF TakesNotice
      <4>3. CASE f \notin Elements(t.feeds)
        <5>1. list'[f] = list[f]
          BY <2>1, <2>2, <4>1, <4>3, OccursOnce
        <5> QED
          BY <2>3, <4>3, <5>1 DEF TakesNotice
      <4> QED
        BY <4>2, <4>3
    <3> QED
      BY <1>2, <1>3, <3>1, <3>2 DEF t
  <2>5. CASE t.feeds = <<>>
    <3>1. UNCHANGED <<known, list>>
      BY <1>5, <2>5 DEF PcPublishers, PcHears
    <3>2. t.feeds = <<>> => Elements(t.feeds) = {}
      BY DEF Elements
    <3> HIDE DEF t
    <3>3. \A f \in Feeds : TakesNotice(t, f)
      BY <2>3, <2>5, <3>1, <3>2 DEF TakesNotice
    <3> QED
      BY <1>2, <1>3, <3>1, <3>3 DEF t
  <2> QED
    BY <2>4, <2>5
<1>6. ASSUME NEW k \in {"unpublished", "leaving"}, PcRemove(k)
      PROVE  known \subseteq known' /\ \A f \in Feeds : TakesNotice(t, f)
  <2> DEFINE g == t.feeds[1]
  <2>1. t.kind = k /\ UNCHANGED known /\ t.h \in Acting
        /\ list' = IF g \in known THEN TakeOff(g) ELSE list
    BY <1>4, <1>6 DEF PcRemove, PcTake, PcHears
  <2>2. \A f : ~Shows(t, f) /\ (Hides(t, f) <=> f = g)
    BY <2>1 DEF Shows, Hides
  <2>3. list \in [Feeds -> Nat]
    BY DEF TypeOK
  <2> HIDE DEF t, g
  <2>4. \A f \in Feeds : TakeOff(g)[f] = IF f = g /\ list[g] > 0 THEN list[g] - 1 ELSE list[f]
    BY <2>3 DEF TakeOff
  <2>5. ASSUME NEW f \in Feeds PROVE TakesNotice(t, f)
    <3>1. CASE g \in known
      BY <2>1, <2>2, <2>4, <3>1 DEF TakesNotice
    <3>2. CASE g \notin known
      BY <2>1, <2>2, <3>2 DEF TakesNotice
    <3> QED
      BY <3>1, <3>2
  <2> QED
    BY <2>1, <2>5
<1>7. CASE PcDrops
  <2>1. UNCHANGED <<known, list>> /\ t.h \notin mapped /\ held = 0
    BY <1>7, PcDropsDo DEF PcDrops, PcFetch
  <2>2. t.kind \in Notices => t.h \in Handles
    BY <1>2 DEF NamedInv
  <2>3. t.kind \in Notices => t.h \notin Acting
    BY <2>1, <2>2, ActingIs
  <2> HIDE DEF t
  <2>4. \A f \in Feeds : TakesNotice(t, f)
    BY <2>1, <2>3, NoticesTell DEF TakesNotice
  <2> QED
    BY <1>2, <1>3, <2>1, <2>4 DEF t
<1>8. CASE \/ PcAttach \/ PcCall("join") \/ PcCall("leave") \/ PcDetach
           \/ PcAttached \/ PcSubscribed \/ PcLeft
  <2>1. t.kind \notin Notices /\ UNCHANGED <<known, list>>
    BY <1>8 DEF PcAttach, PcCall, PcDetach, PcAttached, PcSubscribed, PcLeft, PcTake, Keeps, Notices, PcRuns, PcHears
  <2> HIDE DEF t
  <2>2. \A f \in Feeds : TakesNotice(t, f)
    BY <2>1, NoticesTell DEF TakesNotice
  <2> QED
    BY <1>2, <1>3, <2>1, <2>2 DEF t
<1> QED
  BY <1>2, <1>3, <1>5, <1>6, <1>7, <1>8 DEF PcActs, PcNotes

LEMMA PcLists == ASSUME TypeOK, TypeOK', HandlesInv, HandlesInv', HeldInv', ListInv, PcActs PROVE ListInv'
<1> DEFINE t == Head(tasks)
<1>1. /\ tasks # <<>> /\ tasks' = Tail(tasks)
      /\ UNCHANGED <<handles, room, feed, visits>>
      /\ known \subseteq known'
      /\ Acting' \subseteq Acting \cup {0}
      /\ \A f \in Feeds : TakesNotice(t, f)
  BY PcTakes DEF ListInv
<1>2. Publishing' = Publishing /\ Handles' = Handles
  BY <1>1, SamePublishing DEF Handles
<1>3. tasks \in Seq(Tasks) /\ Coming' \subseteq Coming
  BY QueuesTyped, PcStepDoes
<1>4. NamedInv'
  BY <1>2, <1>3 DEF ListInv, NamedInv
<1>5. \A f \in Feeds : list[f] \in Nat /\ list'[f] \in Nat
  BY DEF TypeOK
<1>6. visits \in Nat
  BY DEF TypeOK
\* The handle that is not held any more takes its events along.
<1>7. /\ Tail(tasks) \in Seq(Tasks)
      /\ \A i \in 1..Len(Tail(tasks)) : Tail(tasks)[i].kind \in Notices /\ Tail(tasks)[i].h \in Acting'
            => Tail(tasks)[i].h \in Acting
      /\ room \subseteq Acting'
  <2>1. Tail(tasks) \in Seq(Tasks)
    BY <1>1, <1>3
  <2>2. ASSUME NEW i \in 1..Len(Tail(tasks)), Tail(tasks)[i].kind \in Notices, Tail(tasks)[i].h \in Acting'
        PROVE  Tail(tasks)[i].h \in Acting
    <3>1. Tail(tasks)[i] \in Coming'
      BY <1>1 DEF Coming, Elements
    <3>2. Tail(tasks)[i].h \in Handles
      BY <1>2, <1>4, <2>2, <3>1 DEF NamedInv
    <3>3. Tail(tasks)[i].h # 0
      BY <3>2 DEF Handles
    <3> QED
      BY <1>1, <2>2, <3>3
  <2>3. room \subseteq Acting'
    BY <1>1 DEF HandlesInv, Acting
  <2> QED
    BY <2>1, <2>2, <2>3
<1>8. ASSUME NEW f \in Feeds PROVE Telling(f)'
  <2>1. PICK C, V, who, cur :
            /\ Counted(tasks, f, Acting, room, visits, f \notin Publishing, C, V, who, cur)
            /\ list[f] <= Cardinality(C)
            /\ C = {} \/ f \in known
    BY DEF ListInv, CountInv, Telling
  <2> HIDE DEF t
  <2>2. PICK C2, V2 :
            /\ Counted(Tail(tasks), f, Acting, room, visits, f \notin Publishing, C2, V2, who, cur)
            /\ \/ Shows(t, f) /\ t.h \in Acting /\ \E v \in (1..visits) \ C : C2 = C \cup {v}
               \/ Hides(t, f) /\ t.h \in Acting /\ \E v : C2 = C \ {v}
               \/ ~((Shows(t, f) \/ Hides(t, f)) /\ t.h \in Acting) /\ C2 = C
    <3>1. TailCounted(tasks, f, Acting, room, visits, f \notin Publishing, C, who, cur)
      BY <1>1, <1>3, <1>6, <2>1, CountedTail
    <3> QED
      BY <3>1 DEF TailCounted, t
  <2>3. IsFiniteSet(C) /\ Cardinality(C) \in Nat
    <3>1. C \subseteq 1..visits
      BY <2>1 DEF Counted
    <3>2. IsFiniteSet(1..visits)
      BY <1>6, FS_Interval
    <3> QED
      BY <3>1, <3>2, FS_Subset, FS_CardinalityType
  <2> HIDE DEF t
  <2>4. ~(Shows(t, f) /\ Hides(t, f)) /\ TakesNotice(t, f)
    BY <1>1 DEF Shows, Hides
  <2>5. list'[f] <= Cardinality(C2) /\ (C2 = {} \/ f \in known')
    <3>1. CASE Shows(t, f) /\ t.h \in Acting
      <4>1. PICK v \in (1..visits) \ C : C2 = C \cup {v}
        BY <2>2, <2>4, <3>1
      <4>2. Cardinality(C2) = Cardinality(C) + 1
        BY <2>3, <4>1, FS_AddElement
      <4>3. f \in known' /\ list'[f] = list[f] + 1
        BY <2>4, <3>1 DEF TakesNotice
      <4> QED
        BY <1>5, <2>1, <2>3, <4>2, <4>3
    <3>2. CASE Hides(t, f) /\ t.h \in Acting
      <4>1. PICK v : C2 = C \ {v}
        BY <2>2, <2>4, <3>2
      <4>2. Cardinality(C2) = IF v \in C THEN Cardinality(C) - 1 ELSE Cardinality(C)
        BY <2>3, <4>1, FS_RemoveElement
      <4>3. Cardinality(C2) \in Nat
        BY <2>3, <4>1, FS_RemoveElement, FS_CardinalityType
      <4>4. list'[f] = IF f \in known /\ list[f] > 0 THEN list[f] - 1 ELSE list[f]
        BY <2>4, <3>2 DEF TakesNotice
      <4>5. C = {} => C2 = {} /\ v \notin C
        BY <4>1
      <4>6. list'[f] <= Cardinality(C2)
        BY <1>5, <2>1, <2>3, <4>2, <4>3, <4>4, <4>5
      <4> QED
        BY <1>1, <2>1, <4>5, <4>6
    <3>3. CASE ~((Shows(t, f) \/ Hides(t, f)) /\ t.h \in Acting)
      BY <1>1, <2>1, <2>2, <2>4, <3>3 DEF TakesNotice
    <3> QED
      BY <3>1, <3>2, <3>3
  <2>6. Counted(Tail(tasks), f, Acting', room, visits, f \notin Publishing, C2, V2, who, cur)
    <3> DEFINE off == f \notin Publishing
               q == Tail(tasks)
               M2 == Acting'
    <3>1. \A i \in 1..Len(q) : (Shows(q[i], f) \/ Hides(q[i], f)) /\ q[i].h \in M2 => i <= Len(q) /\ q[i].h \in Acting
      BY <1>7, NoticesTell
    <3>2. q \in Seq(Tasks) /\ Counted(q, f, Acting, room, visits, off, C2, V2, who, cur)
      BY <1>7, <2>2
    <3>3. room \subseteq M2 /\ Len(q) <= Len(q)
      BY <1>7
    <3> HIDE DEF off, q, M2
    <3>4. Counted(q, f, M2, room, visits, off, C2, V2, who, cur)
      BY <1>6, <3>1, <3>2, <3>3, CountedKeep
    <3> QED
      BY <3>4 DEF off, q, M2
  <2> QED
    BY <1>1, <1>2, <2>5, <2>6 DEF Telling
<1>9. LastInv'
  <2> SUFFICES ASSUME NEW f \in Publishing, NEW h \in room
               PROVE  LastShown(Tail(tasks), f, Acting', list'[f], h)
    BY <1>1, <1>2 DEF LastInv
  <2>1. LastShown(tasks, f, Acting, list[f], h) /\ f \in Feeds /\ h \in Acting
    BY ActingIs DEF ListInv, LastInv, Publishing
  <2> HIDE DEF t
  <2>2. ~(Shows(t, f) /\ Hides(t, f)) /\ TakesNotice(t, f)
    BY <1>1, <2>1 DEF Shows, Hides
  <2>3. ~(Hides(t, f) /\ t.h \in Acting) => list'[f] >= list[f]
    BY <1>5, <2>1, <2>2 DEF TakesNotice
  <2>4. Shows(t, f) /\ t.h \in Acting => list'[f] >= 1
    BY <1>5, <2>1, <2>2 DEF TakesNotice
  <2>5. LastShown(Tail(tasks), f, Acting, list'[f], h)
    BY <1>1, <1>3, <1>5, <2>1, <2>3, <2>4, LastTail DEF t
  <2>6. \A i \in 1..Len(Tail(tasks)) : Hides(Tail(tasks)[i], f) /\ Tail(tasks)[i].h \in Acting'
            => i <= Len(Tail(tasks)) /\ Tail(tasks)[i].h \in Acting
    BY <1>7, NoticesTell
  <2>7. Len(Tail(tasks)) <= Len(Tail(tasks))
    BY <1>7
  <2> QED
    BY <1>7, <2>5, <2>6, <2>7, LastKeep
<1> QED
  BY <1>4, <1>8, <1>9 DEF ListInv, CountInv

LEMMA ListInitially == ASSUME Init PROVE ListInv
<1>1. /\ tasks = <<>> /\ room = {} /\ visits = 0 /\ Len(tasks) = 0 /\ Coming = {}
      /\ \A f \in Feeds : list[f] = 0
  BY DEF Init, Coming, Elements
<1>2. ASSUME NEW f \in Feeds PROVE Telling(f)
  <2>1. Counted(tasks, f, Acting, room, visits, f \notin Publishing, {}, <<>>, <<>>, <<>>)
    BY <1>1 DEF Counted, ShownAt
  <2>2. list[f] <= Cardinality({})
    BY <1>1, FS_EmptySet
  <2> QED
    BY <2>1, <2>2 DEF Telling
<1> QED
  BY <1>1, <1>2 DEF Init, ListInv, HeldInv, NamedInv, CountInv, LastInv

\* The event whose client is held stays at the head until it is heard.
LEMMA HeldStep == ASSUME TypeOK, TypeOK', HeldInv, [Next]_vars PROVE HeldInv'
<1>1. ASSUME NEW told \in Seq(Tasks), tasks' = tasks \o told, held' = held PROVE HeldInv'
  <2>1. tasks # <<>> => tasks' # <<>> /\ Head(tasks') = Head(tasks)
    <3>1. tasks \in Seq(Tasks) /\ tasks' \in Seq(Tasks) /\ Len(tasks) \in Nat
      BY DEF TypeOK, Tasks
    <3>2. tasks # <<>> => Len(tasks') > 0 /\ 1 \in 1..Len(tasks) /\ Len(tasks) > 0
      BY <1>1, <3>1, ConcatAt
    <3>3. tasks # <<>> => tasks'[1] = tasks[1]
      BY <1>1, <3>1, <3>2, ConcatAt
    <3> QED
      BY <3>1, <3>2, <3>3
  <2> QED
    BY <1>1, <2>1 DEF HeldInv
<1>2. ASSUME held' = held,
             Silent \/ tasks' = tasks
      PROVE  HeldInv'
  BY <1>1, <1>2, NoneTold DEF Silent
<1>3. CASE ServeAttach \/ ServeLeave \/ ServeDetach \/ ServeSubscribe("subjoin") \/ ServeSubscribe("subscribe")
  <2>1. held' = held
    BY <1>3 DEF ServeAttach, ServeLeave, ServeDetach, ServeSubscribe, Serve
  <2> QED
    BY <1>2, <1>3, <2>1, ServeSilent
<1>4. CASE MainLeft \/ User
  <2>1. held' = held
    BY <1>4 DEF MainLeft, User, UserCall, Main
  <2> QED
    BY <1>2, <1>4, <2>1, MainSilent
<1>5. ASSUME NEW f \in Feeds, Publish(f) \/ Unpublish(f) \/ Leave(f) PROVE HeldInv'
  <2>1. PICK kind \in Notices : TellRoom(kind, f) /\ held' = held
    BY <1>5 DEF Publish, Unpublish, Leave, Changes, Notices
  <2>2. PICK told \in Seq(Tasks) : tasks' = tasks \o told
    BY <2>1, RoomTold DEF Notices
  <2> QED
    BY <1>1, <2>1, <2>2
<1>6. CASE ServeJoin
  <2>1. held' = held
    BY <1>6 DEF ServeJoin, Serve
  <2>2. tasks' = tasks \/ \E t \in Tasks : tasks' = Append(tasks, t)
    <3>1. Head(toServer).h \in Nat
      BY <1>6, ServedDoes DEF ServeJoin
    <3>2. ASSUME NEW order \in Orders(Publishing)
          PROVE  Msg("publishers", "pub", Head(toServer).h, order) \in Tasks
      <4>1. order \in Seq(Publishing) /\ Publishing \subseteq Feeds
        BY <3>2, PublishingFinite, OrderOf DEF Orders, Publishing
      <4>2. order \in Seq(Feeds)
        BY <4>1
      <4> QED
        BY <3>1, <4>2, TaskMade
    <3>3. tasks' = tasks \/ \E order \in Orders(Publishing) : Tells("publishers", "pub", Head(toServer).h, order)
      BY <1>6 DEF ServeJoin
    <3> QED
      BY <3>2, <3>3 DEF Tells, Posts
  <2>3. ASSUME NEW t \in Tasks, tasks' = Append(tasks, t) PROVE HeldInv'
    <3>1. tasks' = tasks \o <<t>> /\ <<t>> \in Seq(Tasks)
      BY <2>3, QueuesTyped
    <3> QED
      BY <1>1, <2>1, <3>1
  <2> QED
    BY <1>2, <2>1, <2>2, <2>3
<1>7. CASE PcFetch
  BY <1>7 DEF PcFetch, HeldInv
<1>8. CASE PcPublishers \/ PcSubscribed \/ PcRemove("unpublished") \/ PcRemove("leaving")
  BY <1>8 DEF PcPublishers, PcSubscribed, PcRemove, PcHears, HeldInv
<1>9. CASE PcAttach \/ PcCall("join") \/ PcCall("leave") \/ PcDetach \/ PcAttached \/ PcLeft
  <2>1. held' = held /\ Head(tasks).kind \notin Events
    BY <1>9 DEF PcAttach, PcCall, PcDetach, PcAttached, PcLeft, PcRuns, PcTake, Events
  <2> QED
    BY <2>1 DEF HeldInv
<1>10. CASE UNCHANGED vars
  BY <1>10 DEF vars, HeldInv
<1> QED
  BY <1>3, <1>4, <1>5, <1>6, <1>7, <1>8, <1>9, <1>10 DEF Next, Server, PcStep

LEMMA ListStep ==
    ASSUME TypeOK, TypeOK', HandlesInv, HandlesInv', ListInv, [Next]_vars
    PROVE  ListInv'
<1>1. HeldInv /\ HeldInv'
  BY HeldStep DEF ListInv
<1>2. CASE Server
  BY <1>1, <1>2, ChangeLists, ServeSilent, SilentLists, JoinLists DEF Server
<1>3. CASE PcActs
  BY <1>1, <1>3, PcLists
<1>4. CASE MainLeft \/ User
  BY <1>1, <1>4, MainSilent, SilentLists
<1>5. CASE Still /\ held' \in mapped \cup {held}
  <2>1. UNCHANGED <<tasks, handles, mapped, room, feed, visits, list, known>>
    BY <1>5 DEF Still, clientVars, serverVars, historyVars
  <2>2. Acting' \cap Handles \subseteq Acting
    BY <1>5, <2>1 DEF Acting, Handles
  <2>3. Silent
    BY <2>1, <2>2, NoneTold DEF Silent, Handles
  <2> QED
    BY <1>1, <2>3, SilentLists
<1> QED
  BY <1>2, <1>3, <1>4, <1>5, StepCases

\* When nothing is on its way, the list shows a feed at most once for each visit
\* there was, a feed that publishes once at least while the client is in the
\* room, and one that does not not for the visit that goes on
\* (participants_list_view.cpp:26-73, ui.cpp:148-157).
THEOREM ListIsCounted == Spec => []ListCounts
<1>1. ListInv /\ TypeOK => ListCounts
  <2> SUFFICES ASSUME ListInv, TypeOK, Quiet, NEW f \in Feeds
               PROVE  /\ list[f] <= visits
                      /\ room # {} => IF f \in Publishing THEN list[f] >= 1 ELSE list[f] <= visits - 1
    BY DEF ListCounts
  <2>1. tasks = <<>> /\ Len(tasks) = 0 /\ visits \in Nat /\ list[f] \in Nat
    BY DEF Quiet, TypeOK
  <2>2. PICK C, V, who, cur :
            /\ Counted(tasks, f, Acting, room, visits, f \notin Publishing, C, V, who, cur)
            /\ list[f] <= Cardinality(C)
    BY DEF ListInv, CountInv, Telling
  <2>3. C \subseteq 1..visits /\ IsFiniteSet(1..visits) /\ Cardinality(1..visits) = visits
    <3>1. C \subseteq 1..visits
      BY <2>2 DEF Counted
    <3>2. IsFiniteSet(1..visits) /\ Cardinality(1..visits) = visits
      BY <2>1, FS_Interval
    <3> QED
      BY <3>1, <3>2
  <2>4. IsFiniteSet(C) /\ Cardinality(C) \in Nat /\ Cardinality(C) <= visits
    BY <2>3, FS_Subset, FS_CardinalityType
  <2>5. ASSUME NEW h \in room, f \in Publishing PROVE list[f] >= 1
    <3>1. LastShown(tasks, f, Acting, list[f], h)
      BY <2>5 DEF ListInv, LastInv
    <3> QED
      BY <2>1, <3>1 DEF LastShown
  <2>6. ASSUME NEW h \in room, f \notin Publishing PROVE list[f] <= visits - 1
    <3>1. cur[h] \in 1..visits
      BY <2>2 DEF Counted
    <3>2. cur[h] \notin C
      <4> SUFFICES ASSUME cur[h] \in C
                   PROVE  FALSE
        OBVIOUS
      <4>1. ShownAt(tasks, f, Acting, C, V, 0, cur[h]) /\ 0 \in 0..Len(tasks)
        BY <2>1 DEF ShownAt
      <4>2. HiddenIn(tasks, f, Acting, V, 0, Len(tasks) + 1, cur[h])
        BY <2>2, <2>6, <4>1 DEF Counted
      <4> QED
        BY <2>1, <4>2 DEF HiddenIn
    <3>3. C \subseteq (1..visits) \ {cur[h]}
      BY <2>3, <3>2
    <3>4. /\ IsFiniteSet((1..visits) \ {cur[h]})
          /\ Cardinality((1..visits) \ {cur[h]}) = visits - 1
      BY <2>3, <3>1, FS_RemoveElement
    <3>5. Cardinality(C) <= Cardinality((1..visits) \ {cur[h]})
      BY <3>3, <3>4, FS_Subset
    <3> QED
      BY <2>1, <2>2, <2>4, <3>4, <3>5
  <2> QED
    BY <2>1, <2>2, <2>4, <2>5, <2>6
<1>2. Init => ListInv
  BY ListInitially
<1>3. TypeOK /\ TypeOK' /\ HandlesInv /\ HandlesInv' /\ ListInv /\ [Next]_vars => ListInv'
  BY ListStep
<1>4. SubInv => TypeOK /\ HandlesInv
  BY DEF SubInv
<1> QED
  BY <1>1, <1>2, <1>3, <1>4, SubHolds, PTL DEF Spec
=============================================================================
