# janus-client: specifications, model checks and proofs

`janus-client` is a Windows/Qt client of the Janus WebRTC gateway, in C++ on top of
WebRTC's `rtc::Thread`. Its own code is `src/RTCSDK` (signaling, plugin clients, video
room, utilities) and `src/UI`; `src/3rd` is vendored. The repository has no tests. What
makes it hard to get right is that nearly every operation crosses threads: each
`rtc::Thread` is a queue of tasks, callbacks are wrapped to run on another thread than the
one that completes them, and proxies turn a call into a task that the caller waits for.

## The system

Threads: `main` (Qt), `signaling-service` (the signaling client and its callbacks),
`plugin-client` (plugin clients, negotiation), `message-transport` (look-up of callbacks),
`capture-session`, the websocket thread of asio, WebRTC's own threads, and one thread for
every `TaskScheduler` (heartbeat, statistics).

| component | state | operations | interacts with | hard parts | what makes it correct |
|---|---|---|---|---|---|
| WebSocket endpoint (`websocket/`) | `_connectionList`, `_nextId`, status of each connection | connect, sendText, handlers | asio thread calls the listener | the id is known only after connect has begun; handlers do not name their connection; the list is unlocked | texts go out on a connection that exists, arrivals are passed on in order |
| Message transport | `_connectionId`, `_callbacksMap` | connect, send, onOpen/Fail/Close/TextMessage | callers on two threads, asio thread, `message-transport` | send before register; two paths for replies and notifications | each callback runs at most once, with its own reply, in order of arrival |
| Janus API client | none but its listener | one request per method, `wrapAsyncCallback` | posts to `signaling-service` | transactions drawn from the clock | a transaction identifies a request |
| Signaling client | `_connected`, `_sessionStatus`, `_sessionId`, `_pluginClientMap`, heartbeat | connect, attach, sendMessage, sendTrickleCandidate, hangup, detach, cleanup, handlers | proxied from `main` and `plugin-client`, posts to `plugin-client` | state written on one thread and read on another; looking a handle up twice; reconnecting | handles live through attach, events, detach in that order; calls return |
| Plugin client | handle id, PeerConnection, streams, SDP, candidates, flags | attach, prepareWebrtc, createOffer/Answer, handleRemoteJsep, onTrickle, OnIceCandidate, onCleanup | signaling client, WebRTC's callbacks on its signaling thread | the context is shared without a lock; callbacks complete after a clean-up; offers build on what earlier ones left | an SDP is handed over once and fresh; candidates are not lost; nothing survives a clean-up; what is sent can be muted |
| Video room, subscriber, participants, media controller | room, publishers, subscriptions, tracks and mute state | join, publish, subscribe, leave; events of the server | plugin client, UI adapters | a subscriber attached behind the back of a detach; lists that come while it is; what a visit leaves for the next | the subscriptions and the list follow the publishers |
| Task scheduler | `_taskIdSet`, a thread | schedule, cancel, cancelAll, the tasks | heartbeat, statistics | a lock held across a join; a reference that outlives the lock | a cancelled task does not run again; cancelAll ends |
| Proxies and threads | queue of each thread | Invoke | all | synchronous calls between threads | no two threads wait for each other |
| Observers | weak observers with thread names | add, remove, notify | all | expiry and removal while a copy is gone through or a notice is queued | one notice per observer and event, in order of the notifying thread |
| SDP utilities, JSON models, capture, rendering, logging, factories | | | | text, data or output only | not modelled |

`PROJECT.json` lists every component with its files and the hazards with their lines.

## The modules

**`RequestReply`** is the abstract promise of the transport: what arrives has one order;
arrivals are consumed in it, each once at most; a reply completes one call asked under its
transaction, and a call is completed once at most.

**`MessageTransport`** is the detailed path of a request: `JanusApiClient`,
`MessageTransport` and `WebsocketEndpoint`. A call is one invocation of a `JanusApiClient`
method. Its action `SendText` is the first half of `send()`, `Register` the second half,
under the mutex; `ConnectBegin` and `ConnectEnd` split `connect()` in the same way, since the
websocket thread may report before the id is assigned. `OnOpen`, `OnFail`, `OnClose`,
`OnReply` and `OnEvent` are the handlers on the websocket thread, each posting to
`message-transport` (`mtQueue`); `MtReply` and `MtNotify` run there and post to
`signaling-service` (`ssQueue`), where `SsCallback` and `SsNotify` run.
`inbox`, `runs` and `last` are history. `randomString` computes its text from the clock
alone, so the model takes the tick of the clock for the text. A text from the network
arrives in a later tick than what was done before it: a round trip takes longer than a tick.

**`HandleLife`** is what a plugin client is promised of each handle: told once that it is
attached, and given its events only after that, one at a time. Once the detach was answered,
no event is given any more, but the one that was already on its way into the client is still
heard (`giving`): that is as much as the code can promise, since nothing keeps the handle in
the map while its client is called.

**`SignalingClient`** is the session and the handles, on `signaling-service` and
`plugin-client`. A public operation is a task of `ssQueue`; a caller on `plugin-client` has
`waiting` set until it was run, as in `SynchronousMethodCall::Invoke`. Each callback that the
code posts to `_eventHandlerThread` is a task of `pcQueue`. One action `Ss...` or `Pc...` runs
one kind of task. `getHandler` looks a handle up twice; on `signaling-service`, which alone
erases, that is one step (`Handled`). On `plugin-client` the task of an event or a clean-up
takes three: the first look-up (`PcFind`), the second, which returns the pointer (`PcFetch`,
`held`), and the call through that pointer (`PcDeliver`, `PcCleanup`), with whatever
`signaling-service` does in between. Each look-up is atomic, though the map has no lock. A room's `DetachEvent` is value-initialised by `make_shared`, so its detach makes
a request; only the end of the session (`SsEnd`) takes the local branch. The transport below is taken as
`RequestReply` promises; that a reply can be lost is kept (`Lose`).

**`TaskScheduler`** is the scheduler with its thread, its mutex and its owner, the signaling
client (heartbeat) or a plugin client (statistics). `Register` and `PostTask` are the two
halves of `schedule`; `Drop` is the proxy letting go of the owner, whose destructor calls
`cancelAll` and waits (`Joined`); a run of a task is `Take`, `GetTaskIds` (needs the mutex),
`Run` (copies the set without it, then begins the closure) and `Finish`. A change of the set
while it is copied is a data race; `Sees` then lets the look have either outcome. The closure
holds the owner while it runs, and when it is the last to do so the destructor runs on the
thread of the scheduler (`FinishLast`). Ids are the tick of the clock that seeds them.
`rtc::Thread` is taken from its header: told to stop, it still runs what is due
(`thread.h:280-285`).

**`CandidateLife`** is what becomes of a remote candidate: sent, waiting, and then for good
added to a PeerConnection, dropped by a clean-up, or lost.

**`PluginClient`** is one negotiation after another on one plugin client. Its tasks are
`pcQueue`; the operations that WebRTC has yet to complete are `sig`, and their callbacks run
on its signaling thread. Both read and write `pluginContext` without a lock, so a step that
looks and then acts is two actions where the other thread can come between (`TrickleLook`,
then `TrickleAdd` or `TrickleCache`; `SigDescribed`, then `SigFlushed`; `CleanupPeer`, then
`CleanupRest`), and one where a call waits for that thread. `Prepare` is `prepareWebrtc` with
`prepareStreams`. PeerConnections are numbered, so that each piece of state says whose it is.

**`Renegotiation`** is the data that `PluginClient` leaves out: for each offer, the plan made
from the caller's `MediaConfig` and the local stream (`Planned`), the capture (`Given`), what
goes to the stream and the senders (`Prepared`, of which `Placed` does one kind), and the
directions of `configTracks` (`Directed`). A track is the number of the capture it came from. The media of a
PeerConnection are kept as WebRTC documents `AddTrack` and `RemoveTrack`.

**`VideoRoom`** is a visit to a room: the user's calls, `VideoRoomClient`,
`VideoRoomSubscriber` with its deferred `joinTask`, the participants, the list of `main`, and
the server as far as the code relies on it. Handles are the server's; `mapped` is
`_pluginClientMap`. A feed that is forgotten is noted in `missed` with the reason. The server
keeps a set of the publisher's handles that are in the room, and tells each of them: two leaves
give two detaches, and a second one may be served after the user has attached again, so an
old handle can be in the room beside a new one. A task that brings an event first fetches its
client (`PcFetch`, `held`; the two look-ups are one here) and then calls it, though the handle
may be gone by then; `Tells` and `Events` are what the server sends.

**`UniversalObservable`** is one list of weak observers, each with its thread, and the rounds
of `notifyObservers`, which several threads may have going at once. `NotifyNext` calls an
observer of its own thread directly and posts to the others'; `Run` is the posted task.

`MCMessageTransport`, `MCSignalingClient` and `MCVideoRoom` add the symmetry sets,
`MCUniversalObservable` the threads of the observers. `MessageTransportProofs`,
`SignalingClientProofs`, `TaskSchedulerProofs`, `PluginClientProofs`, `NegotiationProofs` (about
`PluginClient` too), `RenegotiationProofs`, `VideoRoomProofs` and `UniversalObservableProofs`
hold the proofs.

## What is checked

| run | question | result | bounds |
|---|---|---|---|
| `transport_safety` | order, at most one run of a callback, the only way to lose a reply, implementation of `RequestReply` | holds | 3 calls, 2 threads, 5 ticks, 1 connection: three calls are the fewest with a clash and a bystander |
| `transport_live` | a reply that finds its call registered makes the callback run | holds under fairness | 2 calls, 2 connections, 4 ticks: connecting twice, so that a reply of the old connection meets the new id |
| `transport_own_reply` | does a callback get the reply to its own request? | violated | 2 calls |
| `session_safety` | reachability of handles, exactness of `_connected`, callbacks once, implementation of `HandleLife` | holds (1.5 million states) | 2 clients, 2 handles, 3 calls, 1 message, 1 event, 1 connection: a double attach with a detach, or one handle each |
| `session_live` | do requests name handles of their session, do synchronous calls return, do clean-ups happen? | holds, but for a second connect; under fairness | 1 client, 2 connections, 2 handles, 2 calls: an attach in each session, or an attach and a detach |
| `session_removed` | does a handle that the end of the session removes locally leave the map at last? | violated, under fairness | 1 client |
| `scheduler` | are cancels honoured, does nothing outlive the owner, do repetitive tasks go on, does `cancelAll` end? | holds, under fairness | 3 tasks, 2 of them repetitive, 2 ticks: at least two share an id |
| `scheduler_stops_itself` | does a scheduler ever join itself? | violated | 1 task |
| `plugin_client` | null pointers, stale SDPs, lost candidates; does every negotiation come to an SDP? | holds, with the races named; under fairness | 2 negotiations, 2 candidates, 2 clean-ups: a callback of a first PeerConnection can meet a second, and be cleaned up again |
| `renegotiation` | is what is sent what can be muted, are the directions those asked for? | holds, with the cases named | 3 offers or clean-ups, every combination of flags, with or without a stream, a camera, simulcast: three are needed to remove what one offer added and add again |
| `video_room` | do the subscriptions and the list follow the feeds, does a visit leave nothing? | holds, with the cases named (4.6 million states) | 2 feeds, 5 calls, 2 changes: a whole visit and the beginning of a second |
| `observable` | once, in order, and at all? | holds; under fairness | 2 observers, 2 threads, 3 events, 3 additions: one removed and added again while two threads notify |

Deadlock checking is off in every run: the bounds, and a client without a network, let
the system stop; a scheduler whose owner is gone has stopped for good.

*What the passing runs say.* `LostOnlyByRace` names the two ways in which the code loses a
reply: the text is sent before the callback is registered, and two calls share a
transaction. `ConnectedExact` and `ClientReachable` hold only with their exceptions, each a
real weakness: `_connected = true` is queued to `plugin-client` and may overwrite a later
`false`; `RequestsInSession` is excused after a second connect, because the new session
replaces the id under the handles of the old one; `CleanupDone` is excused when the reply to
a detach is handled before the clean-up posted by the same detach, and then the
PeerConnection is never closed. `LifeKept` says what detaching does not promise: an event
whose client was fetched before the reply erased the handle is heard after it, one at most. `CancelHonoured`, `KeepsRunning` and `StopReturns` name what
the scheduler does not promise: a cancel that comes after a task's look at the ids is late;
a change of the set under that look may start a cancelled task or end a repetitive one; a
task with the id of a cancelled one revives it; and `cancelAll`, which holds the mutex while
it joins, never ends when a task that is due asks for the mutex.

In `PluginClient`, `CrashOnlyOvertaken` says that a null pointer is met only after a clean-up
that came while something of the PeerConnection was under way; that the code does meet it
then is a weakness of its callbacks, which test the context and not the PeerConnection.
`CandidatesKept` names the one way to lose a candidate: `onTrickle` decides to cache it, and
the success callback sets the description and empties the cache before, or after. `Negotiated`
is stated with trickle only, which no caller in the repository switches off: without it,
`OnIceCandidate` tests whether the option has a value, not the value (`plugin_client.cpp:1495`),
so the SDP held back for the end of the candidates is never sent.
`SentIsLocal` stops holding once the application has given a stream of its own, because
`streamExternal` is reset by a clean-up only; `AsAsked` leaves out what line 676 confuses,
`keepVideo` for `keepAudio`, and a kind switched off on the first offer, whose captured track
is sent all the same; `CrashOnlyAtOdds` is about callers that add or replace a kind they
switch off, and about simulcast beside a sender without a track. `FeedsFollowed` is about a
client whose present handle is in the room, and names three
ways in which a feed is not subscribed to: only the streams of the last publisher of a list are
asked for, a second list replaces the deferred join of the first, and `_attached` outlives the
detach. `LeftBehind` is excused when the subscriber was attaching around the detach, and
`ListCounts` counts what each earlier visit may leave in the list. `CalledInOrder` orders the
events of one notifying thread only: a direct call overtakes what is queued.

*Findings.* (1) `OwnReply`: two requests of one clock tick share a transaction, the second
replaces the first in the map, and gets the first reply; the comment at
`string_utils.cpp:14` speaks of random identifiers. (2) `LocallyRemoved`: `destroyHandle`
with `noRequest`, as the end of the session uses it, says "We're only removing the handle locally" (`signaling_client.cpp:240`)
and removes nothing; the `clear()` in `destroySession` is commented out. (3) `NeverStopsItself`: the closure of the
statistics holds the plugin client; when the proxy lets go of it meanwhile, the end of the
closure runs `~PluginClient`, `cancelAll` and `Stop` on the very thread that is stopped, which
waits for itself; `thread.h:361` says "Never call Stop on the current thread".

*Hazards.* `PROJECT.json` gives a hazard a property only for what the property would catch. Where
the code does go wrong, and no text of the repository says otherwise, a note says so, and which
property states the case as its exception: the second connect, the double attach, the
connection that no handler names, the SDP held back without trickle, a stream given by the
application, flags at odds, and the feeds and the subscriber that are forgotten. The exceptions
are kept narrow; they do not say that the code is right there.

*Fairness.* Weak fairness of each thread that serves a queue, and of the second half of a
call that has begun: an `rtc::Thread` runs what is posted to it and nothing in these tasks
blocks; in `PluginClient`, of the signaling thread of WebRTC too, which completes what it
was asked for, one way or the other, but of no end of gathering. For `TaskScheduler` each posted task is taken again and again (strong fairness):
the queue of a thread is ordered by the time a task is due. Nothing is assumed of the network, the server, the user or the clock.

## What is proved

Every invariant and every action property that a passing run checks is proved, and so are the
three refinements; what stays with TLC is liveness, below. Hardly any is inductive as it
stands; what follows says what each proof adds.

`MessageTransportProofs` proves, for every number of calls, threads, ticks and connections,
from the three assumptions in `MessageTransport` (`NoCall` is not a call, the service thread
is a thread, the bounds are numbers):

- `TypeCorrect`, `OrderPreserved`, `AtMostOnce`, `RaceOrClashOnly`: the invariants of
  `transport_safety`;
- `TransportImplementsPromise`: the transport implements `RequestReply`.

The properties are not inductive. The argument is the invariant `IInv` of that module. The
queues hold indices of `inbox` (`TasksArrived`), and the order of one queue follows only
together with the order of the other and of what was seen, hence the four parts of
`InOrder`. That a callback runs once needs that a call is in one place only, and filed under
the transaction it drew (`SendersApart`, `FiledByTransaction`, `QueuedOnce`, `Untouched`);
`TasksMatch` ties a queued callback to the transaction of its reply, which is what the step
of the refinement needs, with the order, to be a step of `RequestReply`. `LInv` adds, for
`LostOnlyByRace`, where a call that was sent can be. One lemma per action shows that it
preserves the invariant.

`SignalingClientProofs` proves, for any clients, messages and bounds, from the assumptions
`NobodyAssumption`, `ClientsAssumption` (the marks of an entry without a client are not
clients) and `BoundsAssumption`:

- `SessionTypeCorrect`: the type invariant, in which the type of a task or a request depends
  on its kind, so that it says which handle and which client each one carries;
- `HandlesLive`: the session implements `HandleLife`;
- `ClientIsReached`, `AskedInSession`, `ConnectedIsExact`, `CallbackOnce`: the invariants
  `ClientReachable`, `RequestsInSession`, `ConnectedExact` and `MessageOnce`. The last takes
  `MessagesAssumption` too: a message is not a client.

The refinement needs `HInv`. A handle is *attaching* while its reply is queued for
`signaling-service`, *born* once its client was told or the task that tells it is queued for
`plugin-client`, and *ending* from the request to detach on. A handle is new with each reply
to attach (`Unborn`), is attaching before it is born (`NotYetBorn`), in one place only
(`AttachedOnce`, `TellingOnce`, `ToldOnce`); only a handle that is born is in the map or is
ending (`MappedBorn`, `EndingBorn`). Hence a reply to detach never meets a reply to attach
that would put the handle back (`ErasedGone`), and every delivery stands behind the task that
tells the client, if that has not run (`ToldFirst`). `FoundFirst` says that `plugin-client`
is busy with the first task's handle, from the first look-up to the call, and holds a client
only in between; from the fetch on, nothing but the call takes that task away (`HeadKept`) or
changes which handle an event is being given to (`GivingKept`). So the fetch, which finds the
handle in the map and hence not erased, is the step `Give` of `HandleLife`, and the call is
`Hear`, whether the handle was erased meanwhile or not. Steps that add to a queue are covered
by `GrowStep`, steps that take from the queue of `plugin-client` by `PopStep`.

The invariants rest on `SInv` and `MInv`. `SessionThere` and `TasksInSession` say that a call is
queued, and a handle owned, only in a session there was, which is what a request needs to name
one. `_connected` is written by a task of `plugin-client`, so `ConnectionsInv` says that it is
set, or the task that sets it is queued, only with a session; and `DownInv` that, once the only
connection is down, the task that says so is the last of its queue to touch the state, or has
run and left nothing that would set it again. `MInv` puts each message in one place: a call or
a reply, a request, a queued callback, or a callback that has run.

`TaskSchedulerProofs` proves, for any tasks and ticks, `SchedulerTypeCorrect`,
`CancelledStays` and `OwnerGone`, from `TasksAssumption` and `TickAssumption`. The argument
for cancels is `CancelledGone`: the id of a cancelled task is in the set only if another task
has drawn it, so an untorn look that finds it finds a clash.

`PluginClientProofs` proves, for any number of negotiations, candidates and clean-ups, from
`BoundsAssumption`: `PluginTypes`, `NullOnlyAfterCleanup`, `NothingSurvivesCleanup` and
`CandidateMeetsDescription`. None is inductive: each speaks of a PeerConnection that a callback or a task
is of, while the current one may have been closed and replaced. The invariant says it of what
is queued: every task and every operation is of the current PeerConnection or of one that was
overtaken (`TasksInv`, `OpsInv`), which a clean-up keeps, as it counts among the overtaken any
PeerConnection that something in a queue is of. There are never more PeerConnections than
negotiations, since the negotiations that wait are numbered above those that have one
(`Orderly`). `StepsInv` ties each second half of a step to what its first half saw, and
`ContextInv` says that a publisher with a PeerConnection has a stream and that a description
in the context was set on its PeerConnection.

`NegotiationProofs` goes on from there, from the same assumption: `SdpHandedOverOnce`
(`SdpFresh`), `NoCandidateMissing` (`CandidatesKept`), and
`PluginClientImplementsCandidateLife`. Both are about numbers that must not be in two places,
though the same tasks and operations carry them from queue to queue. A negotiation that has
yet to hand its SDP over has at most one task or one operation (`EarlyInv`); for a subscriber
the setting of the remote description is on that way, for a publisher it comes after.
A candidate is in the queue once and then nowhere else (`TricklesInv`), and while the cache is
being emptied, what it holds is already added, or came meanwhile and is noted in `raced`; this
is what makes every step one of `CandidateLife`.

`RenegotiationProofs` proves, for any number of offers, from `BoundAssumption`:
`RenegotiationTypes`, `NothingSentBeside` (`SentIsLocal`), `OffersAreMet` (`AsAsked`) and
`NullOnlyAtOdds` (`CrashOnlyAtOdds`). The inductive invariant `RInv` adds that nothing is left
without a PeerConnection (`ClosedInv`) and, until the application has given a stream, that there
is one transceiver of a kind at most, that it carries the track of the local stream, and that
without a local stream none was ever a sender's (`OwnInv`). An offer is then followed part by
part: what `Settles` says of a planned change against the media there are, what `Given` and
`Prepared` make of the stream, and how `Placed` changes the transceivers of one kind. The
proof showed that two `CASE` expressions of the model had guards that overlapped, which leaves
the value open; they are disjoint now.

`VideoRoomProofs` proves, for any finite set of feeds (`FeedsAssumption`) and any number of
calls and changes, `VideoRoomTypes`, `MediaComesOnce` (`FollowedOnce`), `NobodyStays`
(`LeftBehind`), `PublishersAreFollowed` (`FeedsFollowed`) and `ListIsCounted` (`ListCounts`):

- `SubInv` is about the subscriber. A handle is named only by its client (`HandlesInv`); until
  a list comes while the first subscription is being made, the subscriber was attached once at
  most (`OnceInv`), so its request, its grant, its join and its subscriptions are one thing in
  one place (`OneInv`); until a detach was asked for, its handles are live (`DeadInv`), and
  when the visit is over without a late attach, they are detached or will be (`GoneInv`).
- `CareInv`: while the client's handle is in the room, each feed that publishes is followed,
  told of, about to be joined, asked for, or forgotten for one of the three reasons. A step
  that detaches the subscriber must find the client outside, hence `OutsideInv`: a detach of
  the subscriber stands behind the detach of the publisher's handle, or that handle is out of
  the room with no join before it. The attempt to prove this showed that a leave that is made
  twice can leave an older handle in the room beside the present one, after more calls than
  the run makes; the model of the server has the set of handles since.
- `HeldInv` and `Acting`: a client that was fetched is that of the first task, an event, and the
  steps that call one are told apart by it; a fetch that finds no client drops the task.
- `ListInv` counts without counting. Each notice in the queue is of one visit, and `Counted` says
  that there is a set of visits the list may show the feed for, such that of one visit a notice
  that adds it and one that takes it off come in turn, and, if the feed does not publish, one
  that takes it off comes last. The list shows the feed at most once for each visit in the set,
  so a visit that goes on is not in it once the queue is empty. `LastInv` is the other half: of
  a feed that publishes, the last notice on every handle in the room adds it, or the list has it.

`UniversalObservableProofs` proves, for any observers, any threads and any number of events,
from `HomeAssumption`, `ThreadsAssumption` and `BoundAssumption`: `ObservableTypes`,
`EventsInOrder` and `EventOnce`. That nothing is called twice follows from the strict order of
what one thread raises. The order needs the stages an event goes through: what thread t has still
to hand out is later than what it posted (`PostedBeforeRest`) and than what was seen of it
(`SeenBeforeRest`), and what is posted is in order and later than what was seen
(`QueueInOrder`, `SeenBeforePosted`). A call that is made at once does not overtake the queue
of its own thread, because a thread never posts to itself (`QueueListed`), and a round does not
meet an observer twice, because the list holds each once (`ListExact`, `RemovesFacts`).

Only model-checked are the liveness properties, which need fairness and so `ENABLED`, which the
provers do not have: `AnsweredRuns`, `CallReturns`, `CleanupDone`, `KeepsRunning`, `StopReturns`,
`Negotiated` and `Called`. Each is checked on its run with the bounds of the table, under the
fairness above.

## Assumptions and what is left out

- `MessageTransport`: texts that do not parse are dropped on the websocket thread; the
  look-up in `_connectionList` is atomic (the code has a data race there).
- `SignalingClient`: the server refuses to attach in a session it did not create; replies reach the call they are for (the clash of transactions is
  `MessageTransport`'s subject); a create succeeds; events have a sender; plugin clients live as
  long as the program; calls of plugin clients start between the tasks of `plugin-client`; the
  heartbeat is left out. The order in which `cleanup` visits the map is open. Looking up an entry
  while another thread erases it is a data race; each look-up is taken to see the map before or
  after.
- `PluginClient`: an operation of WebRTC completes in the order in which it was asked for, also
  after its PeerConnection was closed; the server answers an offer once. What a candidate, a
  track or an SDP says is left out. `sendSdp` (`plugin_client.cpp:168-202`) has no caller
  that reaches it. The early returns for a missing or unknown kind of JSEP (lines 589-596) are
  left out: the callers take both from a message that has one.
- `Renegotiation`: an offer is answered before the next one; a caller asks for at most one
  change of a kind (the code takes add, remove and replace in this order), does not set the
  `keep` flags beside a stream of its own. Answers, data channels, and `simulcast2`, which
  rewrites text, are left out.
- `VideoRoom`: the user attaches again only after a detach; what the server sends passes
  `signaling-service` at once; the list of `main` takes its notices with `plugin-client`, in
  their order; a list of publishers carries their streams; an attach is not refused (it is in
  `SignalingClient`). The detach of `closeEvent` and the
  creation of a room are left out.
- `UniversalObservable`: who removes an observer holds it; no observer notifies from within a
  notice, as none in the repository does; the strong `addObserver` and
  `clearObserver` have no caller.
- Of a message, a candidate, an SDP only the identity is kept.

*Not modelled.* `src/3rd`, some 374,000 of the repository's 389,500 lines of implementation, is
headers of WebRTC, rapidjson, asio, websocketpp, spdlog and glew, vendored as they are. The
program's own code is some 15,700 lines in `src/RTCSDK` and `src/UI`, of which the modules model
about 2,900; the rest is mostly declarations, data structures and their reflection macros, proxies
made by macros, rendering and wiring, and `text_room_client` and `rtc_sdk` are empty shells. Of
it: `SDPUtils::injectSimulcast` rewrites lines of text without state, and the paging of the
gallery computes a layout, both sequential and within reach of unit tests; `MediaController`
changes its maps of tracks in single tasks of `plugin-client`; the JSON models are macros; the
factories, the engine, capture, devices and logging are wiring or output.

## Plan

1. `MessageTransport`, `RequestReply`; `SignalingClient`, `HandleLife`; `TaskScheduler`; `PluginClient`,
   `CandidateLife`; `Renegotiation`; `VideoRoom`; `UniversalObservable`: done.
2. The invariants, the action properties and the refinements of the runs: proved.
3. `WeakProxy`: which thread may wait for which; with ranks on threads no cycle of waiting
   threads exists, for any number of threads.
4. An abstract specification of a subscription (asked for, carried, over), implemented by
   `VideoRoom` but for the three reasons of `missed`.
