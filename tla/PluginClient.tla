---------------------------- MODULE PluginClient ----------------------------
(***************************************************************************)
(* PluginClient: the negotiation of one plugin client.  Its code runs on   *)
(* plugin-client, which takes the tasks of pcQueue, and in callbacks on    *)
(* the signaling thread of WebRTC, which completes the operations of sig   *)
(* one after the other.  A call of the PeerConnection is a synchronous     *)
(* call to that thread; the context (pc, localSdp, remoteSdp, candidates,  *)
(* iceDone) is shared by both without a lock.  PeerConnections are         *)
(* numbered in the order of their creation, 0 is a null pointer.           *)
(***************************************************************************)
EXTENDS Integers, Sequences

CONSTANTS
    MaxNegotiations,  \* bound: calls of createOffer or createAnswer
    MaxCandidates,    \* bound: remote candidates
    MaxCleanups       \* bound: clean-ups

ASSUME BoundsAssumption == {MaxNegotiations, MaxCandidates, MaxCleanups} \subseteq Nat

VARIABLES
    role,         \* a publisher makes offers, a subscriber answers them
    trickle,      \* PrepareWebrtcEvent::trickle, PluginContext::trickle
    pcQueue,      \* the tasks of plugin-client
    sig,          \* the operations WebRTC has yet to complete
    pc,           \* the PeerConnection
    peers,        \* how many were created
    localStream,  \* whether there is a local stream
    localSdp,     \* the PeerConnection whose description it is, or 0
    remoteSdp,    \* the PeerConnection it describes, or 0
    candidates,   \* the candidates that wait for a remote description
    iceDone,
    looked,       \* what onTrickle has decided to do with its candidate, or "none"
    clearing,     \* cleanupWebrtc has let go of the PeerConnection, not yet of the rest
    flushing,     \* the negotiation whose success callback has added the candidates, or 0
    budget,       \* how many cleanups and candidates there were, for the bounds
    status,       \* history: how far each negotiation got
    peerOf,       \* history: the PeerConnection of each negotiation
    sent,         \* history: the SDPs given to offerAnswerCallback
    added,        \* history: the candidates given to a PeerConnection
    described,    \* history: the PeerConnections with a remote description
    dropped,      \* history: the candidates dropped by a clean-up
    raced,        \* history: the candidates cached beside a description, or its callback
    lost,         \* history: the candidates cleared without being added
    overtaken,    \* history: the PeerConnections cleaned up with something under way
    crashed       \* the PeerConnection whose callback dereferenced null, or 0

contextVars   == <<pc, peers, localStream, localSdp, remoteSdp, iceDone>>
candidateVars == <<candidates, added, dropped, raced, lost>>
stepVars      == <<looked, clearing, flushing>>
historyVars   == <<status, peerOf, sent, described, overtaken, crashed>>
vars == <<role, trickle, pcQueue, sig, contextVars, candidateVars, stepVars, budget, historyVars>>

Negotiations == 1..MaxNegotiations
Candidates   == 1..MaxCandidates
Peers        == 1..MaxNegotiations

Task(kind, n, peer) == [kind |-> kind, n |-> n, peer |-> peer]

Init ==
    /\ role \in {"publisher", "subscriber"}
    /\ trickle \in BOOLEAN
    /\ pcQueue = <<>>
    /\ sig = <<>>
    /\ pc = 0
    /\ peers = 0
    /\ localStream = FALSE
    /\ localSdp = 0
    /\ remoteSdp = 0
    /\ candidates = <<>>
    /\ iceDone = FALSE
    /\ looked = "none"
    /\ clearing = FALSE
    /\ flushing = 0
    /\ budget = [cleanups |-> 0, candidates |-> 0]
    /\ status = [n \in Negotiations |-> "none"]
    /\ peerOf = [n \in Negotiations |-> 0]
    /\ sent = {}
    /\ added = {}
    /\ described = {}
    /\ dropped = {}
    /\ raced = {}
    /\ lost = {}
    /\ overtaken = {}
    /\ crashed = 0

Cached == {candidates[i] : i \in 1..Len(candidates)}
Ended  == {"done", "failed"}
Marks(n, s) == status' = [status EXCEPT ![n] = s]

-----------------------------------------------------------------------------
(* What signaling-service posts: the server's messages, or the user's      *)
(* calls, in the order of arrival.                                         *)

Arrives(task) ==
    /\ crashed = 0
    /\ pcQueue' = Append(pcQueue, task)
    /\ UNCHANGED <<role, trickle, sig, contextVars, candidateVars, stepVars, peerOf, sent,
                   described, overtaken, crashed>>

\* The room was joined, so the publisher makes an offer; or an offer arrives.
Begin(n) ==
    /\ status[n] = "none"
    /\ \A m \in 1..(n - 1) : status[m] # "none"
    /\ Arrives(Task("prepare", n, 0))
    /\ Marks(n, "begun")
    /\ UNCHANGED budget

\* The server answers the publisher's offer.
ServerAnswer(n) ==
    /\ role = "publisher"
    /\ status[n] = "given"
    /\ Arrives(Task("jsep", n, 0))
    /\ Marks(n, "answered")
    /\ UNCHANGED budget

ServerCandidate ==
    /\ budget.candidates < MaxCandidates
    /\ budget' = [budget EXCEPT !.candidates = @ + 1]
    /\ Arrives(Task("trickle", budget'.candidates, 0))
    /\ UNCHANGED status

\* A detach, or a hangup event, makes the signaling client post onCleanup.
PostCleanup ==
    /\ budget.cleanups < MaxCleanups
    /\ budget' = [budget EXCEPT !.cleanups = @ + 1]
    /\ Arrives(Task("cleanup", 0, 0))
    /\ UNCHANGED status

-----------------------------------------------------------------------------
(* plugin-client.                                                          *)

PcIdle == looked = "none" /\ ~clearing

\* The null pointer that a callback or a task of this PeerConnection met.
NullUnless(found, peer) == crashed' = IF found THEN 0 ELSE peer

PcTake(kind) ==
    /\ crashed = 0
    /\ PcIdle
    /\ pcQueue # <<>>
    /\ Head(pcQueue).kind = kind
    /\ UNCHANGED <<role, trickle, clearing, flushing, budget, described>>

\* Mutant: a PeerConnection that is there is replaced.
ReopenPeer == pc' = peers + 1 /\ peers' = peers + 1

\* Mutant: two are created, and the first is forgotten.
OpenTwoPeers ==
    IF pc = 0 THEN pc' = peers + 2 /\ peers' = peers + 2 ELSE UNCHANGED <<pc, peers>>

\* prepareStreams: if we still need to create a PeerConnection, do that.
OpenPeer ==
    IF pc = 0 THEN pc' = peers + 1 /\ peers' = peers + 1 ELSE UNCHANGED <<pc, peers>>

\* Mutant: there is no stream to announce.
CaptureNothing == UNCHANGED localStream

Capture == localStream' = TRUE

\* prepareWebrtc and prepareStreams.  A publisher captures a stream, announces
\* its track and creates the offer; a subscriber has no stream and first sets
\* the offer as remote description.
Prepare ==
    /\ PcTake("prepare")
    /\ OpenPeer
    /\ LET n == Head(pcQueue).n IN
        /\ peerOf' = [peerOf EXCEPT ![n] = pc']
        /\ IF role = "publisher"
           THEN /\ Capture
                /\ pcQueue' = Append(Tail(pcQueue), Task("localTrack", 0, pc'))
                /\ sig' = Append(sig, Task("create", n, pc'))
           ELSE /\ UNCHANGED localStream
                /\ pcQueue' = Tail(pcQueue)
                /\ sig' = Append(sig, Task("remote", n, pc'))
    /\ UNCHANGED <<localSdp, remoteSdp, iceDone, candidateVars, looked, status, sent, overtaken, crashed>>

\* The task dereferences localStream.
LocalTrack ==
    /\ PcTake("localTrack")
    /\ pcQueue' = Tail(pcQueue)
    /\ NullUnless(localStream, Head(pcQueue).peer)
    /\ UNCHANGED <<sig, contextVars, candidateVars, looked, status, peerOf, sent, overtaken>>

\* handleRemoteJsep: there may be no PeerConnection any more, or a new one.
HandleRemoteJsep ==
    /\ PcTake("jsep")
    /\ pcQueue' = Tail(pcQueue)
    /\ IF pc = 0
       THEN Marks(Head(pcQueue).n, "failed") /\ UNCHANGED sig
       ELSE sig' = Append(sig, Task("remote", Head(pcQueue).n, pc)) /\ UNCHANGED status
    /\ UNCHANGED <<contextVars, candidateVars, looked, peerOf, sent, overtaken, crashed>>

\* _createAnswer: context->pc->CreateAnswer.
CreateAnswer ==
    /\ PcTake("answer")
    /\ pcQueue' = Tail(pcQueue)
    /\ NullUnless(pc # 0, Head(pcQueue).peer)
    /\ sig' = IF pc # 0 THEN Append(sig, Task("create", Head(pcQueue).n, pc)) ELSE sig
    /\ UNCHANGED <<contextVars, candidateVars, looked, status, peerOf, sent, overtaken>>

\* offerAnswerCallback: the SDP is sent to the server.
OfferAnswer ==
    /\ PcTake("given")
    /\ LET task == Head(pcQueue) IN
        /\ sent' = sent \cup {[n |-> task.n, peer |-> task.peer, pc |-> pc,
                               again |-> \E s \in sent : s.n = task.n]}
        /\ Marks(task.n, IF role = "publisher" THEN "given" ELSE "done")
    /\ pcQueue' = Tail(pcQueue)
    /\ UNCHANGED <<sig, contextVars, candidateVars, looked, peerOf, overtaken, crashed>>

\* Mutant: onTrickle looks at pc alone.
HasPeer == pc # 0

Ready == pc # 0 /\ remoteSdp # 0

\* onTrickle looks at pc and remoteSdp...
TrickleLook ==
    /\ PcTake("trickle")
    /\ looked' = IF Ready THEN "add" ELSE "cache"
    /\ UNCHANGED <<pcQueue, sig, contextVars, candidateVars, status, peerOf, sent, overtaken, crashed>>

\* ... and then adds the candidate, which waits for the thread of WebRTC ...
TrickleAdd ==
    /\ crashed = 0 /\ looked = "add" /\ flushing = 0
    /\ looked' = "none"
    /\ pcQueue' = Tail(pcQueue)
    /\ added' = added \cup {[c |-> Head(pcQueue).n, peer |-> pc, by |-> remoteSdp,
                             ok |-> pc \in described]}
    /\ UNCHANGED <<role, trickle, sig, contextVars, candidates, dropped, raced, lost, clearing,
                   flushing, budget, historyVars>>

\* ... or caches it.
TrickleCache ==
    /\ crashed = 0 /\ looked = "cache"
    /\ looked' = "none"
    /\ pcQueue' = Tail(pcQueue)
    /\ candidates' = Append(candidates, Head(pcQueue).n)
    /\ raced' = IF remoteSdp # 0 \/ flushing # 0 THEN raced \cup {Head(pcQueue).n} ELSE raced
    /\ UNCHANGED <<role, trickle, sig, contextVars, added, dropped, lost, clearing, flushing,
                   budget, historyVars>>

\* Something of the PeerConnection is still to come.
UnderWay(peer) ==
    \/ \E n \in Negotiations : peerOf[n] = peer /\ status[n] \notin Ended
    \/ \E i \in 1..Len(pcQueue) : pcQueue[i].peer = peer
    \/ \E i \in 1..Len(sig) : sig[i].peer = peer

\* cleanupWebrtc closes the PeerConnection, which waits for the thread of WebRTC...
CleanupPeer ==
    /\ crashed = 0 /\ PcIdle
    /\ pcQueue # <<>> /\ Head(pcQueue).kind = "cleanup"
    /\ pc # 0 => flushing = 0
    /\ pc' = 0
    /\ localStream' = FALSE
    /\ clearing' = TRUE
    /\ overtaken' = IF pc # 0 /\ UnderWay(pc) THEN overtaken \cup {pc} ELSE overtaken
    /\ UNCHANGED <<role, trickle, pcQueue, sig, peers, localSdp, remoteSdp, iceDone, candidateVars,
                   looked, flushing, budget, status, peerOf, sent, described, crashed>>

\* Mutant: the descriptions stay.
ForgetCandidates == iceDone' = FALSE /\ UNCHANGED <<localSdp, remoteSdp>>

Forget == localSdp' = 0 /\ remoteSdp' = 0 /\ iceDone' = FALSE

\* Mutant: the cached candidates stay, for the next PeerConnection.
KeepForNext == UNCHANGED candidates

DropCandidates == candidates' = <<>>

\* ... and then forgets what it knew of it.
CleanupRest ==
    /\ crashed = 0 /\ clearing
    /\ clearing' = FALSE
    /\ pcQueue' = Tail(pcQueue)
    /\ dropped' = dropped \cup Cached
    /\ DropCandidates
    /\ Forget
    /\ UNCHANGED <<role, trickle, sig, pc, peers, localStream, added, raced, lost, looked, flushing,
                   budget, historyVars>>

-----------------------------------------------------------------------------
(* The signaling thread of WebRTC.  After the PeerConnection was closed an *)
(* operation still completes, one way or the other.                        *)

SigTake(kind) ==
    /\ crashed = 0
    /\ flushing = 0
    /\ sig # <<>>
    /\ Head(sig).kind = kind
    /\ UNCHANGED <<role, trickle, pc, peers, localStream, looked, clearing, budget, peerOf, sent,
                   overtaken>>

\* Mutant: it waits for the end of the candidates even with trickle.
WaitForIce == iceDone

\* Do not do anything until we have all candidates.
GiveNow == iceDone \/ trickle

\* The success callback of _createOffer and _createAnswer: the description is
\* set on the PeerConnection the context has now.
SigCreated ==
    /\ SigTake("create")
    /\ sig' = Tail(sig)
    /\ localSdp' = Head(sig).peer
    /\ NullUnless(pc # 0, Head(sig).peer)
    /\ pcQueue' = IF pc # 0 /\ GiveNow
                  THEN Append(pcQueue, Task("given", Head(sig).n, Head(sig).peer))
                  ELSE pcQueue
    /\ UNCHANGED <<remoteSdp, iceDone, candidateVars, flushing, status, described>>

\* The failure callbacks only tell the event's callback.
SigFailed(kind) ==
    /\ SigTake(kind)
    /\ sig' = Tail(sig)
    /\ Marks(Head(sig).n, "failed")
    /\ UNCHANGED <<pcQueue, localSdp, remoteSdp, iceDone, candidateVars, flushing, described, crashed>>

\* The success callback of SetRemoteDescription adds the cached candidates...
SigDescribed ==
    /\ SigTake("remote")
    /\ LET peer == Head(sig).peer IN
        /\ remoteSdp' = peer
        /\ described' = described \cup {peer}
        /\ NullUnless(pc # 0 \/ candidates = <<>>, peer)
        /\ added' = added \cup {[c |-> c, peer |-> pc, by |-> peer, ok |-> pc \in described'] : c \in Cached}
    /\ flushing' = Head(sig).n
    /\ UNCHANGED <<pcQueue, sig, localSdp, iceDone, candidates, dropped, raced, lost, status>>

\* Mutant: the candidates that were added stay in the cache.
KeepCandidates == UNCHANGED candidates

EmptyCache == candidates' = <<>>

\* ... empties the cache, and lets plugin-client create the answer.
SigFlushed ==
    /\ crashed = 0
    /\ flushing # 0
    /\ EmptyCache
    /\ lost' = lost \cup (Cached \ {a.c : a \in added})
    /\ IF role = "publisher"
       THEN Marks(flushing, "done") /\ UNCHANGED pcQueue
       ELSE pcQueue' = Append(pcQueue, Task("answer", flushing, Head(sig).peer)) /\ UNCHANGED status
    /\ sig' = Tail(sig)
    /\ flushing' = 0
    /\ UNCHANGED <<role, trickle, contextVars, added, dropped, raced, looked, clearing, budget,
                   peerOf, sent, described, overtaken, crashed>>

\* OnIceCandidate(nullptr): trickle has a value, true or false, so the SDP is
\* not sent here.
SigGathered ==
    /\ crashed = 0 /\ flushing = 0
    /\ pc # 0 /\ ~iceDone
    /\ iceDone' = TRUE
    /\ UNCHANGED <<role, trickle, pcQueue, sig, pc, peers, localStream, localSdp, remoteSdp,
                   candidateVars, stepVars, budget, historyVars>>

-----------------------------------------------------------------------------
Environment ==
    \/ \E n \in Negotiations : Begin(n) \/ ServerAnswer(n)
    \/ ServerCandidate
    \/ PostCleanup

PcStep ==
    \/ Prepare \/ LocalTrack \/ HandleRemoteJsep \/ CreateAnswer \/ OfferAnswer
    \/ TrickleLook \/ TrickleAdd \/ TrickleCache
    \/ CleanupPeer \/ CleanupRest

SigStep ==
    \/ SigCreated \/ SigDescribed \/ SigFlushed
    \/ SigFailed("create") \/ SigFailed("remote")

Next == Environment \/ PcStep \/ SigStep \/ SigGathered

Spec == Init /\ [][Next]_vars

\* Both threads go on; gathering may go on for ever (GATHER_CONTINUALLY).
FairSpec == Spec /\ WF_vars(PcStep) /\ WF_vars(SigStep)

-----------------------------------------------------------------------------
(* Properties.                                                             *)

PcTasks ==
    [kind : {"prepare", "jsep"}, n : Negotiations, peer : {0}]
        \cup [kind : {"trickle"}, n : Candidates, peer : {0}]
        \cup [kind : {"cleanup"}, n : {0}, peer : {0}]
        \cup [kind : {"localTrack"}, n : {0}, peer : Peers]
        \cup [kind : {"answer", "given"}, n : Negotiations, peer : Peers]
Operations == [kind : {"create", "remote"}, n : Negotiations, peer : Peers]

\* Every variable has its type.
TypeOK ==
    /\ role \in {"publisher", "subscriber"}
    /\ trickle \in BOOLEAN
    /\ pcQueue \in Seq(PcTasks)
    /\ sig \in Seq(Operations)
    /\ {pc, peers, localSdp, remoteSdp, crashed} \subseteq 0..MaxNegotiations
    /\ {localStream, iceDone, clearing} \subseteq BOOLEAN
    /\ candidates \in Seq(Candidates)
    /\ looked \in {"none", "add", "cache"}
    /\ flushing \in 0..MaxNegotiations
    /\ budget \in [cleanups : Nat, candidates : 0..MaxCandidates]
    /\ status \in [Negotiations -> {"none", "begun", "given", "answered"} \cup Ended]
    /\ peerOf \in [Negotiations -> 0..MaxNegotiations]
    /\ sent \subseteq [n : Negotiations, peer : Peers, pc : 0..MaxNegotiations, again : BOOLEAN]
    /\ added \subseteq [c : Candidates, peer : 0..MaxNegotiations, by : 0..MaxNegotiations, ok : BOOLEAN]
    /\ described \subseteq Peers
    /\ {dropped, raced, lost} \subseteq SUBSET Candidates
    /\ overtaken \subseteq Peers

\* A null pointer is met only on behalf of a PeerConnection that was cleaned up
\* with something of it still under way: a track to announce, an offer or an
\* answer to create (plugin_client.cpp:506-523, 1255, 1285, 1421).
CrashOnlyOvertaken == crashed # 0 => crashed \in overtaken

\* A negotiation hands its SDP over once, and while its PeerConnection is the
\* current one, unless a clean-up came first, however the offers, the answers
\* and the clean-ups of several cross (plugin_client.cpp:1258-1268, 1397-1407).
SdpFresh == \A s \in sent : ~s.again /\ (s.pc = s.peer \/ s.peer \in overtaken)

\* What is known of a session is of the current PeerConnection, or was left by
\* a callback of one that was cleaned up with the operation under way
\* (plugin_client.cpp:549, 1255, 1428-1454).
NothingSurvives ==
    ~clearing => /\ {localSdp, remoteSdp} \subseteq {0, pc} \cup overtaken
                 /\ iceDone => pc # 0

\* A candidate goes to a PeerConnection that has its remote description, unless
\* the description was left by an earlier one (plugin_client.cpp:1582-1599).
AddedWhenDescribed == \A a \in added : a.ok \/ a.by \in overtaken

\* A candidate the server has sent is queued, cached, added or dropped by a
\* clean-up; it is lost, or left in the cache beside a description, only when
\* it was cached while a description was there, or its callback ran: one that
\* came after onTrickle's look, or that an earlier PeerConnection left behind
\* (plugin_client.cpp:549-553, 1582-1618).
Added == {a.c : a \in added}
Queued == {pcQueue[i].n : i \in {j \in 1..Len(pcQueue) : pcQueue[j].kind = "trickle"}}
CandidatesKept ==
    /\ 1..budget.candidates = Queued \cup Cached \cup Added \cup dropped \cup lost
    /\ lost \subseteq raced
    /\ flushing = 0 /\ crashed = 0 => Cached \cap Added = {}
    /\ flushing = 0 /\ pc # 0 /\ remoteSdp = pc => Cached \subseteq raced

\* To the server a candidate lives as CandidateLife says, wherever the client
\* keeps it (plugin_client.cpp:549-553, 1439, 1563-1621).
Place(c) ==
    CASE c \in Added                -> "added"
      [] c \in dropped \ Added       -> "dropped"
      [] c \in lost \ Added          -> "lost"
      [] c > budget.candidates      -> "unsent"
      [] OTHER                      -> "waiting"
Life == INSTANCE CandidateLife WITH Candidates <- Candidates,
                                    place <- [c \in Candidates |-> Place(c)]
CandidatesLive == Life!Spec

\* With trickle a negotiation that was begun hands its SDP over, or fails
\* (plugin_client.cpp:1258-1268).  Without it, the SDP is held for the end of
\* the candidates, which then does not send it (plugin_client.cpp:1495).
Negotiated ==
    \A n \in Negotiations :
        (trickle /\ status[n] = "begun") ~> (status[n] # "begun" \/ crashed # 0)
=============================================================================
