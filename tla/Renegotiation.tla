--------------------------- MODULE Renegotiation ---------------------------
(***************************************************************************)
(* The media of one PluginClient over a series of offers: what             *)
(* prepareWebrtc plans from the caller's MediaConfig and the local stream, *)
(* what prepareStreams adds to or takes from the stream and the            *)
(* PeerConnection, and the directions configTracks sets                    *)
(* (plugin_client.cpp 338-505, 604-867, 1040-1144, 1146-1207).             *)
(*                                                                         *)
(* One call is one step: nothing of it waits.  PluginClient.tla has the    *)
(* order of the calls and their callbacks; here an offer is answered       *)
(* before the next is made.  A track is a number: the capture for the nth  *)
(* offer gives tracks n, the application's stream has tracks of its own,   *)
(* and 0 is no track.                                                      *)
(***************************************************************************)
EXTENDS Naturals, Sequences, SequencesExt

CONSTANT MaxOffers \* bound of the checks: offers, and clean-ups count as one

ASSUME BoundAssumption == MaxOffers \in Nat

VARIABLES
    local,        \* context->localStream: a stream, or NoStream
    external,     \* context->streamExternal
    open,         \* context->pc is there
    transceivers, \* what pc->GetTransceivers() returns, in order
    used,         \* those of them that have been used to send
    disabled,     \* tracks that were disabled as they left the local stream
    offers,       \* calls made
    asked,        \* history: the direction the last offer asked for each kind
    crashed       \* the null pointer a call went through

vars == <<local, external, open, transceivers, used, disabled, offers, asked, crashed>>

Kinds == {"audio", "video"}
Directions == {"sendrecv", "sendonly", "recvonly", "inactive"}
Tracks == 0..(MaxOffers + 1)
Streams == [Kinds -> Tracks]
NoStream == [k \in {} |-> 0]
NoOffer == [k \in Kinds |-> "any"]

\* The MediaConfig of one kind.  Of the flags add, remove and replace the
\* first given counts (lines 626-652), which change names; keep is not meant
\* for callers, but public as the others are.
Configs == [on : BOOLEAN, send : BOOLEAN, recv : BOOLEAN, keep : BOOLEAN,
            change : {"none", "add", "remove", "replace"}]

\* The configurations that differ: a kind that is off is off whatever send,
\* recv and keep say, and a change settles send and keep.
Calls == {m \in Configs : /\ ~m.on => m.send /\ m.recv
                          /\ m.keep => m.on /\ m.recv
                          /\ m.change # "none" => ~m.keep /\ (m.on => ~m.send)}

\* A stream of the application has both kinds, or only audio.
AppStreams == {[k \in Kinds |-> IF k \in given THEN MaxOffers + 1 ELSE 0] :
               given \in {Kinds, {"audio"}}}

Sends(m) == m.on /\ m.send
Receives(m) == m.on /\ m.recv
SendingWays == {"sendrecv", "sendonly"}

Init ==
    /\ local = NoStream
    /\ external = FALSE
    /\ open = FALSE
    /\ transceivers = <<>>
    /\ used = {}
    /\ disabled = {}
    /\ offers = 0
    /\ asked = NoOffer
    /\ crashed = "no"

-----------------------------------------------------------------------------
(* The plan.                                                               *)

Has(k) == local # NoStream /\ local[k] # 0

\* Mutant: adding does not set send.
ChosenToSend(m) ==
    IF m.change = "none" THEN m
    ELSE [m EXCEPT !.keep = FALSE, !.send = @ /\ m.change # "remove"]

\* The flags of one kind after the chain that starts with add.
Chosen(m) ==
    CASE m.change \in {"add", "replace"} -> [m EXCEPT !.keep = FALSE, !.send = TRUE]
      [] m.change = "remove"             -> [m EXCEPT !.keep = FALSE, !.send = FALSE]
      [] OTHER                           -> m

\* Without a track, what is sent has to be added; with one, it is kept.
\* Audio missing from a stream clears keepVideo, and leaves keepAudio
\* (line 676).
Settled(k, m) ==
    LET c == Chosen(m)
        missing == ~Has(k)
    IN [c EXCEPT
          !.change = IF missing /\ (@ = "replace" \/ Sends(c)) THEN "add" ELSE @,
          !.keep = IF missing
                   THEN @ /\ ~(Sends(c) /\ (k = "video" \/ local = NoStream))
                   ELSE @ \/ (Sends(c) /\ c.change \notin {"remove", "replace"})]

ClearsVideo(media) ==
    local # NoStream /\ ~Has("audio") /\ Sends(Chosen(media.audio))

\* The plan, by kind: as the caller gave it for a new PeerConnection or with
\* a stream of its own, else settled against the local stream.
Planned(media, stream) ==
    IF ~open THEN [media EXCEPT !.audio.keep = FALSE, !.video.keep = FALSE]
    ELSE IF stream # NoStream THEN media
    ELSE [audio |-> Settled("audio", media.audio),
          video |-> Settled("video", [media.video EXCEPT !.keep = @ /\ ~ClearsVideo(media)])]

\* "Can't add audio stream, there already is one".
Refused(media, stream) ==
    open /\ stream = NoStream /\ \E k \in Kinds : media[k].change = "add" /\ Has(k)

\* All is kept: nothing is captured or removed.
Skips(plan) == open /\ \A k \in Kinds : Sends(plan[k]) /\ plan[k].keep

-----------------------------------------------------------------------------
(* The PeerConnection.                                                     *)

StopsSending(way) ==
    CASE way = "sendrecv" -> "recvonly" [] way = "sendonly" -> "inactive" [] OTHER -> way
StartsSending(way) ==
    CASE way = "recvonly" -> "sendrecv" [] way = "inactive" -> "sendonly" [] OTHER -> way

\* PeerConnectionInterface::RemoveTrack, for all senders of some kinds.
RemoveTracks(ts, kinds) ==
    [i \in DOMAIN ts |-> IF ts[i].kind \in kinds /\ ts[i].track # 0
                         THEN [ts[i] EXCEPT !.track = 0, !.way = StopsSending(@)]
                         ELSE ts[i]]

\* PeerConnectionInterface::AddTrack: an error when a sender has the track;
\* else a transceiver that has never sent is taken, or a new one.
AddTrack(ts, k, track) ==
    LET free == {i \in DOMAIN ts : ts[i].kind = k /\ ts[i].track = 0 /\ i \notin used}
        taken == CHOOSE i \in free : \A j \in free : i <= j
    IN IF track = 0 \/ \E i \in DOMAIN ts : ts[i].kind = k /\ ts[i].track = track
       THEN ts
       ELSE IF free # {}
       THEN ReplaceAt(ts, taken, [ts[taken] EXCEPT !.track = track, !.way = StartsSending(@)])
       ELSE Append(ts, [kind |-> k, track |-> track, way |-> "sendrecv"])

\* The first transceiver of a kind is the only one that is looked at.
FirstOf(ts, k) == SelectInSeq(ts, LAMBDA t : t.kind = k)

\* prepareStreams, on an update: the track goes to the sender that is there.
Update(ts, k, track) ==
    LET i == FirstOf(ts, k)
    IN IF track = 0 THEN ts
       ELSE IF i # 0 THEN ReplaceAt(ts, i, [ts[i] EXCEPT !.track = track])
       ELSE AddTrack(ts, k, track)

\* Mutant: what is not wanted is stopped.
WayOrStopped(m) ==
    IF Sends(m) \/ Receives(m) THEN IF Sends(m) THEN "sendrecv" ELSE "recvonly" ELSE "stopped"

\* configTracks, for one kind: a kind that is neither sent nor received, and
\* not removed, is left as it is.
Way(m) ==
    CASE Sends(m) /\ Receives(m)  -> "sendrecv"
      [] Sends(m) /\ ~Receives(m) -> "sendonly"
      [] ~Sends(m) /\ Receives(m) -> "recvonly"
      [] OTHER                    -> "inactive"
Left(m) == Way(m) = "inactive" /\ m.change # "remove"

\* Mutant: a kind that is only received has no transceiver of its own.
DirectedIfThere(ts, k, m) ==
    LET i == FirstOf(ts, k)
    IN IF i # 0 /\ ~Left(m) THEN ReplaceAt(ts, i, [ts[i] EXCEPT !.way = Way(m)]) ELSE ts

Directed(ts, k, m) ==
    LET i == FirstOf(ts, k)
    IN CASE i # 0 /\ ~Left(m) -> ReplaceAt(ts, i, [ts[i] EXCEPT !.way = Way(m)])
         [] i = 0 /\ Way(m) = "recvonly" ->
              Append(ts, [kind |-> k, track |-> 0, way |-> "recvonly"])
         [] OTHER -> ts

-----------------------------------------------------------------------------
(* The calls.                                                              *)

Without(stream, gone) ==
    [k \in DOMAIN stream |-> IF k \in gone THEN 0 ELSE stream[k]]

\* The stream to prepare: the local one when all is kept, the application's,
\* or a capture, which takes both kinds whatever is asked, and no video when
\* there is no camera.
Given(plan, stream, camera) ==
    IF Skips(plan) THEN local
    ELSE IF stream # NoStream THEN stream
    ELSE IF \E k \in Kinds : Sends(plan[k])
    THEN [audio |-> offers + 1, video |-> IF camera THEN offers + 1 ELSE 0]
    ELSE NoStream

\* prepareStreams, for one kind: of a stream that is new, all tracks are
\* added; else those of the kinds to add go to the senders.
Placed(ts, k, given, whole, adds) ==
    IF given = NoStream THEN ts
    ELSE IF whole THEN AddTrack(ts, k, given[k])
    ELSE IF k \in adds THEN Update(ts, k, given[k])
    ELSE ts

\* prepareStreams and configTracks.
Prepared(plan, ts, given, whole, adds) ==
    LET audio == Placed(ts, "audio", given, whole, adds)
        video == Placed(audio, "video", given, whole, adds)
    IN Directed(Directed(video, "audio", plan.audio), "video", plan.video)

\* Mutant: each stream is taken whole.
TakesAll(base, app) == TRUE

\* A new stream, or one to take tracks from.
TakesWhole(base, app) == base = NoStream \/ ~open \/ external \/ app

\* createOffer, once planned.
Offer(media, plan, stream, camera, simulcast) ==
    LET app == stream # NoStream /\ ~Skips(plan)
        given == Given(plan, stream, camera)
        changing == {k \in Kinds : plan[k].change \in {"add", "replace"}}
        removing == IF Skips(plan) \/ ~open \/ external THEN {}
                    ELSE {k \in Kinds : plan[k].change \in {"remove", "replace"}}
        base == IF app /\ ~external THEN NoStream ELSE Without(local, removing)
        whole == TakesWhole(base, app)
        adds == IF whole THEN {} ELSE changing
        unmet == {k \in Kinds : IF Skips(plan) THEN k = "audio" /\ ~Has(k) ELSE k = "video" /\ ~camera}
    IN \E after \in {Prepared(plan, RemoveTracks(transceivers, removing \ changing), given, whole, adds)} :
       /\ crashed' = IF adds # {} /\ given = NoStream
                     THEN IF \E k \in Kinds : ~media[k].on /\ media[k].change \in {"add", "replace"}
                          THEN "at odds" ELSE "stream"
                     ELSE IF /\ simulcast /\ Sends(plan.video)
                             /\ \E i \in DOMAIN after : after[i].track = 0
                     THEN "sender" ELSE "no"
       /\ local' = IF whole THEN given
                   ELSE [k \in Kinds |-> IF k \in adds /\ given # NoStream /\ given[k] # 0
                                         THEN given[k] ELSE base[k]]
       /\ external' = (external \/ app)
       /\ open' = TRUE
       /\ transceivers' = after
       /\ used' = used \cup {i \in DOMAIN after : after[i].way \in SendingWays}
       /\ disabled' = disabled \cup
              {<<k, local[k]>> : k \in {x \in DOMAIN local : base = NoStream \/ x \in removing}}
       /\ asked' = [k \in Kinds |-> IF Left(plan[k]) \/ k \in unmet THEN "any" ELSE Way(plan[k])]

CreateOffer ==
    /\ crashed = "no" /\ offers < MaxOffers
    /\ offers' = offers + 1
    /\ \E audio, video \in Calls, stream \in AppStreams \cup {NoStream},
          camera, simulcast \in BOOLEAN :
         /\ stream # NoStream \/ simulcast => camera
         /\ simulcast => video.on
         /\ stream # NoStream => ~audio.keep /\ ~video.keep
         /\ LET media == [audio |-> audio, video |-> video]
            IN IF Refused(media, stream)
               THEN UNCHANGED <<local, external, open, transceivers, used, disabled, asked, crashed>>
               ELSE \E plan \in {Planned(media, stream)} :
                        Offer(media, plan, stream, camera, simulcast)

\* cleanupWebrtc (lines 1428-1454).
Cleanup ==
    /\ crashed = "no" /\ open
    /\ local' = NoStream
    /\ external' = FALSE
    /\ open' = FALSE
    /\ transceivers' = <<>>
    /\ used' = {}
    /\ disabled' = {}
    /\ asked' = NoOffer
    /\ UNCHANGED <<offers, crashed>>

Next == CreateOffer \/ Cleanup

Spec == Init /\ [][Next]_vars

-----------------------------------------------------------------------------
(* Properties.                                                             *)

\* Every variable has its type.
TypeOK ==
    /\ local \in Streams \cup {NoStream}
    /\ {external, open} \subseteq BOOLEAN
    /\ transceivers \in Seq([kind : Kinds, track : Tracks, way : Directions])
    /\ used \subseteq DOMAIN transceivers
    /\ disabled \subseteq Kinds \X Tracks
    /\ offers \in 0..MaxOffers
    /\ asked \in [Kinds -> Directions \cup {"any"}]
    /\ crashed \in {"no", "stream", "at odds", "sender"}

Held(k) == {transceivers[i].track : i \in {j \in DOMAIN transceivers : transceivers[j].kind = k}} \ {0}

\* However offers add, remove and replace tracks, what a sender holds is a
\* track of the local stream, which muteLocal reaches
\* (media_controller.cpp:251-274), or was disabled as it left the stream.  Not
\* so once the application has given a stream: the flag stays, each capture
\* that follows takes the place of the local stream, and what was there goes on
\* being sent (plugin_client.cpp:359-361, 765, 837).
SentIsLocal ==
    ~external =>
        \A k \in Kinds : \A track \in Held(k) :
            (Has(k) /\ local[k] = track) \/ <<k, track>> \in disabled

\* After an offer a kind is sent, from a track of the local stream, and
\* received as it was asked (plugin_client.cpp:604-763, 1060-1144).  It may be
\* otherwise for video without a camera, for audio the caller told to keep where
\* there is none (line 676), and for a kind that is left as it is, with the
\* track captured for it.
AsAsked ==
    ~external /\ crashed = "no" =>
        \A k \in {x \in Kinds : asked[x] # "any"} :
            LET i == FirstOf(transceivers, k)
            IN /\ i = 0 => asked[k] = "inactive"
               /\ i # 0 => transceivers[i].way = asked[k]
               /\ asked[k] \in SendingWays => Has(k) /\ transceivers[i].track = local[k]

\* An offer meets a null stream only when it adds or replaces a kind it
\* switches off (lines 366-368, 843-865), and, with a stream the client
\* captured itself, a sender without a track only while the stream lacks a
\* kind (line 1179).
CrashOnlyAtOdds ==
    /\ crashed # "stream"
    /\ crashed = "sender" /\ ~external => \E k \in Kinds : ~Has(k)
=============================================================================
