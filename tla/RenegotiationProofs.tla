------------------------ MODULE RenegotiationProofs ------------------------
(***************************************************************************)
(* Proofs about Renegotiation, for any number of offers: its type          *)
(* invariant, that what is sent is of the local stream or was disabled,    *)
(* that a kind is sent and received as it was asked, and when an offer     *)
(* meets a null pointer.                                                   *)
(***************************************************************************)
EXTENDS Renegotiation, WellFoundedInduction, TLAPS

-----------------------------------------------------------------------------
(* Sequences of transceivers.                                              *)

Transceivers == [kind : Kinds, track : Tracks, way : Directions]

LEMMA Indices ==
    ASSUME NEW ts \in Seq(Transceivers)
    PROVE  /\ Len(ts) \in Nat /\ DOMAIN ts = 1..Len(ts)
           /\ \A i \in DOMAIN ts : i \in Nat /\ i # 0 /\ ts[i] \in Transceivers
OBVIOUS

LEMMA Fields ==
    ASSUME NEW t \in Transceivers
    PROVE  t.kind \in Kinds /\ t.track \in Tracks /\ t.way \in Directions
BY DEF Transceivers

LEMMA OfFields ==
    ASSUME NEW k \in Kinds, NEW track \in Tracks, NEW way \in Directions
    PROVE  /\ [kind |-> k, track |-> track, way |-> way] \in Transceivers
           /\ \A t \in Transceivers :
                 /\ [t EXCEPT !.track = track] \in Transceivers
                 /\ [t EXCEPT !.way = way] \in Transceivers
                 /\ [t EXCEPT !.track = track, !.way = way] \in Transceivers
BY DEF Transceivers

LEMMA Replaced ==
    ASSUME NEW ts \in Seq(Transceivers), NEW i \in DOMAIN ts, NEW t \in Transceivers
    PROVE  /\ ReplaceAt(ts, i, t) \in Seq(Transceivers)
           /\ DOMAIN ReplaceAt(ts, i, t) = DOMAIN ts
           /\ ReplaceAt(ts, i, t)[i] = t
           /\ \A j \in DOMAIN ts : j # i => ReplaceAt(ts, i, t)[j] = ts[j]
BY DEF ReplaceAt

LEMMA Appended ==
    ASSUME NEW ts \in Seq(Transceivers), NEW t \in Transceivers
    PROVE  /\ Append(ts, t) \in Seq(Transceivers)
           /\ Len(ts) + 1 \notin DOMAIN ts
           /\ DOMAIN Append(ts, t) = DOMAIN ts \cup {Len(ts) + 1}
           /\ Append(ts, t)[Len(ts) + 1] = t
           /\ \A i \in DOMAIN ts : Append(ts, t)[i] = ts[i]
OBVIOUS

\* A set of numbers that is not empty has a least one.
LEMMA Least ==
    ASSUME NEW S \in SUBSET Nat, S # {}
    PROVE  \E m \in S : \A n \in S : m <= n
<1>1. PICK m \in S : \A n \in S : ~ (<<n, m>> \in OpToRel(<, Nat))
  BY NatLessThanWellFounded, WFMin
<1>2. \A n \in S : ~(n < m)
  BY <1>1 DEF OpToRel
<1>3. \A n \in S : m <= n
  BY <1>2
<1> QED
  BY <1>3

LEMMA FirstIs ==
    ASSUME NEW ts \in Seq(Transceivers), NEW k
    PROVE  \/ FirstOf(ts, k) = 0 /\ \A i \in DOMAIN ts : ts[i].kind # k
           \/ FirstOf(ts, k) \in DOMAIN ts /\ FirstOf(ts, k) # 0 /\ ts[FirstOf(ts, k)].kind = k
<1> DEFINE I == {i \in 1..Len(ts) : ts[i].kind = k}
<1>1. FirstOf(ts, k) = IF I # {} THEN CHOOSE x \in I : \A y \in I : x <= y ELSE 0
  BY DEF FirstOf, SelectInSeq, Min
<1>2. CASE I = {}
  BY <1>1, <1>2, Indices
<1>3. CASE I # {}
  <2>1. \E x \in I : \A y \in I : x <= y
    BY <1>3, Least, Indices
  <2>2. FirstOf(ts, k) \in I
    BY <1>1, <1>3, <2>1
  <2> QED
    BY <2>2, Indices
<1> QED
  BY <1>2, <1>3

-----------------------------------------------------------------------------
(* What is done to a sequence of transceivers.                             *)

One(ts) == \A i, j \in DOMAIN ts : ts[i].kind = ts[j].kind => i = j
Carries(ts, k, track) == \E i \in DOMAIN ts : ts[i].kind = k /\ ts[i].track = track
Untouched(ts, k) == \A i \in DOMAIN ts : ts[i].kind = k => ts[i].track = 0 /\ i \notin used

\* The transceivers stay, with their kinds.
Extends(ts, us) ==
    /\ us \in Seq(Transceivers) /\ DOMAIN ts \subseteq DOMAIN us
    /\ \A i \in DOMAIN ts : us[i].kind = ts[i].kind

\* A track of one kind is put on a transceiver, if it is one.
Puts(ts, us, k, track) ==
    /\ Extends(ts, us)
    /\ \A i \in DOMAIN us : \/ i \in DOMAIN ts /\ us[i] = ts[i]
                            \/ us[i].kind = k /\ us[i].track = track /\ track # 0
    /\ track = 0 => us = ts
    /\ track # 0 => Carries(us, k, track)

LEMMA Ways ==
    ASSUME NEW way \in Directions
    PROVE  /\ StopsSending(way) \in Directions /\ StartsSending(way) \in Directions
           /\ StopsSending(way) \notin SendingWays
BY DEF Directions, StopsSending, StartsSending, SendingWays

LEMMA RemoveTracksDoes ==
    ASSUME NEW ts \in Seq(Transceivers), NEW kinds
    PROVE  /\ RemoveTracks(ts, kinds) \in Seq(Transceivers)
           /\ DOMAIN RemoveTracks(ts, kinds) = DOMAIN ts
           /\ \A i \in DOMAIN ts :
                 /\ RemoveTracks(ts, kinds)[i].kind = ts[i].kind
                 /\ \/ RemoveTracks(ts, kinds)[i] = ts[i]
                    \/ /\ ts[i].kind \in kinds
                       /\ RemoveTracks(ts, kinds)[i].track = 0
                       /\ RemoveTracks(ts, kinds)[i].way \notin SendingWays
<1> DEFINE us == RemoveTracks(ts, kinds)
<1>1. us = [i \in DOMAIN ts |-> IF ts[i].kind \in kinds /\ ts[i].track # 0
                                THEN [ts[i] EXCEPT !.track = 0, !.way = StopsSending(@)]
                                ELSE ts[i]]
  BY DEF RemoveTracks
<1>2. DOMAIN ts = 1..Len(ts) /\ Len(ts) \in Nat /\ DOMAIN us = DOMAIN ts
  BY <1>1, Indices
<1>3. ASSUME NEW i \in DOMAIN ts
      PROVE  /\ us[i] \in Transceivers
             /\ us[i].kind = ts[i].kind
             /\ \/ us[i] = ts[i]
                \/ ts[i].kind \in kinds /\ us[i].track = 0 /\ us[i].way \notin SendingWays
  <2>1. ts[i] \in Transceivers /\ ts[i].kind \in Kinds /\ ts[i].way \in Directions
    BY Indices, Fields
  <2>2. CASE ts[i].kind \in kinds /\ ts[i].track # 0
    <3>1. us[i] = [ts[i] EXCEPT !.track = 0, !.way = StopsSending(ts[i].way)]
      BY <1>1, <2>2
    <3>2. 0 \in Tracks
      BY BoundAssumption DEF Tracks
    <3>3. StopsSending(ts[i].way) \in Directions
      BY <2>1, Ways
    <3>4. us[i] \in Transceivers
      BY <2>1, <3>1, <3>2, <3>3 DEF Transceivers
    <3>5. us[i].kind = ts[i].kind /\ us[i].track = 0 /\ us[i].way = StopsSending(ts[i].way)
      BY <2>1, <3>1 DEF Transceivers
    <3> QED
      BY <2>1, <2>2, <3>4, <3>5, Ways
  <2>3. CASE ~(ts[i].kind \in kinds /\ ts[i].track # 0)
    BY <1>1, <2>1, <2>3
  <2> QED
    BY <2>2, <2>3
<1> HIDE DEF us
<1>4. us \in [1..Len(ts) -> Transceivers]
  <2>1. us = [i \in DOMAIN us |-> us[i]]
    BY <1>1
  <2> QED
    BY <1>2, <1>3, <2>1
<1>5. us \in Seq(Transceivers)
  BY <1>2, <1>4
<1> QED
  BY <1>2, <1>3, <1>5 DEF us

LEMMA PutAt ==
    ASSUME NEW ts \in Seq(Transceivers), NEW k \in Kinds, NEW track \in Tracks, track # 0,
           NEW i \in DOMAIN ts, ts[i].kind = k,
           NEW t \in Transceivers, t.kind = k, t.track = track
    PROVE  Puts(ts, ReplaceAt(ts, i, t), k, track) /\ (One(ts) => One(ReplaceAt(ts, i, t)))
<1> DEFINE us == ReplaceAt(ts, i, t)
<1>1. /\ us \in Seq(Transceivers) /\ DOMAIN us = DOMAIN ts
      /\ us[i] = t /\ \A j \in DOMAIN ts : j # i => us[j] = ts[j]
  BY Replaced
<1> HIDE DEF us
<1>2. \A j \in DOMAIN ts : us[j].kind = ts[j].kind
  BY <1>1
<1>3. Puts(ts, us, k, track)
  BY <1>1, <1>2 DEF Puts, Extends, Carries
<1>4. One(ts) => One(us)
  BY <1>1, <1>2 DEF One
<1> QED
  BY <1>3, <1>4 DEF us

LEMMA PutLast ==
    ASSUME NEW ts \in Seq(Transceivers), NEW k \in Kinds, NEW track \in Tracks, track # 0,
           NEW t \in Transceivers, t.kind = k, t.track = track
    PROVE  /\ Puts(ts, Append(ts, t), k, track)
           /\ One(ts) /\ (\A i \in DOMAIN ts : ts[i].kind # k) => One(Append(ts, t))
<1> DEFINE us == Append(ts, t)
<1>1. PICK n : /\ us \in Seq(Transceivers) /\ n \notin DOMAIN ts
               /\ DOMAIN us = DOMAIN ts \cup {n}
               /\ us[n] = t /\ \A i \in DOMAIN ts : us[i] = ts[i]
  BY Appended
<1> HIDE DEF us
<1>2. Puts(ts, us, k, track)
  BY <1>1 DEF Puts, Extends, Carries
<1>3. One(ts) /\ (\A i \in DOMAIN ts : ts[i].kind # k) => One(us)
  BY <1>1 DEF One
<1> QED
  BY <1>2, <1>3 DEF us

LEMMA AddTrackDoes ==
    ASSUME NEW ts \in Seq(Transceivers), NEW k \in Kinds, NEW track \in Tracks
    PROVE  /\ Puts(ts, AddTrack(ts, k, track), k, track)
           /\ One(ts) /\ Untouched(ts, k) => One(AddTrack(ts, k, track))
<1> DEFINE free == {i \in DOMAIN ts : ts[i].kind = k /\ ts[i].track = 0 /\ i \notin used}
           taken == CHOOSE i \in free : \A j \in free : i <= j
           us == AddTrack(ts, k, track)
           t == [ts[taken] EXCEPT !.track = track, !.way = StartsSending(@)]
           s == [kind |-> k, track |-> track, way |-> "sendrecv"]
<1>1. us = IF track = 0 \/ \E i \in DOMAIN ts : ts[i].kind = k /\ ts[i].track = track THEN ts
           ELSE IF free # {} THEN ReplaceAt(ts, taken, t) ELSE Append(ts, s)
  BY DEF AddTrack
<1>2. CASE track = 0 \/ \E i \in DOMAIN ts : ts[i].kind = k /\ ts[i].track = track
  <2>1. us = ts
    BY <1>1, <1>2
  <2> QED
    BY <1>2, <2>1 DEF Puts, Extends, Carries
<1>3. CASE track # 0 /\ ~(\E i \in DOMAIN ts : ts[i].kind = k /\ ts[i].track = track) /\ free # {}
  <2>1. us = ReplaceAt(ts, taken, t)
    BY <1>1, <1>3
  <2>2. taken \in free
    <3>1. free \in SUBSET Nat
      BY Indices
    <3>2. \E i \in free : \A j \in free : i <= j
      BY <1>3, <3>1, Least
    <3> QED
      BY <3>2
  <2>3. taken \in DOMAIN ts /\ ts[taken].kind = k
    BY <2>2
  <2> HIDE DEF taken, free
  <2>4. ts[taken] \in Transceivers /\ ts[taken].way \in Directions
    BY <2>3, Indices, Fields
  <2>5. t \in Transceivers
    BY <2>4, Ways, OfFields
  <2>6. t.kind = k /\ t.track = track
    BY <2>3, <2>4 DEF Transceivers
  <2> HIDE DEF t, us
  <2> QED
    BY <1>3, <2>1, <2>3, <2>5, <2>6, PutAt DEF us
<1>4. CASE track # 0 /\ ~(\E i \in DOMAIN ts : ts[i].kind = k /\ ts[i].track = track) /\ free = {}
  <2>1. us = Append(ts, s)
    BY <1>1, <1>4
  <2>2. s \in Transceivers /\ s.kind = k /\ s.track = track
    BY OfFields DEF Directions
  <2>3. Untouched(ts, k) => \A i \in DOMAIN ts : ts[i].kind # k
    BY <1>4 DEF Untouched
  <2> HIDE DEF s, us, free
  <2> QED
    BY <1>4, <2>1, <2>2, <2>3, PutLast DEF us
<1> QED
  BY <1>2, <1>3, <1>4

LEMMA UpdateDoes ==
    ASSUME NEW ts \in Seq(Transceivers), NEW k \in Kinds, NEW track \in Tracks
    PROVE  Puts(ts, Update(ts, k, track), k, track) /\ (One(ts) => One(Update(ts, k, track)))
<1> DEFINE i == FirstOf(ts, k)
           us == Update(ts, k, track)
           t == [ts[i] EXCEPT !.track = track]
<1>1. us = IF track = 0 THEN ts ELSE IF i # 0 THEN ReplaceAt(ts, i, t) ELSE AddTrack(ts, k, track)
  BY DEF Update
<1>2. CASE track = 0
  <2>1. us = ts
    BY <1>1, <1>2
  <2> QED
    BY <1>2, <2>1 DEF Puts, Extends
<1>3. CASE track # 0 /\ i = 0
  <2>1. us = AddTrack(ts, k, track)
    BY <1>1, <1>3
  <2>2. Untouched(ts, k)
    BY <1>3, FirstIs DEF Untouched
  <2> QED
    BY <2>1, <2>2, AddTrackDoes
<1>4. CASE track # 0 /\ i # 0
  <2>1. us = ReplaceAt(ts, i, t)
    BY <1>1, <1>4
  <2>2. i \in DOMAIN ts /\ ts[i].kind = k
    BY <1>4, FirstIs
  <2> HIDE DEF i
  <2>3. ts[i] \in Transceivers /\ 0 \in Tracks
    BY <2>2, Indices, BoundAssumption DEF Tracks
  <2>4. t \in Transceivers
    BY <2>3, OfFields DEF Directions
  <2>5. t.kind = k /\ t.track = track
    BY <2>2, <2>3 DEF Transceivers
  <2> HIDE DEF t, us
  <2> QED
    BY <1>4, <2>1, <2>2, <2>4, <2>5, PutAt DEF us
<1> QED
  BY <1>2, <1>3, <1>4

\* The direction of one kind is set.
Directs(ts, us, k, m) ==
    /\ Extends(ts, us)
    /\ \A i \in DOMAIN us :
          \/ /\ i \in DOMAIN ts /\ us[i].track = ts[i].track
             /\ us[i] = ts[i] \/ (us[i].kind = k /\ us[i].way = Way(m))
          \/ i \notin DOMAIN ts /\ us[i].kind = k /\ us[i].track = 0 /\ us[i].way = "recvonly"
    /\ One(ts) =>
          /\ One(us)
          /\ ~Left(m) => \A i \in DOMAIN us : us[i].kind = k => us[i].way = Way(m)
    /\ Way(m) = "recvonly" => \E i \in DOMAIN us : us[i].kind = k

LEMMA WayIs ==
    ASSUME NEW m \in Configs
    PROVE  /\ Way(m) \in Directions
           /\ Way(m) \in SendingWays <=> Sends(m)
           /\ Left(m) <=> Way(m) = "inactive" /\ m.change # "remove"
<1>1. ASSUME Sends(m), Receives(m) PROVE Way(m) = "sendrecv"
  BY <1>1 DEF Way
<1>2. Sends(m) /\ ~Receives(m) => Way(m) = "sendonly"
  BY DEF Way
<1>3. ~Sends(m) /\ Receives(m) => Way(m) = "recvonly"
  BY DEF Way
<1>4. ~Sends(m) /\ ~Receives(m) => Way(m) = "inactive"
  BY DEF Way
<1>5. Left(m) <=> Way(m) = "inactive" /\ m.change # "remove"
  BY DEF Left
<1>6. Sends(m) \in BOOLEAN /\ Receives(m) \in BOOLEAN
  BY DEF Sends, Receives, Configs
<1> QED
  BY <1>1, <1>2, <1>3, <1>4, <1>5, <1>6 DEF SendingWays, Directions

LEMMA DirectedDoes ==
    ASSUME NEW ts \in Seq(Transceivers), NEW k \in Kinds, NEW m \in Configs
    PROVE  Directs(ts, Directed(ts, k, m), k, m)
<1> DEFINE i == FirstOf(ts, k)
           us == Directed(ts, k, m)
           t == [ts[i] EXCEPT !.way = Way(m)]
           s == [kind |-> k, track |-> 0, way |-> "recvonly"]
<1>1. /\ i # 0 /\ ~Left(m) => us = ReplaceAt(ts, i, t)
      /\ i = 0 /\ Way(m) = "recvonly" => us = Append(ts, s)
      /\ ~(i # 0 /\ ~Left(m)) /\ ~(i = 0 /\ Way(m) = "recvonly") => us = ts
  BY DEF Directed
<1>2. 0 \in Tracks
  BY BoundAssumption DEF Tracks
<1>3. \/ i = 0 /\ \A j \in DOMAIN ts : ts[j].kind # k
      \/ i \in DOMAIN ts /\ i # 0 /\ ts[i].kind = k
  BY FirstIs
<1>4. CASE i # 0 /\ ~Left(m)
  <2>1. i \in DOMAIN ts /\ ts[i].kind = k
    BY <1>3, <1>4
  <2>2. ts[i] \in Transceivers
    BY <2>1, Indices
  <2>3. us = ReplaceAt(ts, i, t)
    BY <1>1, <1>4
  <2> HIDE DEF i, us
  <2>4. t \in Transceivers
    BY <1>2, <2>2, OfFields, WayIs
  <2>5. t.kind = k /\ t.track = ts[i].track /\ t.way = Way(m)
    BY <2>1, <2>2 DEF Transceivers
  <2> HIDE DEF t
  <2>6. /\ us \in Seq(Transceivers) /\ DOMAIN us = DOMAIN ts
        /\ us[i] = t /\ \A j \in DOMAIN ts : j # i => us[j] = ts[j]
    BY <2>1, <2>3, <2>4, Replaced
  <2>7. \A j \in DOMAIN ts : us[j].kind = ts[j].kind
    BY <2>1, <2>5, <2>6
  <2>8. One(ts) => One(us) /\ \A j \in DOMAIN us : us[j].kind = k => us[j].way = Way(m)
    BY <2>1, <2>5, <2>6, <2>7 DEF One
  <2>9. Directs(ts, us, k, m)
    BY <2>1, <2>5, <2>6, <2>7, <2>8 DEF Directs, Extends
  <2> QED
    BY <2>9 DEF us
<1>5. CASE i = 0 /\ Way(m) = "recvonly"
  <2>1. \A j \in DOMAIN ts : ts[j].kind # k
    BY <1>3, <1>5
  <2>2. s \in Transceivers /\ s.kind = k /\ s.track = 0 /\ s.way = "recvonly"
    BY <1>2, OfFields DEF Directions
  <2>3. us = Append(ts, s)
    BY <1>1, <1>5
  <2> HIDE DEF s, us
  <2>4. PICK n : /\ us \in Seq(Transceivers) /\ n \notin DOMAIN ts
                 /\ DOMAIN us = DOMAIN ts \cup {n}
                 /\ us[n] = s /\ \A j \in DOMAIN ts : us[j] = ts[j]
    BY <2>2, <2>3, Appended
  <2>5. One(ts) => One(us) /\ \A j \in DOMAIN us : us[j].kind = k => us[j].way = Way(m)
    BY <1>5, <2>1, <2>2, <2>4 DEF One
  <2>6. Directs(ts, us, k, m)
    BY <2>2, <2>4, <2>5 DEF Directs, Extends
  <2> QED
    BY <2>6 DEF us
<1>6. CASE ~(i # 0 /\ ~Left(m)) /\ ~(i = 0 /\ Way(m) = "recvonly")
  <2>1. us = ts
    BY <1>1, <1>6
  <2>2. Way(m) = "recvonly" => i # 0 /\ ~Left(m)
    BY <1>6, WayIs
  <2>3. ~Left(m) => \A j \in DOMAIN ts : ts[j].kind # k
    BY <1>3, <1>6
  <2>4. ~(Way(m) = "recvonly")
    BY <1>6, <2>2
  <2> QED
    BY <2>1, <2>3, <2>4 DEF Directs, Extends
<1> QED
  BY <1>4, <1>5, <1>6

-----------------------------------------------------------------------------
(* What prepareStreams and configTracks do to the transceivers.            *)

\* The track an offer gives to the senders of a kind.
Gift(k, given, whole, adds) ==
    IF given # NoStream /\ (whole \/ k \in adds) THEN given[k] ELSE 0

\* The transceivers of a kind have the direction the plan asks for.
Aims(us, k, m) ==
    /\ ~Left(m) => \A i \in DOMAIN us : us[i].kind = k => us[i].way = Way(m)
    /\ Way(m) = "recvonly" => \E i \in DOMAIN us : us[i].kind = k

\* Tracks and directions stay, or are those given and planned.
Prepares(ts, us, plan, audio, video) ==
    /\ Extends(ts, us)
    /\ \A i \in DOMAIN us :
          \/ i \in DOMAIN ts /\ us[i].track = ts[i].track
          \/ i \notin DOMAIN ts /\ us[i].track = 0
          \/ us[i].track # 0 /\ us[i].kind = "audio" /\ us[i].track = audio
          \/ us[i].track # 0 /\ us[i].kind = "video" /\ us[i].track = video
    /\ audio = 0 /\ video = 0 =>
          \A i \in DOMAIN us : \/ i \in DOMAIN ts /\ us[i].way = ts[i].way
                               \/ us[i].way \in {"recvonly", Way(plan.audio), Way(plan.video)}
    /\ audio # 0 => Carries(us, "audio", audio)
    /\ video # 0 => Carries(us, "video", video)

LEMMA GiftIs ==
    ASSUME NEW k \in Kinds, NEW given \in Streams \cup {NoStream}, NEW whole, NEW adds
    PROVE  Gift(k, given, whole, adds) \in Tracks
<1>1. given # NoStream => given \in Streams
  OBVIOUS
<1>2. given # NoStream => given[k] \in Tracks
  BY <1>1 DEF Streams
<1>3. 0 \in Tracks
  BY BoundAssumption DEF Tracks
<1> QED
  BY <1>2, <1>3 DEF Gift

LEMMA PlacedDoes ==
    ASSUME NEW ts \in Seq(Transceivers), NEW k \in Kinds,
           NEW given \in Streams \cup {NoStream}, NEW whole \in BOOLEAN, NEW adds
    PROVE  /\ Puts(ts, Placed(ts, k, given, whole, adds), k, Gift(k, given, whole, adds))
           /\ One(ts) /\ (whole => Untouched(ts, k)) => One(Placed(ts, k, given, whole, adds))
<1> DEFINE us == Placed(ts, k, given, whole, adds)
           gift == Gift(k, given, whole, adds)
<1>1. gift \in Tracks
  BY GiftIs
<1>2. CASE given = NoStream \/ (~whole /\ k \notin adds)
  <2>1. us = ts /\ gift = 0
    BY <1>2 DEF Placed, Gift
  <2> QED
    BY <2>1 DEF Puts, Extends
<1>3. CASE given # NoStream /\ whole
  <2>1. us = AddTrack(ts, k, gift)
    BY <1>3 DEF Placed, Gift
  <2> HIDE DEF us, gift
  <2>2. Puts(ts, us, k, gift) /\ (One(ts) /\ Untouched(ts, k) => One(us))
    BY <1>1, <2>1, AddTrackDoes
  <2> QED
    BY <1>3, <2>2 DEF us, gift
<1>4. CASE given # NoStream /\ ~whole /\ k \in adds
  <2>1. us = Update(ts, k, gift)
    BY <1>4 DEF Placed, Gift
  <2> HIDE DEF us, gift
  <2>2. Puts(ts, us, k, gift) /\ (One(ts) => One(us))
    BY <1>1, <2>1, UpdateDoes
  <2> QED
    BY <2>2 DEF us, gift
<1> QED
  BY <1>2, <1>3, <1>4

\* Both kinds are placed.
LEMMA TwoPlaced ==
    ASSUME NEW ts, NEW us, NEW vs, NEW audio, NEW video,
           Puts(ts, us, "audio", audio), Puts(us, vs, "video", video)
    PROVE  /\ Extends(ts, vs)
           /\ \A i \in DOMAIN vs :
                 \/ i \in DOMAIN ts /\ vs[i] = ts[i]
                 \/ vs[i].track # 0 /\ vs[i].kind = "audio" /\ vs[i].track = audio
                 \/ vs[i].track # 0 /\ vs[i].kind = "video" /\ vs[i].track = video
           /\ audio = 0 /\ video = 0 => vs = ts
           /\ audio # 0 => Carries(vs, "audio", audio)
           /\ video # 0 => Carries(vs, "video", video)
           /\ Untouched(ts, "video") => Untouched(us, "video")
<1>1. Extends(ts, vs)
  BY DEF Puts, Extends
<1>2. \A i \in DOMAIN vs :
          \/ i \in DOMAIN ts /\ vs[i] = ts[i]
          \/ vs[i].track # 0 /\ vs[i].kind = "audio" /\ vs[i].track = audio
          \/ vs[i].track # 0 /\ vs[i].kind = "video" /\ vs[i].track = video
  BY DEF Puts, Extends
<1>3. audio # 0 => Carries(vs, "audio", audio)
  <2> SUFFICES ASSUME audio # 0 PROVE Carries(vs, "audio", audio)
    OBVIOUS
  <2>1. PICK i \in DOMAIN us : us[i].kind = "audio" /\ us[i].track = audio
    BY DEF Puts, Carries
  <2>2. i \in DOMAIN vs /\ vs[i].kind = "audio"
    BY <2>1 DEF Puts, Extends
  <2>3. vs[i] = us[i]
    BY <2>1, <2>2 DEF Puts
  <2> QED
    BY <2>1, <2>2, <2>3 DEF Carries
<1>4. Untouched(ts, "video") => Untouched(us, "video")
  BY DEF Puts, Untouched
<1> QED
  BY <1>1, <1>2, <1>3, <1>4 DEF Puts

\* Both directions are set.
LEMMA TwoDirected ==
    ASSUME NEW ts, NEW us, NEW vs, NEW a, NEW v,
           Directs(ts, us, "audio", a), Directs(us, vs, "video", v)
    PROVE  /\ Extends(ts, vs)
           /\ \A i \in DOMAIN vs :
                 /\ \/ i \in DOMAIN ts /\ vs[i].track = ts[i].track
                    \/ i \notin DOMAIN ts /\ vs[i].track = 0
                 /\ \/ i \in DOMAIN ts /\ vs[i].way = ts[i].way
                    \/ vs[i].way \in {"recvonly", Way(a), Way(v)}
           /\ One(ts) => One(vs) /\ Aims(vs, "audio", a) /\ Aims(vs, "video", v)
<1>1. Extends(ts, vs)
  BY DEF Directs, Extends
<1>2. ASSUME NEW i \in DOMAIN vs
      PROVE  /\ \/ i \in DOMAIN ts /\ vs[i].track = ts[i].track
                \/ i \notin DOMAIN ts /\ vs[i].track = 0
             /\ \/ i \in DOMAIN ts /\ vs[i].way = ts[i].way
                \/ vs[i].way \in {"recvonly", Way(a), Way(v)}
  <2>1. CASE i \in DOMAIN us
    <3>1. vs[i].track = us[i].track /\ (vs[i] = us[i] \/ vs[i].way = Way(v))
      BY <2>1 DEF Directs
    <3>2. \/ i \in DOMAIN ts /\ us[i].track = ts[i].track /\ (us[i] = ts[i] \/ us[i].way = Way(a))
          \/ i \notin DOMAIN ts /\ us[i].track = 0 /\ us[i].way = "recvonly"
      BY <2>1 DEF Directs
    <3> QED
      BY <3>1, <3>2
  <2>2. CASE i \notin DOMAIN us
    <3>1. vs[i].track = 0 /\ vs[i].way = "recvonly" /\ i \notin DOMAIN ts
      BY <2>2 DEF Directs, Extends
    <3> QED
      BY <3>1
  <2> QED
    BY <2>1, <2>2
<1>3. One(ts) => One(us) /\ One(vs)
  BY DEF Directs
<1>4. One(ts) => Aims(vs, "video", v)
  BY <1>3 DEF Directs, Aims
<1>5. One(ts) => Aims(vs, "audio", a)
  <2> SUFFICES ASSUME One(ts) PROVE Aims(vs, "audio", a)
    OBVIOUS
  <2>1. \A i \in DOMAIN vs : vs[i].kind = "audio" => i \in DOMAIN us /\ vs[i] = us[i]
    BY DEF Directs, Extends
  <2>2. ~Left(a) => \A i \in DOMAIN us : us[i].kind = "audio" => us[i].way = Way(a)
    BY DEF Directs
  <2>3. Way(a) = "recvonly" => \E i \in DOMAIN us : us[i].kind = "audio"
    BY DEF Directs
  <2>4. \A i \in DOMAIN us : i \in DOMAIN vs /\ vs[i].kind = us[i].kind
    BY DEF Directs, Extends
  <2> QED
    BY <2>1, <2>2, <2>3, <2>4 DEF Aims
<1> QED
  BY <1>1, <1>2, <1>3, <1>4, <1>5

LEMMA PreparedDoes ==
    ASSUME NEW ts \in Seq(Transceivers), NEW plan, plan.audio \in Configs, plan.video \in Configs,
           NEW given \in Streams \cup {NoStream}, NEW whole \in BOOLEAN, NEW adds
    PROVE  /\ Prepares(ts, Prepared(plan, ts, given, whole, adds), plan,
                       Gift("audio", given, whole, adds), Gift("video", given, whole, adds))
           /\ One(ts) /\ (whole => Untouched(ts, "audio") /\ Untouched(ts, "video")) =>
                 /\ One(Prepared(plan, ts, given, whole, adds))
                 /\ Aims(Prepared(plan, ts, given, whole, adds), "audio", plan.audio)
                 /\ Aims(Prepared(plan, ts, given, whole, adds), "video", plan.video)
<1> DEFINE a == Gift("audio", given, whole, adds)
           v == Gift("video", given, whole, adds)
           us == Placed(ts, "audio", given, whole, adds)
           vs == Placed(us, "video", given, whole, adds)
           xs == Directed(vs, "audio", plan.audio)
           ys == Directed(xs, "video", plan.video)
<1>1. Prepared(plan, ts, given, whole, adds) = ys
  BY DEF Prepared
<1>2. "audio" \in Kinds /\ "video" \in Kinds
  BY DEF Kinds
<1>3. Puts(ts, us, "audio", a) /\ (One(ts) /\ (whole => Untouched(ts, "audio")) => One(us))
  BY <1>2, PlacedDoes
<1>4. us \in Seq(Transceivers)
  <2> HIDE DEF us
  <2> QED
    BY <1>3 DEF Puts, Extends
<1> HIDE DEF us
<1>5. Puts(us, vs, "video", v) /\ (One(us) /\ (whole => Untouched(us, "video")) => One(vs))
  BY <1>2, <1>4, PlacedDoes
<1> HIDE DEF vs
<1>6. vs \in Seq(Transceivers)
  BY <1>5 DEF Puts, Extends
<1>7. Directs(vs, xs, "audio", plan.audio)
  BY <1>2, <1>6, DirectedDoes
<1> HIDE DEF xs
<1>8. xs \in Seq(Transceivers)
  BY <1>7 DEF Directs, Extends
<1>9. Directs(xs, ys, "video", plan.video)
  BY <1>2, <1>8, DirectedDoes
<1> HIDE DEF ys, a, v
<1>10. /\ Extends(ts, vs)
       /\ \A i \in DOMAIN vs :
             \/ i \in DOMAIN ts /\ vs[i] = ts[i]
             \/ vs[i].track # 0 /\ vs[i].kind = "audio" /\ vs[i].track = a
             \/ vs[i].track # 0 /\ vs[i].kind = "video" /\ vs[i].track = v
       /\ a = 0 /\ v = 0 => vs = ts
       /\ a # 0 => Carries(vs, "audio", a)
       /\ v # 0 => Carries(vs, "video", v)
       /\ Untouched(ts, "video") => Untouched(us, "video")
  BY <1>3, <1>5, TwoPlaced
<1>11. /\ Extends(vs, ys)
       /\ \A i \in DOMAIN ys :
             /\ \/ i \in DOMAIN vs /\ ys[i].track = vs[i].track
                \/ i \notin DOMAIN vs /\ ys[i].track = 0
             /\ \/ i \in DOMAIN vs /\ ys[i].way = vs[i].way
                \/ ys[i].way \in {"recvonly", Way(plan.audio), Way(plan.video)}
       /\ One(vs) => One(ys) /\ Aims(ys, "audio", plan.audio) /\ Aims(ys, "video", plan.video)
  BY <1>7, <1>9, TwoDirected
<1>12. Extends(ts, ys)
  BY <1>10, <1>11 DEF Extends
<1>13. \A i \in DOMAIN vs : i \in DOMAIN ys /\ ys[i].kind = vs[i].kind /\ ys[i].track = vs[i].track
  BY <1>11 DEF Extends
<1>14. \A k, t : Carries(vs, k, t) => Carries(ys, k, t)
  BY <1>13 DEF Carries
<1>15. ASSUME NEW i \in DOMAIN ys
       PROVE  \/ i \in DOMAIN ts /\ ys[i].track = ts[i].track
              \/ i \notin DOMAIN ts /\ ys[i].track = 0
              \/ ys[i].track # 0 /\ ys[i].kind = "audio" /\ ys[i].track = a
              \/ ys[i].track # 0 /\ ys[i].kind = "video" /\ ys[i].track = v
  <2>1. CASE i \in DOMAIN vs
    BY <1>10, <1>13, <2>1
  <2>2. CASE i \notin DOMAIN vs
    BY <1>10, <1>11, <2>2 DEF Extends
  <2> QED
    BY <2>1, <2>2
<1>16. Prepares(ts, ys, plan, a, v)
  BY <1>10, <1>11, <1>12, <1>14, <1>15 DEF Prepares
<1>17. One(ts) /\ (whole => Untouched(ts, "audio") /\ Untouched(ts, "video")) =>
          One(ys) /\ Aims(ys, "audio", plan.audio) /\ Aims(ys, "video", plan.video)
  BY <1>3, <1>5, <1>10, <1>11
<1> QED
  BY <1>1, <1>16, <1>17 DEF ys, a, v

-----------------------------------------------------------------------------
(* The plan.                                                               *)

Giving == {"add", "replace"}

LEMMA ChosenIs ==
    ASSUME NEW m \in Configs
    PROVE  /\ Chosen(m) \in Configs
           /\ Chosen(m).on = m.on /\ Chosen(m).change = m.change
           /\ m.change \in Giving => Chosen(m).send /\ ~Chosen(m).keep
           /\ m.change = "remove" => ~Chosen(m).send
           /\ m.change = "none" => Chosen(m) = m
<1>1. m.change \in {"none", "add", "remove", "replace"}
  BY DEF Configs
<1>2. CASE m.change \in Giving
  <2>1. Chosen(m) = [m EXCEPT !.keep = FALSE, !.send = TRUE]
    BY <1>2 DEF Chosen, Giving
  <2> QED
    BY <1>2, <2>1 DEF Configs, Giving
<1>3. CASE m.change = "remove"
  <2>1. Chosen(m) = [m EXCEPT !.keep = FALSE, !.send = FALSE]
    BY <1>3 DEF Chosen
  <2> QED
    BY <1>3, <2>1 DEF Configs, Giving
<1>4. CASE m.change = "none"
  <2>1. Chosen(m) = m
    BY <1>4 DEF Chosen
  <2> QED
    BY <1>4, <2>1 DEF Giving
<1> QED
  BY <1>1, <1>2, <1>3, <1>4 DEF Giving

\* What is planned for a kind against the local stream: s, of the
\* configuration m.
Settles(k, m, s) ==
    /\ s \in Configs
    /\ Sends(s) /\ ~Has(k) => s.change = "add"
    /\ s.change = "add" => m.change = "add" \/ ~Has(k)
    /\ s.change \in Giving => Sends(s) \/ (~m.on /\ m.change \in Giving)
    /\ s.change = "remove" => ~Sends(s)
    /\ Sends(s) /\ s.keep /\ k = "video" => Has(k)

LEMMA SettledIs ==
    ASSUME NEW k \in Kinds, NEW m \in Configs
    PROVE  Settles(k, m, Settled(k, m))
<1> DEFINE c == Chosen(m)
           s == Settled(k, m)
           change == IF ~Has(k) /\ (c.change = "replace" \/ Sends(c)) THEN "add" ELSE c.change
           keep == IF ~Has(k) THEN c.keep /\ ~(Sends(c) /\ (k = "video" \/ local = NoStream))
                   ELSE c.keep \/ (Sends(c) /\ c.change \notin {"remove", "replace"})
<1>1. s = [c EXCEPT !.change = change, !.keep = keep]
  BY DEF Settled
<1>2. /\ c \in Configs /\ c.on = m.on /\ c.change = m.change
      /\ m.change \in Giving => c.send /\ ~c.keep
      /\ m.change = "remove" => ~c.send
  BY ChosenIs
<1> HIDE DEF c
<1>3. c.change \in {"none", "add", "remove", "replace"} /\ c.keep \in BOOLEAN
  BY <1>2 DEF Configs
<1>4. change \in {"none", "add", "remove", "replace"} /\ keep \in BOOLEAN
  BY <1>3
<1>5. ~Has(k) /\ (c.change = "replace" \/ Sends(c)) => change = "add"
  OBVIOUS
<1>6. ~(~Has(k) /\ (c.change = "replace" \/ Sends(c))) => change = m.change
  BY <1>2
<1>7. keep /\ ~Has(k) /\ k = "video" => ~Sends(c)
  OBVIOUS
<1> HIDE DEF s, change, keep
<1>8. s \in Configs /\ s.change = change /\ s.keep = keep /\ s.on = c.on /\ s.send = c.send
  BY <1>1, <1>2, <1>4 DEF Configs
<1>9. Sends(s) <=> Sends(c)
  BY <1>8 DEF Sends
<1>10. Sends(s) /\ ~Has(k) => s.change = "add"
  BY <1>5, <1>8, <1>9
<1>11. s.change = "add" => m.change = "add" \/ ~Has(k)
  BY <1>6, <1>8
<1>12. s.change \in Giving => Sends(s) \/ (~m.on /\ m.change \in Giving)
  <2>1. m.change \in Giving => Sends(s) \/ ~m.on
    BY <1>2, <1>9 DEF Sends
  <2>2. CASE ~Has(k) /\ (c.change = "replace" \/ Sends(c))
    BY <1>2, <1>9, <2>1, <2>2 DEF Giving
  <2>3. CASE ~(~Has(k) /\ (c.change = "replace" \/ Sends(c)))
    BY <1>6, <1>8, <2>1, <2>3
  <2> QED
    BY <2>2, <2>3
<1>13. s.change = "remove" => ~Sends(s)
  BY <1>2, <1>5, <1>6, <1>8, <1>9 DEF Sends
<1>14. Sends(s) /\ s.keep /\ k = "video" => Has(k)
  BY <1>7, <1>8, <1>9
<1> QED
  BY <1>8, <1>10, <1>11, <1>12, <1>13, <1>14 DEF Settles, s

\* The plan of an offer with a PeerConnection and without a stream of its own.
LEMMA PlannedAgainstStream ==
    ASSUME NEW media, media = [audio |-> media.audio, video |-> media.video],
           media.audio \in Configs, media.video \in Configs, open
    PROVE  /\ Settles("audio", media.audio, Planned(media, NoStream).audio)
           /\ Settles("video", media.video, Planned(media, NoStream).video)
<1> DEFINE v == [media.video EXCEPT !.keep = @ /\ ~ClearsVideo(media)]
<1>1. /\ Planned(media, NoStream).audio = Settled("audio", media.audio)
      /\ Planned(media, NoStream).video = Settled("video", v)
  BY DEF Planned
<1>2. v \in Configs /\ v.on = media.video.on /\ v.change = media.video.change
  BY DEF Configs
<1> HIDE DEF v
<1>3. "audio" \in Kinds /\ "video" \in Kinds
  BY DEF Kinds
<1>4. Settles("video", v, Settled("video", v))
  BY <1>2, <1>3, SettledIs
<1>5. Settles("audio", media.audio, Settled("audio", media.audio))
  BY <1>3, SettledIs
<1> QED
  BY <1>1, <1>2, <1>4, <1>5 DEF Settles

LEMMA PlannedIs ==
    ASSUME NEW media, media = [audio |-> media.audio, video |-> media.video],
           media.audio \in Configs, media.video \in Configs, NEW stream
    PROVE  /\ Planned(media, stream).audio \in Configs
           /\ Planned(media, stream).video \in Configs
<1>1. CASE ~open
  <2>1. /\ Planned(media, stream).audio = [media.audio EXCEPT !.keep = FALSE]
        /\ Planned(media, stream).video = [media.video EXCEPT !.keep = FALSE]
    <3>1. Planned(media, stream) = [media EXCEPT !.audio.keep = FALSE, !.video.keep = FALSE]
      BY <1>1 DEF Planned
    <3> QED
      BY <3>1
  <2> QED
    BY <2>1 DEF Configs
<1>2. CASE open /\ stream # NoStream
  BY <1>2 DEF Planned
<1>3. CASE open /\ stream = NoStream
  BY <1>3, PlannedAgainstStream DEF Settles
<1> QED
  BY <1>1, <1>2, <1>3

-----------------------------------------------------------------------------
(* The inductive invariant.                                                *)

\* Without a PeerConnection there is no stream and no transceiver.
ClosedInv ==
    ~open => local = NoStream /\ ~external /\ transceivers = <<>> /\ used = {}

\* Until the application gives a stream, there is one transceiver of a kind at
\* most, it carries the track of the local stream, and without a local stream
\* none has sent.
OwnInv ==
    ~external =>
        /\ One(transceivers)
        /\ \A k \in Kinds : Has(k) => Carries(transceivers, k, local[k])
        /\ local = NoStream =>
              /\ used = {}
              /\ \A i \in DOMAIN transceivers :
                    transceivers[i].track = 0 /\ transceivers[i].way \notin SendingWays

RInv == TypeOK /\ ClosedInv /\ OwnInv /\ SentIsLocal /\ AsAsked /\ CrashOnlyAtOdds

-----------------------------------------------------------------------------
(* The parts of an offer.                                                  *)

App(plan, stream) == stream # NoStream /\ ~Skips(plan)
Changing(plan) == {k \in Kinds : plan[k].change \in {"add", "replace"}}
Removing(plan) ==
    IF Skips(plan) \/ ~open \/ external THEN {}
    ELSE {k \in Kinds : plan[k].change \in {"remove", "replace"}}
Base(plan, stream) ==
    IF App(plan, stream) /\ ~external THEN NoStream ELSE Without(local, Removing(plan))
Whole(plan, stream) == TakesWhole(Base(plan, stream), App(plan, stream))
Adds(plan, stream) == IF Whole(plan, stream) THEN {} ELSE Changing(plan)
Unmet(plan, camera) ==
    {k \in Kinds : IF Skips(plan) THEN k = "audio" /\ ~Has(k) ELSE k = "video" /\ ~camera}
Kept(plan) == RemoveTracks(transceivers, Removing(plan) \ Changing(plan))
After(plan, stream, camera) ==
    Prepared(plan, Kept(plan), Given(plan, stream, camera), Whole(plan, stream), Adds(plan, stream))
GiftOf(k, plan, stream, camera) ==
    Gift(k, Given(plan, stream, camera), Whole(plan, stream), Adds(plan, stream))

\* What the calls give an offer.
Plans(media, plan, stream) ==
    /\ stream \in AppStreams \cup {NoStream}
    /\ plan.audio \in Configs /\ plan.video \in Configs
    /\ Skips(plan) => stream = NoStream
    /\ open /\ stream = NoStream =>
          \A k \in Kinds : /\ Settles(k, media[k], plan[k])
                           /\ media[k].change = "add" => ~Has(k)

LEMMA OfferedLocal ==
    ASSUME NEW media, NEW plan, NEW stream, NEW camera, NEW simulcast,
           Offer(media, plan, stream, camera, simulcast)
    PROVE  local' = IF Whole(plan, stream) THEN Given(plan, stream, camera)
                    ELSE [k \in Kinds |-> IF /\ k \in Adds(plan, stream)
                                             /\ Given(plan, stream, camera) # NoStream
                                             /\ Given(plan, stream, camera)[k] # 0
                                          THEN Given(plan, stream, camera)[k]
                                          ELSE Base(plan, stream)[k]]
BY DEF Offer, App, Changing, Removing, Base, Whole, Adds, Unmet, Kept, After

LEMMA OfferedConnection ==
    ASSUME NEW media, NEW plan, NEW stream, NEW camera, NEW simulcast,
           Offer(media, plan, stream, camera, simulcast)
    PROVE  /\ external' = (external \/ App(plan, stream))
           /\ open' = TRUE
           /\ transceivers' = After(plan, stream, camera)
           /\ used' = used \cup {i \in DOMAIN After(plan, stream, camera) :
                                    After(plan, stream, camera)[i].way \in SendingWays}
BY DEF Offer, App, Changing, Removing, Base, Whole, Adds, Unmet, Kept, After

LEMMA OfferedDisabled ==
    ASSUME NEW media, NEW plan, NEW stream, NEW camera, NEW simulcast,
           Offer(media, plan, stream, camera, simulcast)
    PROVE  disabled' = disabled \cup
              {<<k, local[k]>> : k \in {x \in DOMAIN local :
                                        Base(plan, stream) = NoStream \/ x \in Removing(plan)}}
BY DEF Offer, App, Changing, Removing, Base, Whole, Adds, Unmet, Kept, After

LEMMA OfferedAsked ==
    ASSUME NEW media, NEW plan, NEW stream, NEW camera, NEW simulcast,
           Offer(media, plan, stream, camera, simulcast)
    PROVE  asked' = [k \in Kinds |-> IF Left(plan[k]) \/ k \in Unmet(plan, camera)
                                     THEN "any" ELSE Way(plan[k])]
BY DEF Offer, App, Changing, Removing, Base, Whole, Adds, Unmet, Kept, After

LEMMA OfferedCrash ==
    ASSUME NEW media, NEW plan, NEW stream, NEW camera, NEW simulcast,
           Offer(media, plan, stream, camera, simulcast)
    PROVE  crashed' = IF Adds(plan, stream) # {} /\ Given(plan, stream, camera) = NoStream
                      THEN IF \E k \in Kinds : ~media[k].on /\ media[k].change \in {"add", "replace"}
                           THEN "at odds" ELSE "stream"
                      ELSE IF /\ simulcast /\ Sends(plan.video)
                              /\ \E i \in DOMAIN After(plan, stream, camera) :
                                    After(plan, stream, camera)[i].track = 0
                      THEN "sender" ELSE "no"
BY ZenonT(30) DEF Offer, App, Changing, Removing, Base, Whole, Adds, Unmet, Kept, After

\* The stream stays the client's own.
LEMMA OfferedOwn ==
    ASSUME NEW media, NEW plan, NEW stream, NEW camera, NEW simulcast,
           Offer(media, plan, stream, camera, simulcast),
           ~external'
    PROVE  ~external /\ ~App(plan, stream)
<1>1. external' = (external \/ App(plan, stream))
  BY OfferedConnection
<1> QED
  BY <1>1

LEMMA OfferPlans ==
    ASSUME NEW audio \in Configs, NEW video \in Configs, NEW stream \in AppStreams \cup {NoStream},
           stream # NoStream => ~audio.keep /\ ~video.keep,
           NEW media, media = [audio |-> audio, video |-> video],
           ~Refused(media, stream)
    PROVE  Plans(media, Planned(media, stream), stream)
<1> DEFINE plan == Planned(media, stream)
<1>1. media = [audio |-> media.audio, video |-> media.video] /\ media.audio = audio /\ media.video = video
  OBVIOUS
<1>2. plan.audio \in Configs /\ plan.video \in Configs
  BY <1>1, PlannedIs
<1>3. ASSUME stream # NoStream, Skips(plan) PROVE FALSE
  <2>1. open /\ plan["audio"].keep
    BY <1>3 DEF Skips, Kinds
  <2>2. plan = media
    BY <1>3, <2>1 DEF Planned
  <2> QED
    BY <1>1, <1>3, <2>1, <2>2
<1>4. ASSUME open, stream = NoStream, NEW k \in Kinds
      PROVE  Settles(k, media[k], plan[k]) /\ (media[k].change = "add" => ~Has(k))
  <2>1. Settles("audio", media.audio, plan.audio) /\ Settles("video", media.video, plan.video)
    BY <1>1, <1>4, PlannedAgainstStream
  <2>2. media[k].change = "add" => ~Has(k)
    BY <1>4 DEF Refused
  <2>3. k = "audio" \/ k = "video"
    BY DEF Kinds
  <2> HIDE DEF plan
  <2> QED
    BY <2>1, <2>2, <2>3
<1> HIDE DEF plan
<1>5. Plans(media, plan, stream)
  BY <1>2, <1>3, <1>4 DEF Plans
<1> QED
  BY <1>5 DEF plan

LEMMA GivenIs ==
    ASSUME RInv, offers < MaxOffers, NEW media, NEW plan, NEW stream, NEW camera \in BOOLEAN,
           Plans(media, plan, stream)
    PROVE  /\ Given(plan, stream, camera) \in Streams \cup {NoStream}
           /\ Skips(plan) => Given(plan, stream, camera) = local
           /\ stream = NoStream /\ ~Skips(plan) =>
                 IF \E k \in Kinds : Sends(plan[k])
                 THEN /\ Given(plan, stream, camera) # NoStream
                      /\ \A k \in Kinds \ Unmet(plan, camera) : Given(plan, stream, camera)[k] # 0
                 ELSE Given(plan, stream, camera) = NoStream
<1> DEFINE capture == [audio |-> offers + 1, video |-> IF camera THEN offers + 1 ELSE 0]
<1>1. local \in Streams \cup {NoStream} /\ offers \in Nat /\ MaxOffers \in Nat
  <2>1. local \in Streams \cup {NoStream} /\ offers \in 0..MaxOffers
    BY DEF RInv, TypeOK
  <2> QED
    BY <2>1, BoundAssumption
<1>2. offers + 1 \in Tracks /\ 0 \in Tracks /\ MaxOffers + 1 \in Tracks /\ offers + 1 # 0
  BY <1>1 DEF Tracks
<1>3. stream \in Streams \cup {NoStream}
  BY <1>2 DEF Plans, AppStreams, Streams
<1>4. capture \in Streams /\ capture["audio"] = offers + 1 /\ (camera => capture["video"] = offers + 1)
  BY <1>2 DEF Streams, Kinds
<1>5. capture # NoStream
  <2>1. DOMAIN capture = {"audio", "video"} /\ DOMAIN NoStream = {}
    BY DEF NoStream
  <2> QED
    BY <2>1
<1>6. ~Skips(plan) => \A k \in Kinds \ Unmet(plan, camera) : capture[k] # 0
  BY <1>2, <1>4 DEF Unmet, Kinds
<1> HIDE DEF capture
<1>7. Given(plan, stream, camera) = IF Skips(plan) THEN local
                                    ELSE IF stream # NoStream THEN stream
                                    ELSE IF \E k \in Kinds : Sends(plan[k]) THEN capture ELSE NoStream
  BY DEF Given, capture
<1> QED
  BY <1>1, <1>3, <1>4, <1>5, <1>6, <1>7

\* Tracks are taken from a stream that is there, and none from no stream.
LEMMA WithoutIs ==
    ASSUME NEW stream \in Streams \cup {NoStream}, NEW gone
    PROVE  /\ stream = NoStream <=> Without(stream, gone) = NoStream
           /\ stream # NoStream =>
                 /\ stream \in Streams /\ Without(stream, gone) \in Streams
                 /\ \A k \in Kinds : Without(stream, gone)[k] = IF k \in gone THEN 0 ELSE stream[k]
<1>1. 0 \in Tracks
  BY BoundAssumption DEF Tracks
<1>2. CASE stream = NoStream
  <2>1. DOMAIN stream = {} /\ DOMAIN NoStream = {}
    BY <1>2 DEF NoStream
  <2>2. Without(stream, gone) = NoStream
    BY <2>1 DEF Without, NoStream
  <2> QED
    BY <1>2, <2>2
<1>3. CASE stream # NoStream
  <2>1. stream \in [Kinds -> Tracks]
    BY <1>3 DEF Streams
  <2>2. Without(stream, gone) = [k \in Kinds |-> IF k \in gone THEN 0 ELSE stream[k]]
    BY <2>1 DEF Without
  <2>3. Without(stream, gone) \in [Kinds -> Tracks]
    BY <1>1, <2>1, <2>2
  <2>4. Without(stream, gone) # NoStream
    BY <2>2 DEF NoStream, Kinds
  <2> QED
    BY <1>3, <2>1, <2>2, <2>3, <2>4 DEF Streams
<1> QED
  BY <1>2, <1>3

\* An offer takes the stream whole, or changes the local one, which the client
\* captured; with no stream of the application it takes whole only what there
\* was nothing before.
LEMMA WholeIs ==
    ASSUME RInv, NEW media, NEW plan, NEW stream, Plans(media, plan, stream)
    PROVE  /\ Whole(plan, stream) \in BOOLEAN
           /\ ~external /\ ~App(plan, stream) =>
                 stream = NoStream /\ (Whole(plan, stream) <=> local = NoStream)
           /\ ~Whole(plan, stream) =>
                 /\ ~external /\ ~App(plan, stream) /\ open /\ stream = NoStream
                 /\ local # NoStream /\ Base(plan, stream) = Without(local, Removing(plan))
<1>1. local \in Streams \cup {NoStream}
  BY DEF RInv, TypeOK
<1>2. ~open => local = NoStream
  BY DEF RInv, ClosedInv
<1>3. ~App(plan, stream) => stream = NoStream
  BY DEF App, Plans
<1>4. local = NoStream <=> Without(local, Removing(plan)) = NoStream
  BY <1>1, WithoutIs
<1>5. App(plan, stream) \/ external => Whole(plan, stream)
  BY DEF Whole, TakesWhole
<1>6. ~App(plan, stream) => Base(plan, stream) = Without(local, Removing(plan))
  BY DEF Base
<1>7. ~external /\ ~App(plan, stream) => (Whole(plan, stream) <=> local = NoStream)
  BY <1>2, <1>4, <1>6 DEF Whole, TakesWhole
<1>8. Whole(plan, stream) \in BOOLEAN
  BY DEF Whole, TakesWhole
<1> QED
  BY <1>2, <1>3, <1>5, <1>6, <1>7, <1>8

LEMMA KeptIs ==
    ASSUME RInv, NEW plan
    PROVE  /\ Kept(plan) \in Seq(Transceivers) /\ DOMAIN Kept(plan) = DOMAIN transceivers
           /\ \A i \in DOMAIN transceivers :
                 /\ Kept(plan)[i].kind = transceivers[i].kind
                 /\ \/ Kept(plan)[i] = transceivers[i]
                    \/ /\ transceivers[i].kind \in Removing(plan)
                       /\ transceivers[i].kind \notin Changing(plan)
                       /\ Kept(plan)[i].track = 0
                       /\ Kept(plan)[i].way \notin SendingWays
           /\ One(transceivers) => One(Kept(plan))
<1> DEFINE ts == Kept(plan)
           gone == Removing(plan) \ Changing(plan)
<1>1. transceivers \in Seq(Transceivers)
  BY DEF RInv, TypeOK, Transceivers
<1>2. ts = RemoveTracks(transceivers, gone)
  BY DEF Kept
<1> HIDE DEF ts
<1>3. /\ ts \in Seq(Transceivers) /\ DOMAIN ts = DOMAIN transceivers
      /\ \A i \in DOMAIN transceivers :
            /\ ts[i].kind = transceivers[i].kind
            /\ \/ ts[i] = transceivers[i]
               \/ transceivers[i].kind \in gone /\ ts[i].track = 0 /\ ts[i].way \notin SendingWays
  BY <1>1, <1>2, RemoveTracksDoes
<1>4. One(transceivers) => One(ts)
  BY <1>3 DEF One
<1> QED
  BY <1>3, <1>4 DEF ts

\* The transceivers an offer leaves, by the tracks it gives.
LEMMA AfterIs ==
    ASSUME RInv, offers < MaxOffers, NEW media, NEW plan, NEW stream, NEW camera \in BOOLEAN,
           Plans(media, plan, stream)
    PROVE  /\ Prepares(Kept(plan), After(plan, stream, camera), plan,
                       GiftOf("audio", plan, stream, camera), GiftOf("video", plan, stream, camera))
           /\ ~external /\ ~App(plan, stream) =>
                 /\ One(After(plan, stream, camera))
                 /\ \A k \in Kinds : Aims(After(plan, stream, camera), k, plan[k])
<1> DEFINE ts == Kept(plan)
           us == After(plan, stream, camera)
           given == Given(plan, stream, camera)
           whole == Whole(plan, stream)
           adds == Adds(plan, stream)
           a == GiftOf("audio", plan, stream, camera)
           v == GiftOf("video", plan, stream, camera)
<1>1. ts \in Seq(Transceivers)
  BY KeptIs
<1>2. given \in Streams \cup {NoStream}
  BY GivenIs
<1>3. whole \in BOOLEAN
  BY WholeIs
<1>4. plan.audio \in Configs /\ plan.video \in Configs
  BY DEF Plans
<1>5. us = Prepared(plan, ts, given, whole, adds)
  BY DEF After
<1>6. a = Gift("audio", given, whole, adds) /\ v = Gift("video", given, whole, adds)
  BY DEF GiftOf
<1>7. ASSUME ~external, ~App(plan, stream)
      PROVE  One(ts) /\ (whole => Untouched(ts, "audio") /\ Untouched(ts, "video"))
  <2>1. One(ts)
    BY <1>7, KeptIs DEF RInv, OwnInv
  <2>2. whole => local = NoStream
    BY <1>7, WholeIs
  <2>3. ASSUME whole PROVE \A i \in DOMAIN ts : ts[i].track = 0 /\ i \notin used
    <3>1. used = {} /\ \A i \in DOMAIN transceivers : transceivers[i].track = 0
      BY <1>7, <2>2, <2>3 DEF RInv, OwnInv
    <3> QED
      BY <3>1, KeptIs
  <2> HIDE DEF ts, whole
  <2> QED
    BY <2>1, <2>3 DEF Untouched
<1> HIDE DEF ts, us, given, whole, adds, a, v
<1>8. /\ Prepares(ts, us, plan, a, v)
      /\ One(ts) /\ (whole => Untouched(ts, "audio") /\ Untouched(ts, "video")) =>
            One(us) /\ Aims(us, "audio", plan.audio) /\ Aims(us, "video", plan.video)
  BY <1>1, <1>2, <1>3, <1>4, <1>5, <1>6, PreparedDoes
<1>9. ~external /\ ~App(plan, stream) => One(us) /\ \A k \in Kinds : Aims(us, k, plan[k])
  BY <1>7, <1>8 DEF Kinds
<1> QED
  BY <1>8, <1>9 DEF ts, us, a, v

-----------------------------------------------------------------------------
(* What an offer leaves.                                                   *)

\* The local stream an offer leaves, by the tracks it gives and removes.
LEMMA LocalIs ==
    ASSUME RInv, offers < MaxOffers, NEW media, NEW plan, NEW stream, NEW camera \in BOOLEAN,
           NEW simulcast, Plans(media, plan, stream),
           Offer(media, plan, stream, camera, simulcast)
    PROVE  /\ local' \in Streams \cup {NoStream}
           /\ local' = NoStream => Whole(plan, stream) /\ Given(plan, stream, camera) = NoStream
           /\ \A k \in Kinds :
                 LET gift == GiftOf(k, plan, stream, camera)
                 IN /\ gift # 0 => Has(k)' /\ local'[k] = gift
                    /\ gift = 0 /\ Has(k)' =>
                          ~Whole(plan, stream) /\ k \notin Removing(plan) /\ Has(k) /\ local'[k] = local[k]
                    /\ gift = 0 /\ ~Whole(plan, stream) /\ k \notin Removing(plan) /\ Has(k) =>
                          Has(k)' /\ local'[k] = local[k]
<1> DEFINE given == Given(plan, stream, camera)
           whole == Whole(plan, stream)
           adds == Adds(plan, stream)
           base == Base(plan, stream)
           gone == Removing(plan)
<1>1. given \in Streams \cup {NoStream}
  BY GivenIs
<1>2. local' = IF whole THEN given
               ELSE [k \in Kinds |-> IF k \in adds /\ given # NoStream /\ given[k] # 0
                                     THEN given[k] ELSE base[k]]
  BY OfferedLocal
<1>3. local \in Streams \cup {NoStream}
  BY DEF RInv, TypeOK
<1>4. ~whole => local # NoStream /\ base = Without(local, gone)
  BY WholeIs
<1>5. ~whole => /\ base \in Streams
                /\ \A k \in Kinds : base[k] = IF k \in gone THEN 0 ELSE local[k]
  BY <1>3, <1>4, WithoutIs
<1>6. \A k \in Kinds : GiftOf(k, plan, stream, camera)
                          = IF given # NoStream /\ (whole \/ k \in adds) THEN given[k] ELSE 0
  BY DEF GiftOf, Gift
<1> HIDE DEF given, whole, adds, base, gone
<1>7. CASE whole
  <2>1. local' = given
    BY <1>2, <1>7
  <2> QED
    BY <1>1, <1>6, <1>7, <2>1 DEF Has, given, whole
<1>8. CASE ~whole
  <2>1. local' = [k \in Kinds |-> IF k \in adds /\ given # NoStream /\ given[k] # 0
                                  THEN given[k] ELSE base[k]]
    BY <1>2, <1>8
  <2>2. base \in [Kinds -> Tracks] /\ (given # NoStream => given \in [Kinds -> Tracks])
    BY <1>1, <1>5, <1>8 DEF Streams
  <2>3. local' \in [Kinds -> Tracks]
    BY <2>1, <2>2
  <2>4. local' # NoStream
    BY <2>1 DEF NoStream, Kinds
  <2>5. ASSUME NEW k \in Kinds
        PROVE  LET gift == GiftOf(k, plan, stream, camera)
               IN /\ gift # 0 => Has(k)' /\ local'[k] = gift
                  /\ gift = 0 /\ Has(k)' => k \notin gone /\ Has(k) /\ local'[k] = local[k]
                  /\ gift = 0 /\ k \notin gone /\ Has(k) => Has(k)' /\ local'[k] = local[k]
    <3>1. GiftOf(k, plan, stream, camera) = IF given # NoStream /\ k \in adds THEN given[k] ELSE 0
      BY <1>6, <1>8
    <3>2. local'[k] = IF k \in adds /\ given # NoStream /\ given[k] # 0 THEN given[k] ELSE base[k]
      BY <2>1
    <3>3. base[k] = IF k \in gone THEN 0 ELSE local[k]
      BY <1>5, <1>8
    <3> QED
      BY <1>4, <1>8, <2>4, <3>1, <3>2, <3>3 DEF Has
  <2> QED
    BY <1>8, <2>3, <2>4, <2>5 DEF Streams, whole, gone
<1> QED
  BY <1>7, <1>8

LEMMA LocalOf ==
    ASSUME RInv, offers < MaxOffers, NEW media, NEW plan, NEW stream, NEW camera \in BOOLEAN,
           NEW simulcast, Plans(media, plan, stream),
           Offer(media, plan, stream, camera, simulcast), NEW k \in Kinds
    PROVE  /\ GiftOf(k, plan, stream, camera) # 0 =>
                 Has(k)' /\ local'[k] = GiftOf(k, plan, stream, camera)
           /\ GiftOf(k, plan, stream, camera) = 0 /\ Has(k)' =>
                 ~Whole(plan, stream) /\ k \notin Removing(plan) /\ Has(k) /\ local'[k] = local[k]
           /\ GiftOf(k, plan, stream, camera) = 0 /\ ~Whole(plan, stream)
              /\ k \notin Removing(plan) /\ Has(k) => Has(k)' /\ local'[k] = local[k]
BY LocalIs

\* A kind that is to be sent, and can be, is in the stream.
LEMMA SentIsThere ==
    ASSUME RInv, offers < MaxOffers, NEW media, NEW plan, NEW stream, NEW camera \in BOOLEAN,
           NEW simulcast, Plans(media, plan, stream),
           Offer(media, plan, stream, camera, simulcast),
           ~external, ~App(plan, stream), NEW k \in Kinds \ Unmet(plan, camera), Sends(plan[k])
    PROVE  Has(k)'
<1> DEFINE gift == GiftOf(k, plan, stream, camera)
           whole == Whole(plan, stream)
<1>1. stream = NoStream /\ (whole <=> local = NoStream)
  BY WholeIs
<1>2. Skips(plan) => ~whole /\ k \notin Removing(plan) /\ Has(k)
  <2> SUFFICES ASSUME Skips(plan) PROVE ~whole /\ k \notin Removing(plan) /\ Has(k)
    OBVIOUS
  <2>1. "video" \in Kinds /\ open /\ Sends(plan["video"]) /\ plan["video"].keep
    BY DEF Skips, Kinds
  <2>2. Settles("video", media["video"], plan["video"])
    BY <1>1, <2>1 DEF Plans
  <2>3. Has("video")
    BY <2>1, <2>2 DEF Settles
  <2>4. k # "audio" => Has(k)
    BY <2>3 DEF Kinds
  <2>5. k = "audio" => Has(k)
    BY DEF Unmet
  <2> QED
    BY <1>1, <2>3, <2>4, <2>5 DEF Has, Removing
<1>3. ~Skips(plan) => /\ Given(plan, stream, camera) # NoStream
                      /\ Given(plan, stream, camera)[k] # 0
  BY <1>1, GivenIs
<1>4. ~Skips(plan) /\ (whole \/ k \in Adds(plan, stream)) => gift # 0
  BY <1>3 DEF GiftOf, Gift
<1>5. ~whole /\ ~(k \notin Removing(plan) /\ Has(k)) => k \in Adds(plan, stream)
  <2> SUFFICES ASSUME ~whole, ~(k \notin Removing(plan) /\ Has(k)) PROVE k \in Adds(plan, stream)
    OBVIOUS
  <2>1. open
    BY WholeIs
  <2>2. Settles(k, media[k], plan[k])
    BY <1>1, <2>1 DEF Plans
  <2>3. plan[k].change \in {"add", "replace"}
    <3>1. CASE ~Has(k)
      BY <2>2, <3>1 DEF Settles
    <3>2. CASE k \in Removing(plan)
      <4>1. plan[k].change \in {"remove", "replace"}
        BY <3>2 DEF Removing
      <4> QED
        BY <2>2, <4>1 DEF Settles
    <3> QED
      BY <3>1, <3>2
  <2> QED
    BY <2>3 DEF Adds, Changing
<1>6. /\ gift # 0 => Has(k)'
      /\ gift = 0 /\ ~whole /\ k \notin Removing(plan) /\ Has(k) => Has(k)'
  BY LocalIs
<1> HIDE DEF gift, whole
<1> QED
  BY <1>2, <1>4, <1>5, <1>6

\* A track that goes on being sent is in the stream, or was disabled as it left.
LEMMA HeldIs ==
    ASSUME RInv, offers < MaxOffers, NEW media, NEW plan, NEW stream, NEW camera \in BOOLEAN,
           NEW simulcast, Plans(media, plan, stream),
           Offer(media, plan, stream, camera, simulcast),
           ~external, ~App(plan, stream),
           NEW k \in Kinds, NEW i \in DOMAIN transceivers', transceivers'[i].kind = k,
           transceivers'[i].track # 0
    PROVE  \/ Has(k)' /\ local'[k] = transceivers'[i].track
           \/ <<k, transceivers'[i].track>> \in disabled'
<1> DEFINE gift == GiftOf(k, plan, stream, camera)
           whole == Whole(plan, stream)
           track == transceivers'[i].track
<1>1. transceivers' = After(plan, stream, camera)
  BY OfferedConnection
<1>2. Prepares(Kept(plan), transceivers', plan,
               GiftOf("audio", plan, stream, camera), GiftOf("video", plan, stream, camera))
  BY <1>1, AfterIs
<1>3. \/ i \in DOMAIN Kept(plan) /\ track = Kept(plan)[i].track
      \/ track = gift
  BY <1>2 DEF Prepares
<1>4. i \in DOMAIN Kept(plan) => Kept(plan)[i].kind = k
  BY <1>2 DEF Prepares, Extends
<1>5. /\ gift # 0 => Has(k)' /\ local'[k] = gift
      /\ gift = 0 /\ ~whole /\ k \notin Removing(plan) /\ Has(k) => Has(k)' /\ local'[k] = local[k]
  <2>1. gift # 0 => Has(k)' /\ local'[k] = gift
    BY LocalOf
  <2>2. gift = 0 /\ ~whole /\ k \notin Removing(plan) /\ Has(k) => Has(k)' /\ local'[k] = local[k]
    BY LocalOf
  <2> QED
    BY <2>1, <2>2
<1>6. CASE track = gift
  BY <1>5, <1>6
<1>7. CASE i \in DOMAIN Kept(plan) /\ track = Kept(plan)[i].track
  <2>1. i \in DOMAIN transceivers /\ transceivers[i].kind = k /\ transceivers[i].track = track
    <3>1. i \in DOMAIN transceivers /\ Kept(plan)[i].kind = transceivers[i].kind
      BY <1>7, KeptIs
    <3>2. Kept(plan)[i] = transceivers[i] \/ Kept(plan)[i].track = 0
      BY <3>1, KeptIs
    <3> QED
      BY <1>4, <1>7, <3>1, <3>2
  <2>2. track \in Held(k)
    BY <2>1 DEF Held
  <2>3. (Has(k) /\ local[k] = track) \/ <<k, track>> \in disabled
    BY <2>2 DEF RInv, SentIsLocal
  <2>4. disabled' = disabled \cup
            {<<x, local[x]>> : x \in {y \in DOMAIN local :
                                      Base(plan, stream) = NoStream \/ y \in Removing(plan)}}
    BY OfferedDisabled
  <2>5. CASE <<k, track>> \in disabled
    BY <2>4, <2>5
  <2>6. CASE Has(k) /\ local[k] = track
    <3>1. ~whole /\ stream = NoStream
      BY <2>6, WholeIs DEF Has
    <3>2. local \in [Kinds -> Tracks]
      BY <2>6 DEF RInv, TypeOK, Has, Streams
    <3>3. CASE k \in Removing(plan)
      BY <2>4, <2>6, <3>2, <3>3
    <3>4. CASE k \notin Removing(plan) /\ gift = 0
      BY <1>5, <2>6, <3>1, <3>4
    <3>5. CASE k \notin Removing(plan) /\ gift # 0
      <4>1. Given(plan, stream, camera) # NoStream /\ k \in Adds(plan, stream)
            /\ gift = Given(plan, stream, camera)[k]
        BY <3>1, <3>5 DEF GiftOf, Gift
      <4>2. CASE Skips(plan)
        <5>1. gift = local[k]
          BY <4>1, <4>2, GivenIs
        <5> QED
          BY <1>5, <2>6, <3>5, <5>1
      <4>3. CASE ~Skips(plan)
        <5>1. open
          BY <3>1, WholeIs
        <5>2. plan[k].change \in {"add", "replace"}
          BY <4>1 DEF Adds, Changing
        <5>3. plan[k].change = "add"
          BY <3>5, <4>3, <5>1, <5>2 DEF Removing
        <5>4. Settles(k, media[k], plan[k]) /\ (media[k].change = "add" => ~Has(k))
          BY <3>1, <5>1 DEF Plans
        <5> QED
          BY <2>6, <5>3, <5>4 DEF Settles
      <4> QED
        BY <4>2, <4>3
    <3> QED
      BY <3>3, <3>4, <3>5
  <2> QED
    BY <2>3, <2>5, <2>6
<1> QED
  BY <1>3, <1>6, <1>7

LEMMA OfferKeepsTypes ==
    ASSUME RInv, offers < MaxOffers, NEW media, NEW plan, NEW stream, NEW camera \in BOOLEAN,
           NEW simulcast, Plans(media, plan, stream),
           Offer(media, plan, stream, camera, simulcast), offers' = offers + 1
    PROVE  TypeOK'
<1>1. local' \in Streams \cup {NoStream}
  BY LocalIs
<1>2. {external, open} \subseteq BOOLEAN /\ offers \in 0..MaxOffers /\ disabled \subseteq Kinds \X Tracks
      /\ local \in Streams \cup {NoStream} /\ used \subseteq DOMAIN transceivers
  BY DEF RInv, TypeOK
<1>3. external' \in BOOLEAN /\ open' \in BOOLEAN
  BY <1>2, OfferedConnection DEF App
<1>4. Prepares(Kept(plan), After(plan, stream, camera), plan,
               GiftOf("audio", plan, stream, camera), GiftOf("video", plan, stream, camera))
  BY AfterIs
<1>5. After(plan, stream, camera) \in Seq(Transceivers)
      /\ DOMAIN transceivers \subseteq DOMAIN After(plan, stream, camera)
  BY <1>4, KeptIs DEF Prepares, Extends
<1>6. transceivers' = After(plan, stream, camera)
      /\ used' = used \cup {i \in DOMAIN After(plan, stream, camera) :
                               After(plan, stream, camera)[i].way \in SendingWays}
  BY OfferedConnection
<1>7. transceivers' \in Seq(Transceivers) /\ used' \subseteq DOMAIN transceivers'
  BY <1>2, <1>5, <1>6
<1>8. disabled' \subseteq Kinds \X Tracks
  <2>1. \A k \in DOMAIN local : <<k, local[k]>> \in Kinds \X Tracks
    <3>1. CASE local = NoStream
      BY <3>1 DEF NoStream
    <3>2. CASE local \in [Kinds -> Tracks]
      BY <3>2
    <3> QED
      BY <1>2, <3>1, <3>2 DEF Streams
  <2>2. disabled' = disabled \cup
            {<<k, local[k]>> : k \in {x \in DOMAIN local :
                                      Base(plan, stream) = NoStream \/ x \in Removing(plan)}}
    BY OfferedDisabled
  <2> QED
    BY <1>2, <2>1, <2>2
<1>9. offers' \in 0..MaxOffers
  BY <1>2, BoundAssumption
<1>10. asked' \in [Kinds -> Directions \cup {"any"}]
  <2>1. \A k \in Kinds : Way(plan[k]) \in Directions
    BY WayIs DEF Plans, Kinds
  <2>2. asked' = [k \in Kinds |-> IF Left(plan[k]) \/ k \in Unmet(plan, camera)
                                  THEN "any" ELSE Way(plan[k])]
    BY OfferedAsked
  <2> QED
    BY <2>1, <2>2
<1>11. crashed' \in {"no", "stream", "at odds", "sender"}
  BY OfferedCrash
<1> QED
  BY <1>1, <1>3, <1>7, <1>8, <1>9, <1>10, <1>11 DEF TypeOK, Transceivers

LEMMA OfferKeepsOwn ==
    ASSUME RInv, offers < MaxOffers, NEW media, NEW plan, NEW stream, NEW camera \in BOOLEAN,
           NEW simulcast, Plans(media, plan, stream),
           Offer(media, plan, stream, camera, simulcast)
    PROVE  OwnInv'
<1> SUFFICES ASSUME ~external' PROVE OwnInv'
  BY DEF OwnInv
<1> DEFINE us == transceivers'
           a == GiftOf("audio", plan, stream, camera)
           v == GiftOf("video", plan, stream, camera)
<1>1. ~external /\ ~App(plan, stream) /\ us = After(plan, stream, camera)
  BY OfferedConnection, OfferedOwn
<1>2. used' = used \cup {i \in DOMAIN us : us[i].way \in SendingWays}
  BY <1>1, OfferedConnection
<1>3. Prepares(Kept(plan), us, plan, a, v) /\ One(us)
  BY <1>1, AfterIs
<1>4. Whole(plan, stream) <=> local = NoStream
  BY <1>1, WholeIs
<1> HIDE DEF us, a, v
<1>5. ASSUME NEW k \in Kinds, Has(k)' PROVE Carries(us, k, local'[k])
  <2> DEFINE gift == GiftOf(k, plan, stream, camera)
  <2>1. (k = "audio" /\ gift = a) \/ (k = "video" /\ gift = v)
    BY DEF a, v, Kinds
  <2>2. /\ gift # 0 => local'[k] = gift
        /\ gift = 0 => ~Whole(plan, stream) /\ k \notin Removing(plan) /\ Has(k) /\ local'[k] = local[k]
    <3>1. gift # 0 => local'[k] = gift
      BY LocalOf
    <3>2. gift = 0 => ~Whole(plan, stream) /\ k \notin Removing(plan) /\ Has(k) /\ local'[k] = local[k]
      BY <1>5, LocalOf
    <3> QED
      BY <3>1, <3>2
  <2> HIDE DEF gift
  <2>3. CASE gift # 0
    BY <1>3, <2>1, <2>2, <2>3 DEF Prepares
  <2>4. CASE gift = 0
    <3>1. Carries(transceivers, k, local[k])
      BY <1>1, <2>2, <2>4 DEF RInv, OwnInv
    <3>2. PICK i \in DOMAIN transceivers : transceivers[i].kind = k /\ transceivers[i].track = local[k]
      BY <3>1 DEF Carries
    <3>3. i \in DOMAIN Kept(plan) /\ Kept(plan)[i] = transceivers[i]
      BY <2>2, <2>4, <3>2, KeptIs
    <3>4. i \in DOMAIN us /\ us[i].kind = k
      BY <1>3, <3>2, <3>3 DEF Prepares, Extends
    <3>5. us[i].track = local[k]
      BY <1>3, <2>1, <2>4, <3>2, <3>3, <3>4 DEF Prepares
    <3> QED
      BY <2>2, <2>4, <3>4, <3>5 DEF Carries
  <2> QED
    BY <2>3, <2>4
<1>6. ASSUME local' = NoStream
      PROVE  used' = {} /\ \A i \in DOMAIN us : us[i].track = 0 /\ us[i].way \notin SendingWays
  <2>1. Whole(plan, stream) /\ Given(plan, stream, camera) = NoStream
    BY <1>6, LocalIs
  <2>2. local = NoStream /\ a = 0 /\ v = 0
    BY <1>4, <2>1 DEF a, v, GiftOf, Gift
  <2>3. /\ used = {}
        /\ \A i \in DOMAIN transceivers :
              transceivers[i].track = 0 /\ transceivers[i].way \notin SendingWays
    BY <1>1, <2>2 DEF RInv, OwnInv
  <2>4. \A i \in DOMAIN Kept(plan) : Kept(plan)[i].track = 0 /\ Kept(plan)[i].way \notin SendingWays
    BY <2>3, KeptIs
  <2>5. stream = NoStream /\ ~Skips(plan)
    <3>1. stream = NoStream
      BY <1>1, WholeIs
    <3>2. ASSUME Skips(plan) PROVE FALSE
      <4>1. "video" \in Kinds /\ open /\ Sends(plan["video"]) /\ plan["video"].keep
        BY <3>2 DEF Skips, Kinds
      <4>2. Settles("video", media["video"], plan["video"])
        BY <3>1, <4>1 DEF Plans
      <4> QED
        BY <2>2, <4>1, <4>2 DEF Settles, Has
    <3> QED
      BY <3>1, <3>2
  <2>6. \A k \in Kinds : ~Sends(plan[k])
    BY <2>1, <2>5, GivenIs
  <2>7. Way(plan.audio) \notin SendingWays /\ Way(plan.video) \notin SendingWays
    <3>1. ~Sends(plan.audio) /\ ~Sends(plan.video)
      BY <2>6 DEF Kinds
    <3> QED
      BY <3>1, WayIs DEF Plans
  <2>8. \A i \in DOMAIN us : us[i].track = 0
    BY <1>3, <2>2, <2>4 DEF Prepares
  <2>9. \A i \in DOMAIN us : us[i].way \notin SendingWays
    <3>1. \A i \in DOMAIN us : \/ i \in DOMAIN Kept(plan) /\ us[i].way = Kept(plan)[i].way
                               \/ us[i].way \in {"recvonly", Way(plan.audio), Way(plan.video)}
      BY <1>3, <2>2 DEF Prepares
    <3>2. "recvonly" \notin SendingWays
      BY DEF SendingWays
    <3> QED
      BY <2>4, <2>7, <3>1, <3>2
  <2> QED
    BY <1>2, <2>3, <2>8, <2>9
<1> QED
  BY <1>3, <1>5, <1>6 DEF OwnInv, us

LEMMA OfferKeepsSent ==
    ASSUME RInv, offers < MaxOffers, NEW media, NEW plan, NEW stream, NEW camera \in BOOLEAN,
           NEW simulcast, Plans(media, plan, stream),
           Offer(media, plan, stream, camera, simulcast)
    PROVE  SentIsLocal'
<1> SUFFICES ASSUME ~external', NEW k \in Kinds, NEW track \in Held(k)'
             PROVE  (Has(k)' /\ local'[k] = track) \/ <<k, track>> \in disabled'
  BY DEF SentIsLocal
<1>1. ~external /\ ~App(plan, stream)
  BY OfferedOwn
<1>2. PICK i \in DOMAIN transceivers' : transceivers'[i].kind = k /\ transceivers'[i].track = track
                                        /\ track # 0
  BY DEF Held
<1> QED
  BY <1>1, <1>2, HeldIs

LEMMA OfferKeepsAsked ==
    ASSUME RInv, offers < MaxOffers, NEW media, NEW plan, NEW stream, NEW camera \in BOOLEAN,
           NEW simulcast, Plans(media, plan, stream),
           Offer(media, plan, stream, camera, simulcast), TypeOK', OwnInv'
    PROVE  AsAsked'
<1> SUFFICES ASSUME ~external', NEW k \in Kinds, asked'[k] # "any"
             PROVE  LET i == FirstOf(transceivers', k)
                    IN /\ i = 0 => asked'[k] = "inactive"
                       /\ i # 0 => transceivers'[i].way = asked'[k]
                       /\ asked'[k] \in SendingWays => Has(k)' /\ transceivers'[i].track = local'[k]
  BY DEF AsAsked
<1> DEFINE us == transceivers'
           i == FirstOf(us, k)
<1>1. ~external /\ ~App(plan, stream) /\ us = After(plan, stream, camera)
  BY OfferedConnection, OfferedOwn
<1>2. One(us) /\ Aims(us, k, plan[k])
  BY <1>1, AfterIs
<1>3. asked'[k] = Way(plan[k]) /\ ~Left(plan[k]) /\ k \notin Unmet(plan, camera)
  <2>1. asked'[k] = IF Left(plan[k]) \/ k \in Unmet(plan, camera) THEN "any" ELSE Way(plan[k])
    BY OfferedAsked
  <2> QED
    BY <2>1
<1>4. Way(plan[k]) \in Directions /\ (Way(plan[k]) \in SendingWays <=> Sends(plan[k]))
  BY WayIs DEF Plans, Kinds
<1>5. us \in Seq(Transceivers)
  BY DEF TypeOK, Transceivers
<1> HIDE DEF us
<1>6. \/ i = 0 /\ \A j \in DOMAIN us : us[j].kind # k
      \/ i \in DOMAIN us /\ i # 0 /\ us[i].kind = k
  BY <1>5, FirstIs
<1> HIDE DEF i
<1>7. i # 0 => us[i].way = asked'[k]
  BY <1>2, <1>3, <1>6 DEF Aims
<1>8. asked'[k] \in SendingWays => i # 0 /\ Has(k)' /\ us[i].track = local'[k]
  <2> SUFFICES ASSUME asked'[k] \in SendingWays PROVE i # 0 /\ Has(k)' /\ us[i].track = local'[k]
    OBVIOUS
  <2>1. k \in Kinds \ Unmet(plan, camera) /\ Sends(plan[k])
    BY <1>3, <1>4
  <2>2. Has(k)'
    BY <1>1, <2>1, SentIsThere
  <2>3. Carries(us, k, local'[k])
    BY <2>2 DEF OwnInv, us
  <2>4. PICK j \in DOMAIN us : us[j].kind = k /\ us[j].track = local'[k]
    BY <2>3 DEF Carries
  <2>5. i # 0 /\ i = j
    BY <1>2, <1>6, <2>4 DEF One
  <2> QED
    BY <2>2, <2>4, <2>5
<1>9. i = 0 => asked'[k] = "inactive"
  <2> SUFFICES ASSUME i = 0 PROVE asked'[k] = "inactive"
    OBVIOUS
  <2>1. Way(plan[k]) # "recvonly"
    BY <1>2, <1>6 DEF Aims
  <2>2. Way(plan[k]) \notin SendingWays
    BY <1>3, <1>8
  <2> QED
    BY <1>3, <1>4, <2>1, <2>2 DEF Directions, SendingWays
<1> QED
  BY <1>7, <1>8, <1>9 DEF i, us

LEMMA OfferCrashes ==
    ASSUME RInv, offers < MaxOffers, NEW media, NEW plan, NEW stream, NEW camera \in BOOLEAN,
           NEW simulcast, Plans(media, plan, stream),
           Offer(media, plan, stream, camera, simulcast), TypeOK', OwnInv'
    PROVE  CrashOnlyAtOdds'
<1> DEFINE given == Given(plan, stream, camera)
           adds == Adds(plan, stream)
<1>1. ASSUME adds # {}, given = NoStream
      PROVE  \E k \in Kinds : ~media[k].on /\ media[k].change \in {"add", "replace"}
  <2>1. PICK k \in Kinds : ~Whole(plan, stream) /\ plan[k].change \in Giving
    BY <1>1 DEF Adds, Changing, Giving
  <2>2. open /\ stream = NoStream /\ local # NoStream
    BY <2>1, WholeIs
  <2>3. Settles(k, media[k], plan[k])
    BY <2>2 DEF Plans
  <2>4. ~Sends(plan[k])
    BY <1>1, <2>2, GivenIs
  <2> QED
    BY <2>1, <2>3, <2>4 DEF Settles, Giving
<1> HIDE DEF given, adds
<1>c. crashed' = IF adds # {} /\ given = NoStream
                 THEN IF \E k \in Kinds : ~media[k].on /\ media[k].change \in {"add", "replace"}
                      THEN "at odds" ELSE "stream"
                 ELSE IF /\ simulcast /\ Sends(plan.video)
                         /\ \E i \in DOMAIN After(plan, stream, camera) :
                               After(plan, stream, camera)[i].track = 0
                 THEN "sender" ELSE "no"
  BY OfferedCrash DEF given, adds
<1>2. crashed' # "stream"
  BY <1>1, <1>c
<1>3. ASSUME crashed' = "sender", ~external', \A k \in Kinds : Has(k)'
      PROVE  FALSE
  <2>1. PICK i \in DOMAIN transceivers' : transceivers'[i].track = 0
    BY <1>3, <1>c, OfferedConnection
  <2>2. transceivers' \in Seq(Transceivers)
    BY DEF TypeOK, Transceivers
  <2>3. PICK k \in Kinds : transceivers'[i].kind = k
    BY <2>2, Indices, Fields
  <2>4. Has(k)' /\ Carries(transceivers', k, local'[k]) /\ One(transceivers')
    BY <1>3 DEF OwnInv
  <2>5. PICK j \in DOMAIN transceivers' : transceivers'[j].kind = k /\ transceivers'[j].track = local'[k]
    BY <2>4 DEF Carries
  <2>6. i = j
    BY <2>3, <2>4, <2>5 DEF One
  <2> QED
    BY <2>1, <2>4, <2>5, <2>6 DEF Has
<1> QED
  BY <1>2, <1>3 DEF CrashOnlyAtOdds

-----------------------------------------------------------------------------
(* The theorems.                                                           *)

\* A call with a configuration of each kind, and a stream or none.
LEMMA OfferKeeps ==
    ASSUME RInv, crashed = "no", offers < MaxOffers, offers' = offers + 1,
           NEW audio \in Calls, NEW video \in Calls, NEW stream \in AppStreams \cup {NoStream},
           NEW camera \in BOOLEAN, NEW simulcast \in BOOLEAN,
           stream # NoStream => ~audio.keep /\ ~video.keep,
           NEW media, media = [audio |-> audio, video |-> video],
           ~Refused(media, stream),
           Offer(media, Planned(media, stream), stream, camera, simulcast)
    PROVE  RInv'
<1> DEFINE plan == Planned(media, stream)
<1>1. audio \in Configs /\ video \in Configs
  BY DEF Calls
<1>2. Plans(media, plan, stream)
  BY <1>1, OfferPlans
<1> HIDE DEF plan
<1>3. Offer(media, plan, stream, camera, simulcast)
  BY DEF plan
<1>4. TypeOK'
  BY <1>2, <1>3, OfferKeepsTypes
<1>5. OwnInv'
  BY <1>2, <1>3, OfferKeepsOwn
<1>6. SentIsLocal'
  BY <1>2, <1>3, OfferKeepsSent
<1>7. AsAsked'
  BY <1>2, <1>3, <1>4, <1>5, OfferKeepsAsked
<1>8. CrashOnlyAtOdds'
  BY <1>2, <1>3, <1>4, <1>5, OfferCrashes
<1>9. ClosedInv'
  BY <1>3, OfferedConnection DEF ClosedInv
<1> QED
  BY <1>4, <1>5, <1>6, <1>7, <1>8, <1>9 DEF RInv

\* Nothing is sent without a PeerConnection.
LEMMA Fresh ==
    ASSUME local = NoStream, external = FALSE, open = FALSE, transceivers = <<>>, used = {},
           disabled = {}, asked = NoOffer, crashed = "no", offers \in 0..MaxOffers
    PROVE  RInv
<1>1. transceivers \in Seq(Transceivers) /\ DOMAIN transceivers = {}
  OBVIOUS
<1>2. asked \in [Kinds -> Directions \cup {"any"}]
  BY DEF NoOffer
<1>3. TypeOK
  BY <1>1, <1>2 DEF TypeOK, Transceivers
<1>4. ClosedInv
  BY DEF ClosedInv
<1>5. OwnInv
  BY <1>1 DEF OwnInv, One, Has
<1>6. SentIsLocal
  BY <1>1 DEF SentIsLocal, Held
<1>7. AsAsked
  BY DEF AsAsked, NoOffer
<1>8. CrashOnlyAtOdds
  BY DEF CrashOnlyAtOdds
<1> QED
  BY <1>3, <1>4, <1>5, <1>6, <1>7, <1>8 DEF RInv

LEMMA CleanupKeeps ==
    ASSUME RInv, Cleanup
    PROVE  RInv'
<1>1. offers \in 0..MaxOffers
  BY DEF RInv, TypeOK
<1>2. /\ local' = NoStream /\ external' = FALSE /\ open' = FALSE /\ transceivers' = <<>>
      /\ used' = {} /\ disabled' = {} /\ asked' = NoOffer /\ crashed' = "no" /\ offers' \in 0..MaxOffers
  BY <1>1 DEF Cleanup
<1>3. transceivers' \in Seq(Transceivers) /\ DOMAIN transceivers' = {}
  BY <1>2
<1>4. asked' \in [Kinds -> Directions \cup {"any"}]
  BY <1>2 DEF NoOffer
<1>5. TypeOK'
  BY <1>2, <1>3, <1>4 DEF TypeOK, Transceivers
<1>6. ClosedInv'
  BY <1>2 DEF ClosedInv
<1>7. OwnInv'
  BY <1>2, <1>3 DEF OwnInv, One, Has
<1>8. SentIsLocal'
  BY <1>3 DEF SentIsLocal, Held
<1>9. AsAsked'
  BY <1>2 DEF AsAsked, NoOffer
<1>10. CrashOnlyAtOdds'
  BY <1>2 DEF CrashOnlyAtOdds
<1> QED
  BY <1>5, <1>6, <1>7, <1>8, <1>9, <1>10 DEF RInv

LEMMA StutterKeeps ==
    ASSUME RInv, UNCHANGED <<local, external, open, transceivers, used, disabled, asked, crashed>>,
           offers' \in 0..MaxOffers
    PROVE  RInv'
<1>1. TypeOK'
  BY DEF RInv, TypeOK
<1>2. ClosedInv' /\ OwnInv'
  BY DEF RInv, ClosedInv, OwnInv, One, Has, Carries
<1>3. SentIsLocal'
  BY DEF RInv, SentIsLocal, Held, Has
<1>4. AsAsked'
  BY DEF RInv, AsAsked, Has
<1>5. CrashOnlyAtOdds'
  BY DEF RInv, CrashOnlyAtOdds, Has
<1> QED
  BY <1>1, <1>2, <1>3, <1>4, <1>5 DEF RInv

LEMMA RInvHolds == Spec => []RInv
<1>1. Init => RInv
  <2> SUFFICES ASSUME Init PROVE RInv
    OBVIOUS
  <2>1. offers \in 0..MaxOffers
    BY BoundAssumption DEF Init
  <2> QED
    BY <2>1, Fresh DEF Init
<1>2. RInv /\ [Next]_vars => RInv'
  <2> SUFFICES ASSUME RInv, [Next]_vars PROVE RInv'
    OBVIOUS
  <2>1. offers \in 0..MaxOffers
    BY DEF RInv, TypeOK
  <2>2. CASE CreateOffer
    <3>1. crashed = "no" /\ offers < MaxOffers /\ offers' = offers + 1
      BY <2>2 DEF CreateOffer
    <3>2. offers' \in 0..MaxOffers
      BY <2>1, <3>1, BoundAssumption
    <3>3. PICK audio \in Calls, video \in Calls, stream \in AppStreams \cup {NoStream},
               camera \in BOOLEAN, simulcast \in BOOLEAN :
             /\ stream # NoStream \/ simulcast => camera
             /\ simulcast => video.on
             /\ stream # NoStream => ~audio.keep /\ ~video.keep
             /\ LET media == [audio |-> audio, video |-> video]
                IN IF Refused(media, stream)
                   THEN UNCHANGED <<local, external, open, transceivers, used, disabled, asked, crashed>>
                   ELSE \E plan \in {Planned(media, stream)} :
                            Offer(media, plan, stream, camera, simulcast)
      BY <2>2, Zenon DEF CreateOffer
    <3> DEFINE media == [audio |-> audio, video |-> video]
    <3>4. CASE Refused(media, stream)
      BY <3>2, <3>3, <3>4, StutterKeeps
    <3>5. CASE ~Refused(media, stream)
      <4>1. Offer(media, Planned(media, stream), stream, camera, simulcast)
        BY <3>3, <3>5
      <4>2. media = [audio |-> audio, video |-> video]
        OBVIOUS
      <4> HIDE DEF media
      <4> QED
        BY <3>1, <3>3, <3>5, <4>1, <4>2, OfferKeeps
    <3> QED
      BY <3>4, <3>5
  <2>3. CASE Cleanup
    BY <2>3, CleanupKeeps
  <2>4. CASE UNCHANGED vars
    <3>1. offers' \in 0..MaxOffers
      BY <2>1, <2>4 DEF vars
    <3> QED
      BY <2>4, <3>1, StutterKeeps DEF vars
  <2> QED
    BY <2>2, <2>3, <2>4 DEF Next
<1> QED
  BY <1>1, <1>2, PTL DEF Spec

\* Every variable has its type, whatever the offers plan: what prepareWebrtc
\* takes from a stream and prepareStreams puts into one are streams.
THEOREM RenegotiationTypes == Spec => []TypeOK
<1>1. RInv => TypeOK
  BY DEF RInv
<1> QED
  BY <1>1, RInvHolds, PTL

\* While the client has only streams it captured itself, what a sender holds is
\* a track of the local stream, or was disabled as it left it: prepareWebrtc
\* disables what it removes or replaces, and what it adds was not there.
THEOREM NothingSentBeside == Spec => []SentIsLocal
<1>1. RInv => SentIsLocal
  BY DEF RInv
<1> QED
  BY <1>1, RInvHolds, PTL

\* What configTracks and prepareStreams leave after an offer is what it asked
\* for: there is one transceiver of a kind, with the direction, and with the
\* local track if the kind is sent.
THEOREM OffersAreMet == Spec => []AsAsked
<1>1. RInv => AsAsked
  BY DEF RInv
<1> QED
  BY <1>1, RInvHolds, PTL

\* The null pointers an offer can meet are those of a configuration that adds
\* what it switches off, and of simulcast while the stream lacks a kind.
THEOREM NullOnlyAtOdds == Spec => []CrashOnlyAtOdds
<1>1. RInv => CrashOnlyAtOdds
  BY DEF RInv
<1> QED
  BY <1>1, RInvHolds, PTL
=============================================================================
