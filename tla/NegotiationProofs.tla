------------------------- MODULE NegotiationProofs -------------------------
(***************************************************************************)
(* More proofs about PluginClient, for any bounds: what a candidate and    *)
(* what an SDP go through.  A candidate the server has sent is in one      *)
(* place, and the plugin client implements CandidateLife; a negotiation    *)
(* hands its SDP over once.  Both rest on the numbers that are queued: a   *)
(* candidate has one task, and a negotiation that has yet to hand its SDP  *)
(* over has one task or one operation.                                     *)
(***************************************************************************)
EXTENDS PluginClientProofs

-----------------------------------------------------------------------------
(* The inductive invariants, on top of IInv.                               *)

\* The numbers of the tasks, or operations, of these kinds; no two share one.
Numbers(q, kinds) == {q[i].n : i \in {j \in 1..Len(q) : q[j].kind \in kinds}}

Distinct(q, kinds) ==
    \A i, j \in 1..Len(q) :
        q[i].kind \in kinds /\ q[j].kind \in kinds /\ q[i].n = q[j].n => i = j

\* A PeerConnection, whatever is still known of it, is one that was created.
PeersInv ==
    /\ pc <= peers /\ remoteSdp <= peers
    /\ \A p \in overtaken : p <= peers

\* The task, or the operation, that a step in two parts has not yet removed.
HeadsInv ==
    /\ clearing => Head(pcQueue).kind = "cleanup"
    /\ flushing # 0 => Head(sig).kind = "remote" /\ Head(sig).n = flushing

\* A candidate is queued once, and then it is nowhere else; a cached one was
\* neither dropped nor lost, and while the cache is being added it holds
\* nothing else but what came meanwhile.
Trickles == Numbers(pcQueue, {"trickle"})
TricklesInv ==
    /\ Distinct(pcQueue, {"trickle"})
    /\ Trickles \cap (Cached \cup Added \cup dropped \cup lost) = {}
    /\ Cached \cap (dropped \cup lost) = {}
    /\ flushing # 0 => Cached \subseteq Added \cup raced

\* A negotiation that has yet to hand its SDP over has one task or operation.
EarlyTasks == {"prepare", "answer", "given"}
EarlyOps   == IF role = "subscriber" THEN {"create", "remote"} ELSE {"create"}
Waiting    == Numbers(pcQueue, EarlyTasks)
UnderDone  == Numbers(sig, EarlyOps)
Given      == {s.n : s \in sent}
EarlyInv ==
    /\ Distinct(pcQueue, EarlyTasks)
    /\ Distinct(sig, EarlyOps)
    /\ Waiting \cap UnderDone = {}
    /\ (Waiting \cup UnderDone) \cap Given = {}
    /\ \A n \in Negotiations : status[n] = "none" => n \notin Waiting \cup UnderDone \cup Given
    /\ role = "subscriber" => Numbers(pcQueue, {"jsep"}) = {}

\* The second half of SdpFresh.
SdpOnce == \A s \in sent : ~s.again

JInv ==
    /\ PeersInv
    /\ HeadsInv
    /\ TricklesInv
    /\ CandidatesKept
    /\ EarlyInv
    /\ SdpOnce

-----------------------------------------------------------------------------
(* Numbers in queues.                                                      *)

LEMMA NumbersEmpty ==
    ASSUME NEW kinds PROVE Numbers(<<>>, kinds) = {} /\ Distinct(<<>>, kinds)
BY Len(<<>>) = 0 DEF Numbers, Distinct

LEMMA NumbersAppend ==
    ASSUME NEW S, NEW q \in Seq(S), NEW e \in S, NEW kinds
    PROVE  Numbers(Append(q, e), kinds)
             = Numbers(q, kinds) \cup (IF e.kind \in kinds THEN {e.n} ELSE {})
<1> DEFINE q2 == Append(q, e)
<1>1. /\ Len(q) \in Nat /\ Len(q2) = Len(q) + 1
      /\ \A i \in 1..Len(q) : q2[i] = q[i]
      /\ q2[Len(q) + 1] = e
  BY AppendAt
<1> HIDE DEF q2
<1>2. \A i \in 1..Len(q2) : i \in 1..Len(q) \/ i = Len(q) + 1
  BY <1>1
<1>3. 1..Len(q) \subseteq 1..Len(q2) /\ Len(q) + 1 \in 1..Len(q2)
  BY <1>1
<1>4. ASSUME NEW n \in Numbers(q2, kinds)
      PROVE  n \in Numbers(q, kinds) \cup (IF e.kind \in kinds THEN {e.n} ELSE {})
  <2>1. PICK i \in 1..Len(q2) : q2[i].kind \in kinds /\ q2[i].n = n
    BY <1>4 DEF Numbers
  <2> QED
    BY <2>1, <1>1, <1>2 DEF Numbers
<1>5. ASSUME NEW n \in Numbers(q, kinds) PROVE n \in Numbers(q2, kinds)
  <2>1. PICK i \in 1..Len(q) : q[i].kind \in kinds /\ q[i].n = n
    BY <1>5 DEF Numbers
  <2>2. i \in 1..Len(q2) /\ q2[i].kind \in kinds /\ q2[i].n = n
    BY <2>1, <1>1, <1>3
  <2> QED
    BY <2>2 DEF Numbers
<1>6. e.kind \in kinds => e.n \in Numbers(q2, kinds)
  BY <1>1, <1>3 DEF Numbers
<1> QED
  BY <1>4, <1>5, <1>6 DEF q2

LEMMA DistinctAppend ==
    ASSUME NEW S, NEW q \in Seq(S), NEW e \in S, NEW kinds, Distinct(q, kinds),
           e.kind \in kinds => e.n \notin Numbers(q, kinds)
    PROVE  Distinct(Append(q, e), kinds)
<1> DEFINE q2 == Append(q, e)
<1>1. /\ Len(q) \in Nat /\ Len(q2) = Len(q) + 1
      /\ \A i \in 1..Len(q) : q2[i] = q[i]
      /\ q2[Len(q) + 1] = e
  BY AppendAt
<1> HIDE DEF q2
<1>2. \A i \in 1..Len(q2) : i \in 1..Len(q) \/ i = Len(q) + 1
  BY <1>1
<1>3. \A i \in 1..Len(q) : q[i].kind \in kinds => q[i].n \in Numbers(q, kinds)
  BY DEF Numbers
<1>4. ASSUME NEW i \in 1..Len(q2), NEW j \in 1..Len(q2),
             q2[i].kind \in kinds, q2[j].kind \in kinds, q2[i].n = q2[j].n
      PROVE  i = j
  <2>1. CASE i \in 1..Len(q) /\ j \in 1..Len(q)
    BY <2>1, <1>1, <1>4 DEF Distinct
  <2>2. CASE i = Len(q) + 1 /\ j \in 1..Len(q)
    BY <2>2, <1>1, <1>3, <1>4
  <2>3. CASE i \in 1..Len(q) /\ j = Len(q) + 1
    BY <2>3, <1>1, <1>3, <1>4
  <2> QED
    BY <2>1, <2>2, <2>3, <1>2
<1>5. Distinct(q2, kinds)
  BY <1>4 DEF Distinct
<1> QED
  BY <1>5 DEF q2

LEMMA NumbersTail ==
    ASSUME NEW S, NEW q \in Seq(S), q # <<>>, NEW kinds
    PROVE  Numbers(q, kinds)
             = Numbers(Tail(q), kinds) \cup (IF Head(q).kind \in kinds THEN {Head(q).n} ELSE {})
<1> DEFINE t == Tail(q)
<1>1. /\ Len(q) \in Nat \ {0} /\ Len(t) = Len(q) - 1
      /\ \A i \in 1..(Len(q) - 1) : t[i] = q[i + 1]
      /\ Head(q) = q[1]
  BY TailAt
<1> HIDE DEF t
<1>2. ASSUME NEW i \in 1..Len(q), i # 1
      PROVE  i - 1 \in 1..Len(t) /\ t[i - 1] = q[i]
  <2>1. i - 1 \in 1..(Len(q) - 1) /\ (i - 1) + 1 = i
    BY <1>1, <1>2
  <2> QED
    BY <2>1, <1>1
<1>3. \A i \in 1..Len(t) : i + 1 \in 1..Len(q) /\ q[i + 1] = t[i]
  BY <1>1
<1>4. ASSUME NEW n \in Numbers(q, kinds)
      PROVE  n \in Numbers(t, kinds) \cup (IF Head(q).kind \in kinds THEN {Head(q).n} ELSE {})
  <2>1. PICK i \in 1..Len(q) : q[i].kind \in kinds /\ q[i].n = n
    BY <1>4 DEF Numbers
  <2>2. CASE i = 1
    BY <2>1, <2>2, <1>1
  <2>3. CASE i # 1
    BY <2>1, <2>3, <1>2 DEF Numbers
  <2> QED
    BY <2>2, <2>3
<1>5. ASSUME NEW n \in Numbers(t, kinds) PROVE n \in Numbers(q, kinds)
  <2>1. PICK i \in 1..Len(t) : t[i].kind \in kinds /\ t[i].n = n
    BY <1>5 DEF Numbers
  <2>2. i + 1 \in 1..Len(q) /\ q[i + 1].kind \in kinds /\ q[i + 1].n = n
    BY <2>1, <1>3
  <2> QED
    BY <2>2 DEF Numbers
<1>6. Head(q).kind \in kinds => Head(q).n \in Numbers(q, kinds)
  <2>1. 1 \in 1..Len(q) /\ Head(q) = q[1]
    BY <1>1
  <2> QED
    BY <2>1 DEF Numbers
<1> QED
  BY <1>4, <1>5, <1>6 DEF t

LEMMA DistinctTail ==
    ASSUME NEW S, NEW q \in Seq(S), q # <<>>, NEW kinds, Distinct(q, kinds)
    PROVE  /\ Distinct(Tail(q), kinds)
           /\ Head(q).kind \in kinds => Head(q).n \notin Numbers(Tail(q), kinds)
<1> DEFINE t == Tail(q)
<1>1. /\ Len(q) \in Nat \ {0} /\ Len(t) = Len(q) - 1
      /\ \A i \in 1..(Len(q) - 1) : t[i] = q[i + 1]
      /\ Head(q) = q[1]
  BY TailAt
<1> HIDE DEF t
<1>2. \A i \in 1..Len(t) : i \in Nat \ {0} /\ i + 1 \in 1..Len(q) /\ q[i + 1] = t[i]
  BY <1>1
<1>3. 1 \in 1..Len(q)
  BY <1>1
<1>4. Distinct(t, kinds)
  <2> SUFFICES ASSUME NEW i \in 1..Len(t), NEW j \in 1..Len(t),
                      t[i].kind \in kinds, t[j].kind \in kinds, t[i].n = t[j].n
               PROVE  i = j
    BY DEF Distinct
  <2>1. i + 1 = j + 1
    BY <1>2 DEF Distinct
  <2> QED
    BY <2>1, <1>2
<1>5. ASSUME Head(q).kind \in kinds, Head(q).n \in Numbers(t, kinds) PROVE FALSE
  <2>1. PICK i \in 1..Len(t) : t[i].kind \in kinds /\ t[i].n = Head(q).n
    BY <1>5 DEF Numbers
  <2>2. i + 1 = 1
    BY <2>1, <1>1, <1>2, <1>3, <1>5 DEF Distinct
  <2> QED
    BY <2>2, <1>2
<1> QED
  BY <1>4, <1>5 DEF t

LEMMA QueuedAre == Queued = Trickles /\ Queued' = Trickles'
BY DEF Queued, Trickles, Numbers

-----------------------------------------------------------------------------
(* What the steps share.                                                   *)

\* A step that leaves the candidates where they are.
LEMMA CandidatesStay ==
    ASSUME JInv, crashed = 0, UNCHANGED candidateVars, flushing' = flushing,
           budget'.candidates = budget.candidates,
           Trickles' = Trickles, Distinct(pcQueue, {"trickle"})',
           pc' # 0 /\ remoteSdp' = pc' => pc # 0 /\ remoteSdp = pc
    PROVE  TricklesInv' /\ CandidatesKept'
<1>1. Cached' = Cached /\ Added' = Added /\ dropped' = dropped /\ lost' = lost /\ raced' = raced
  BY DEF candidateVars, Cached, Added
<1>2. Queued' = Queued
  BY QueuedAre
<1>3. TricklesInv'
  BY <1>1 DEF JInv, TricklesInv
<1>4. CandidatesKept'
  BY <1>1, <1>2 DEF JInv, CandidatesKept
<1> QED
  BY <1>3, <1>4

\* A step after which no more has yet to hand an SDP over than before.
LEMMA EarlyStay ==
    ASSUME EarlyInv, role' = role, sent' = sent,
           Distinct(pcQueue, EarlyTasks)', Distinct(sig, EarlyOps)',
           Waiting' \cap UnderDone' = {},
           Waiting' \cup UnderDone' \subseteq Waiting \cup UnderDone,
           \A n \in Negotiations : status'[n] = "none" => status[n] = "none",
           role = "subscriber" => Numbers(pcQueue, {"jsep"})' = {}
    PROVE  EarlyInv'
<1>1. Given' = Given
  BY DEF Given
<1> QED
  BY <1>1 DEF EarlyInv

\* The operations stay, or go on.
LEMMA OpsStay ==
    ASSUME EarlyInv, role' = role, sig' = sig
    PROVE  UnderDone' = UnderDone /\ Distinct(sig, EarlyOps)'
BY DEF UnderDone, EarlyOps, EarlyInv

LEMMA OpsGo ==
    ASSUME EarlyInv, sig \in Seq(Operations), sig # <<>>, role' = role, sig' = Tail(sig)
    PROVE  /\ UnderDone = UnderDone' \cup (IF Head(sig).kind \in EarlyOps THEN {Head(sig).n} ELSE {})
           /\ Head(sig).kind \in EarlyOps => Head(sig).n \notin UnderDone'
           /\ Distinct(sig, EarlyOps)'
<1>1. EarlyOps' = EarlyOps
  BY DEF EarlyOps
<1>2. UnderDone' = Numbers(Tail(sig), EarlyOps)
  BY <1>1 DEF UnderDone
<1> HIDE DEF EarlyOps
<1> QED
  BY <1>1, <1>2, NumbersTail, DistinctTail DEF UnderDone, EarlyInv

LEMMA OpsCome ==
    ASSUME EarlyInv, sig \in Seq(Operations), NEW e \in Operations, role' = role,
           sig' = Append(sig, e), e.kind \in EarlyOps => e.n \notin UnderDone
    PROVE  /\ UnderDone' = UnderDone \cup (IF e.kind \in EarlyOps THEN {e.n} ELSE {})
           /\ Distinct(sig, EarlyOps)'
<1>1. EarlyOps' = EarlyOps
  BY DEF EarlyOps
<1>2. UnderDone' = Numbers(Append(sig, e), EarlyOps)
  BY <1>1 DEF UnderDone
<1> HIDE DEF EarlyOps
<1> QED
  BY <1>1, <1>2, NumbersAppend, DistinctAppend DEF UnderDone, EarlyInv

\* An operation comes behind the one that is flushing.
LEMMA OpsHeadKept ==
    ASSUME IInv, sig' = sig \/ \E o \in Operations : sig' = Append(sig, o)
    PROVE  flushing # 0 => Head(sig') = Head(sig)
<1> SUFFICES ASSUME flushing # 0 PROVE Head(sig') = Head(sig)
  OBVIOUS
<1>1. sig \in Seq(Operations) /\ sig # <<>>
  BY DEF IInv, TypeOK, StepsInv
<1>2. \A o \in Operations : Head(Append(sig, o)) = Head(sig)
  BY <1>1, AppendHead
<1> QED
  BY <1>2

\* A task comes.
LEMMA TaskComes ==
    ASSUME NEW q \in Seq(PcTasks), NEW e \in PcTasks, NEW kinds
    PROVE  /\ Append(q, e) \in Seq(PcTasks)
           /\ Numbers(Append(q, e), kinds)
                = Numbers(q, kinds) \cup (IF e.kind \in kinds THEN {e.n} ELSE {})
           /\ Distinct(q, kinds) /\ (e.kind \in kinds => e.n \notin Numbers(q, kinds))
                => Distinct(Append(q, e), kinds)
BY AppendAt, NumbersAppend, DistinctAppend

LEMMA TaskPasses ==
    ASSUME NEW q \in Seq(PcTasks), NEW e \in PcTasks, NEW kinds, e.kind \notin kinds
    PROVE  /\ Numbers(Append(q, e), kinds) = Numbers(q, kinds)
           /\ Distinct(q, kinds) => Distinct(Append(q, e), kinds)
<1>1. Numbers(Append(q, e), kinds) = Numbers(q, kinds)
  <2>1. Numbers(Append(q, e), kinds)
          = Numbers(q, kinds) \cup (IF e.kind \in kinds THEN {e.n} ELSE {})
    BY NumbersAppend
  <2> QED
    BY <2>1
<1>2. ASSUME Distinct(q, kinds) PROVE Distinct(Append(q, e), kinds)
  BY <1>2, DistinctAppend
<1> QED
  BY <1>1, <1>2

\* A task was taken.
LEMMA TaskGoes ==
    ASSUME NEW q \in Seq(PcTasks), q # <<>>, NEW kinds, Distinct(q, kinds)
    PROVE  /\ Tail(q) \in Seq(PcTasks)
           /\ Numbers(q, kinds)
                = Numbers(Tail(q), kinds) \cup (IF Head(q).kind \in kinds THEN {Head(q).n} ELSE {})
           /\ Head(q).kind \in kinds => Head(q).n \notin Numbers(Tail(q), kinds)
           /\ Distinct(Tail(q), kinds)
BY TailAt, NumbersTail, DistinctTail

\* The queue of plugin-client after a task came, and after one was taken.
LEMMA QueueComes ==
    ASSUME JInv, pcQueue \in Seq(PcTasks), NEW e \in PcTasks, pcQueue' = Append(pcQueue, e)
    PROVE  /\ Trickles' = Trickles \cup (IF e.kind = "trickle" THEN {e.n} ELSE {})
           /\ Waiting' = Waiting \cup (IF e.kind \in EarlyTasks THEN {e.n} ELSE {})
           /\ Numbers(pcQueue, {"jsep"})'
                = Numbers(pcQueue, {"jsep"}) \cup (IF e.kind = "jsep" THEN {e.n} ELSE {})
           /\ e.kind # "trickle" \/ e.n \notin Trickles => Distinct(pcQueue, {"trickle"})'
           /\ e.kind \notin EarlyTasks \/ e.n \notin Waiting => Distinct(pcQueue, EarlyTasks)'
<1>0. Distinct(pcQueue, {"trickle"}) /\ Distinct(pcQueue, EarlyTasks)
  BY DEF JInv, TricklesInv, EarlyInv
<1> HIDE DEF EarlyTasks
<1>1. Trickles' = Trickles \cup (IF e.kind = "trickle" THEN {e.n} ELSE {})
  <2>1. Numbers(Append(pcQueue, e), {"trickle"})
          = Numbers(pcQueue, {"trickle"}) \cup (IF e.kind \in {"trickle"} THEN {e.n} ELSE {})
    BY TaskComes
  <2> QED
    BY <2>1 DEF Trickles
<1>2. Waiting' = Waiting \cup (IF e.kind \in EarlyTasks THEN {e.n} ELSE {})
  <2>1. Numbers(Append(pcQueue, e), EarlyTasks)
          = Numbers(pcQueue, EarlyTasks) \cup (IF e.kind \in EarlyTasks THEN {e.n} ELSE {})
    BY TaskComes
  <2>2. Waiting' = Numbers(pcQueue', EarlyTasks)
    BY DEF Waiting, EarlyTasks
  <2> QED
    BY <2>1, <2>2 DEF Waiting
<1>3. Numbers(pcQueue, {"jsep"})'
        = Numbers(pcQueue, {"jsep"}) \cup (IF e.kind = "jsep" THEN {e.n} ELSE {})
  <2>1. Numbers(Append(pcQueue, e), {"jsep"})
          = Numbers(pcQueue, {"jsep"}) \cup (IF e.kind \in {"jsep"} THEN {e.n} ELSE {})
    BY TaskComes
  <2> QED
    BY <2>1
<1>4. e.kind # "trickle" \/ e.n \notin Trickles => Distinct(pcQueue, {"trickle"})'
  <2>1. (e.kind \in {"trickle"} => e.n \notin Numbers(pcQueue, {"trickle"}))
          => Distinct(Append(pcQueue, e), {"trickle"})
    BY <1>0, TaskComes
  <2> QED
    BY <2>1 DEF Trickles
<1>5. e.kind \notin EarlyTasks \/ e.n \notin Waiting => Distinct(pcQueue, EarlyTasks)'
  <2>1. (e.kind \in EarlyTasks => e.n \notin Numbers(pcQueue, EarlyTasks))
          => Distinct(Append(pcQueue, e), EarlyTasks)
    BY <1>0, TaskComes
  <2>2. Distinct(pcQueue, EarlyTasks)' <=> Distinct(pcQueue', EarlyTasks)
    BY DEF EarlyTasks
  <2> QED
    BY <2>1, <2>2 DEF Waiting
<1> QED
  BY <1>1, <1>2, <1>3, <1>4, <1>5

LEMMA QueueGoes ==
    ASSUME JInv, pcQueue \in Seq(PcTasks), pcQueue # <<>>, pcQueue' = Tail(pcQueue)
    PROVE  /\ Trickles = Trickles' \cup
                (IF Head(pcQueue).kind = "trickle" THEN {Head(pcQueue).n} ELSE {})
           /\ Head(pcQueue).kind = "trickle" => Head(pcQueue).n \notin Trickles'
           /\ Waiting = Waiting' \cup
                (IF Head(pcQueue).kind \in EarlyTasks THEN {Head(pcQueue).n} ELSE {})
           /\ Head(pcQueue).kind \in EarlyTasks => Head(pcQueue).n \notin Waiting'
           /\ Numbers(pcQueue, {"jsep"})' \subseteq Numbers(pcQueue, {"jsep"})
           /\ Distinct(pcQueue, {"trickle"})' /\ Distinct(pcQueue, EarlyTasks)'
<1> DEFINE h == Head(pcQueue)
<1>0. Distinct(pcQueue, {"trickle"}) /\ Distinct(pcQueue, EarlyTasks)
  BY DEF JInv, TricklesInv, EarlyInv
<1> HIDE DEF EarlyTasks, h
<1>1. /\ Trickles = Trickles' \cup (IF h.kind = "trickle" THEN {h.n} ELSE {})
      /\ h.kind = "trickle" => h.n \notin Trickles'
      /\ Distinct(pcQueue, {"trickle"})'
  <2>1. /\ Numbers(pcQueue, {"trickle"}) = Numbers(Tail(pcQueue), {"trickle"}) \cup
             (IF h.kind \in {"trickle"} THEN {h.n} ELSE {})
        /\ h.kind \in {"trickle"} => h.n \notin Numbers(Tail(pcQueue), {"trickle"})
        /\ Distinct(Tail(pcQueue), {"trickle"})
    BY <1>0, TaskGoes DEF h
  <2> QED
    BY <2>1 DEF Trickles
<1>2. /\ Waiting = Waiting' \cup (IF h.kind \in EarlyTasks THEN {h.n} ELSE {})
      /\ h.kind \in EarlyTasks => h.n \notin Waiting'
      /\ Distinct(pcQueue, EarlyTasks)'
  <2>1. /\ Numbers(pcQueue, EarlyTasks) = Numbers(Tail(pcQueue), EarlyTasks) \cup
             (IF h.kind \in EarlyTasks THEN {h.n} ELSE {})
        /\ h.kind \in EarlyTasks => h.n \notin Numbers(Tail(pcQueue), EarlyTasks)
        /\ Distinct(Tail(pcQueue), EarlyTasks)
    BY <1>0, TaskGoes DEF h
  <2>2. Waiting' = Numbers(pcQueue', EarlyTasks)
        /\ (Distinct(pcQueue, EarlyTasks)' <=> Distinct(pcQueue', EarlyTasks))
    BY DEF Waiting, EarlyTasks
  <2> QED
    BY <2>1, <2>2 DEF Waiting
<1>3. Numbers(pcQueue, {"jsep"})' \subseteq Numbers(pcQueue, {"jsep"})
  <2>1. Numbers(Tail(pcQueue), {"jsep"}) \subseteq Numbers(pcQueue, {"jsep"})
    BY NumbersTail
  <2> QED
    BY <2>1
<1> QED
  BY <1>1, <1>2, <1>3 DEF h

-----------------------------------------------------------------------------
(* The steps of the environment.                                           *)

LEMMA ArrivesFlow ==
    ASSUME IInv, JInv, NEW e \in PcTasks, Arrives(e)
    PROVE  /\ pcQueue \in Seq(PcTasks) /\ pcQueue' = Append(pcQueue, e)
           /\ crashed = 0 /\ role' = role /\ sent' = sent
           /\ UnderDone' = UnderDone /\ Distinct(sig, EarlyOps)'
           /\ PeersInv' /\ HeadsInv' /\ SdpOnce'
<1>1. pcQueue \in Seq(PcTasks) /\ pcQueue' = Append(pcQueue, e) /\ crashed = 0 /\ role' = role
      /\ sent' = sent /\ sig' = sig /\ clearing' = clearing /\ flushing' = flushing
      /\ pc' = pc /\ peers' = peers /\ remoteSdp' = remoteSdp /\ overtaken' = overtaken
  BY DEF Arrives, IInv, TypeOK, contextVars, stepVars
<1>2. UnderDone' = UnderDone /\ Distinct(sig, EarlyOps)'
  BY <1>1, OpsStay DEF JInv
<1>3. PeersInv' /\ SdpOnce'
  BY <1>1 DEF JInv, PeersInv, SdpOnce
<1>4. clearing => Head(pcQueue') = Head(pcQueue)
  BY <1>1, AppendHead DEF IInv, StepsInv
<1>5. HeadsInv'
  BY <1>1, <1>4 DEF JInv, HeadsInv
<1> QED
  BY <1>1, <1>2, <1>3, <1>5

LEMMA BeginFlows == ASSUME IInv, JInv, NEW n \in Negotiations, Begin(n) PROVE JInv'
<1> DEFINE e == Task("prepare", n, 0)
<1>1. e \in PcTasks /\ e.kind = "prepare" /\ e.n = n /\ Arrives(e)
  BY TasksAre DEF Task, Begin
<1> HIDE DEF e
<1>2. /\ pcQueue \in Seq(PcTasks) /\ pcQueue' = Append(pcQueue, e)
      /\ crashed = 0 /\ role' = role /\ sent' = sent
      /\ UnderDone' = UnderDone /\ Distinct(sig, EarlyOps)'
      /\ PeersInv' /\ HeadsInv' /\ SdpOnce'
  BY <1>1, ArrivesFlow
<1>3. status[n] = "none" /\ status'[n] = "begun"
      /\ \A m \in Negotiations : status'[m] = "none" => status[m] = "none" /\ m # n
  BY DEF Begin, Marks, IInv, TypeOK
<1>4. n \notin Waiting \cup UnderDone \cup Given
  BY <1>3 DEF JInv, EarlyInv
<1>5. TricklesInv' /\ CandidatesKept'
  <2>1. Trickles' = Trickles /\ Distinct(pcQueue, {"trickle"})'
    BY <1>1, <1>2, QueueComes
  <2>2. UNCHANGED candidateVars /\ flushing' = flushing /\ budget' = budget
        /\ pc' = pc /\ remoteSdp' = remoteSdp
    BY DEF Begin, Arrives, contextVars, stepVars
  <2> QED
    BY <2>1, <2>2, <1>2, CandidatesStay
<1>6. EarlyInv'
  <2>1. Waiting' = Waiting \cup {n} /\ Distinct(pcQueue, EarlyTasks)'
    BY <1>1, <1>2, <1>4, QueueComes DEF EarlyTasks
  <2>2. Numbers(pcQueue, {"jsep"})' = Numbers(pcQueue, {"jsep"})
    BY <1>1, <1>2, QueueComes
  <2>3. Given' = Given
    BY <1>2 DEF Given
  <2> QED
    BY <2>1, <2>2, <2>3, <1>2, <1>3, <1>4 DEF JInv, EarlyInv
<1> QED
  BY <1>2, <1>5, <1>6 DEF JInv

LEMMA ServerAnswerFlows == ASSUME IInv, JInv, NEW n \in Negotiations, ServerAnswer(n) PROVE JInv'
<1> DEFINE e == Task("jsep", n, 0)
<1>1. e \in PcTasks /\ e.kind = "jsep" /\ Arrives(e) /\ role = "publisher"
  BY TasksAre DEF Task, ServerAnswer
<1> HIDE DEF e
<1>2. /\ pcQueue \in Seq(PcTasks) /\ pcQueue' = Append(pcQueue, e)
      /\ crashed = 0 /\ role' = role /\ sent' = sent
      /\ UnderDone' = UnderDone /\ Distinct(sig, EarlyOps)'
      /\ PeersInv' /\ HeadsInv' /\ SdpOnce'
  BY <1>1, ArrivesFlow
<1>3. \A m \in Negotiations : status'[m] = "none" => status[m] = "none"
  BY DEF ServerAnswer, Marks, IInv, TypeOK
<1>5. TricklesInv' /\ CandidatesKept'
  <2>1. Trickles' = Trickles /\ Distinct(pcQueue, {"trickle"})'
    BY <1>1, <1>2, QueueComes
  <2>2. UNCHANGED candidateVars /\ flushing' = flushing /\ budget' = budget
        /\ pc' = pc /\ remoteSdp' = remoteSdp
    BY DEF ServerAnswer, Arrives, contextVars, stepVars
  <2> QED
    BY <2>1, <2>2, <1>2, CandidatesStay
<1>6. EarlyInv'
  <2>1. Waiting' = Waiting /\ Distinct(pcQueue, EarlyTasks)'
    BY <1>1, <1>2, QueueComes DEF EarlyTasks
  <2>2. EarlyInv
    BY DEF JInv
  <2>3. Waiting' \cap UnderDone' = {}
    BY <2>1, <2>2, <1>2 DEF EarlyInv
  <2> QED
    BY <2>1, <2>2, <2>3, <1>1, <1>2, <1>3, EarlyStay
<1> QED
  BY <1>2, <1>5, <1>6 DEF JInv

LEMMA PostCleanupFlows == ASSUME IInv, JInv, PostCleanup PROVE JInv'
<1> DEFINE e == Task("cleanup", 0, 0)
<1>1. e \in PcTasks /\ e.kind = "cleanup" /\ Arrives(e)
  BY TasksAre DEF Task, PostCleanup
<1> HIDE DEF e
<1>2. /\ pcQueue \in Seq(PcTasks) /\ pcQueue' = Append(pcQueue, e)
      /\ crashed = 0 /\ role' = role /\ sent' = sent
      /\ UnderDone' = UnderDone /\ Distinct(sig, EarlyOps)'
      /\ PeersInv' /\ HeadsInv' /\ SdpOnce'
  BY <1>1, ArrivesFlow
<1>3. status' = status /\ budget'.candidates = budget.candidates
  BY DEF PostCleanup, IInv, TypeOK
<1>5. TricklesInv' /\ CandidatesKept'
  <2>1. Trickles' = Trickles /\ Distinct(pcQueue, {"trickle"})'
    BY <1>1, <1>2, QueueComes
  <2>2. UNCHANGED candidateVars /\ flushing' = flushing
        /\ pc' = pc /\ remoteSdp' = remoteSdp
    BY DEF PostCleanup, Arrives, contextVars, stepVars
  <2> QED
    BY <2>1, <2>2, <1>2, <1>3, CandidatesStay
<1>6. EarlyInv'
  <2>1. Waiting' = Waiting /\ Distinct(pcQueue, EarlyTasks)'
    BY <1>1, <1>2, QueueComes DEF EarlyTasks
  <2>2. EarlyInv
    BY DEF JInv
  <2>3. Waiting' \cap UnderDone' = {}
    BY <2>1, <2>2, <1>2 DEF EarlyInv
  <2>4. Numbers(pcQueue, {"jsep"})' = Numbers(pcQueue, {"jsep"})
    BY <1>1, <1>2, QueueComes
  <2>5. role = "subscriber" => Numbers(pcQueue, {"jsep"})' = {}
    BY <2>2, <2>4 DEF EarlyInv
  <2> QED
    BY <2>1, <2>2, <2>3, <2>5, <1>2, <1>3, EarlyStay
<1> QED
  BY <1>2, <1>5, <1>6 DEF JInv

LEMMA ServerCandidateFlows == ASSUME IInv, JInv, ServerCandidate PROVE JInv'
<1> DEFINE c == budget'.candidates
<1> DEFINE e == Task("trickle", c, 0)
<1>0. /\ budget.candidates \in Nat /\ c = budget.candidates + 1 /\ c \in Candidates
      /\ 1..c = 1..budget.candidates \cup {c} /\ c \notin 1..budget.candidates
  <2>1. /\ budget \in [cleanups : Nat, candidates : 0..MaxCandidates]
        /\ budget.candidates < MaxCandidates
        /\ budget' = [budget EXCEPT !.candidates = @ + 1]
    BY DEF ServerCandidate, IInv, TypeOK
  <2>2. budget.candidates \in Nat /\ budget.candidates < MaxCandidates /\ MaxCandidates \in Nat
    BY <2>1, Bounds
  <2>3. c = budget.candidates + 1
    BY <2>1
  <2>4. c \in Candidates
    BY <2>2, <2>3 DEF Candidates
  <2> QED
    BY <2>2, <2>3, <2>4
<1>1. e \in PcTasks /\ e.kind = "trickle" /\ e.n = c /\ Arrives(e)
  BY <1>0, TasksAre DEF Task, ServerCandidate
<1> HIDE DEF e, c
<1>2. /\ pcQueue \in Seq(PcTasks) /\ pcQueue' = Append(pcQueue, e)
      /\ crashed = 0 /\ role' = role /\ sent' = sent
      /\ UnderDone' = UnderDone /\ Distinct(sig, EarlyOps)'
      /\ PeersInv' /\ HeadsInv' /\ SdpOnce'
  BY <1>1, ArrivesFlow
<1>3. /\ Cached' = Cached /\ Added' = Added /\ dropped' = dropped /\ lost' = lost
      /\ raced' = raced /\ flushing' = flushing /\ pc' = pc /\ remoteSdp' = remoteSdp
      /\ status' = status /\ crashed' = crashed
  BY DEF ServerCandidate, Arrives, contextVars, candidateVars, stepVars, Cached, Added
<1>4. c \notin Trickles \cup Cached \cup Added \cup dropped \cup lost
  BY <1>0, QueuedAre DEF JInv, CandidatesKept
<1>5. Trickles' = Trickles \cup {c} /\ Distinct(pcQueue, {"trickle"})'
  BY <1>1, <1>2, <1>4, QueueComes
<1>6. TricklesInv'
  BY <1>3, <1>4, <1>5 DEF JInv, TricklesInv
<1>7. CandidatesKept'
  <2>1. Queued' = Queued \cup {c}
    BY <1>5, QueuedAre
  <2>2. (1..budget.candidates)' = 1..budget.candidates \cup {c}
    BY <1>0 DEF c
  <2> QED
    BY <2>1, <2>2, <1>3 DEF JInv, CandidatesKept
<1>8. EarlyInv'
  <2>1. Waiting' = Waiting /\ Distinct(pcQueue, EarlyTasks)'
    BY <1>1, <1>2, QueueComes DEF EarlyTasks
  <2>2. EarlyInv
    BY DEF JInv
  <2>3. Waiting' \cap UnderDone' = {}
    BY <2>1, <2>2, <1>2 DEF EarlyInv
  <2>4. Numbers(pcQueue, {"jsep"})' = Numbers(pcQueue, {"jsep"})
    BY <1>1, <1>2, QueueComes
  <2>5. role = "subscriber" => Numbers(pcQueue, {"jsep"})' = {}
    BY <2>2, <2>4 DEF EarlyInv
  <2> QED
    BY <2>1, <2>2, <2>3, <2>5, <1>2, <1>3, EarlyStay
<1> QED
  BY <1>2, <1>6, <1>7, <1>8 DEF JInv

-----------------------------------------------------------------------------
(* The steps of plugin-client.                                             *)

\* A task is taken, and one to announce a track comes.
LEMMA QueueTurns ==
    ASSUME JInv, pcQueue \in Seq(PcTasks), pcQueue # <<>>, NEW e \in PcTasks,
           e.kind = "localTrack", pcQueue' = Append(Tail(pcQueue), e)
    PROVE  /\ Trickles = Trickles' \cup
                (IF Head(pcQueue).kind = "trickle" THEN {Head(pcQueue).n} ELSE {})
           /\ Waiting = Waiting' \cup
                (IF Head(pcQueue).kind \in EarlyTasks THEN {Head(pcQueue).n} ELSE {})
           /\ Head(pcQueue).kind \in EarlyTasks => Head(pcQueue).n \notin Waiting'
           /\ Numbers(pcQueue, {"jsep"})' \subseteq Numbers(pcQueue, {"jsep"})
           /\ Distinct(pcQueue, {"trickle"})' /\ Distinct(pcQueue, EarlyTasks)'
<1> DEFINE t == Tail(pcQueue)
<1>0. /\ Distinct(pcQueue, {"trickle"}) /\ Distinct(pcQueue, EarlyTasks)
      /\ t \in Seq(PcTasks) /\ e.kind \notin EarlyTasks
  BY TailAt DEF JInv, TricklesInv, EarlyInv, EarlyTasks
<1>1. /\ Numbers(pcQueue, {"trickle"}) = Numbers(t, {"trickle"}) \cup
           (IF Head(pcQueue).kind \in {"trickle"} THEN {Head(pcQueue).n} ELSE {})
      /\ Distinct(t, {"trickle"})
  BY <1>0, TaskGoes
<1>2. /\ Numbers(pcQueue, EarlyTasks) = Numbers(t, EarlyTasks) \cup
           (IF Head(pcQueue).kind \in EarlyTasks THEN {Head(pcQueue).n} ELSE {})
      /\ Head(pcQueue).kind \in EarlyTasks => Head(pcQueue).n \notin Numbers(t, EarlyTasks)
      /\ Distinct(t, EarlyTasks)
  BY <1>0, TaskGoes
<1>3. Numbers(t, {"jsep"}) \subseteq Numbers(pcQueue, {"jsep"})
  BY NumbersTail
<1> HIDE DEF t
<1>4. Numbers(Append(t, e), {"trickle"}) = Numbers(t, {"trickle"}) /\ Distinct(Append(t, e), {"trickle"})
  <2>1. e.kind \notin {"trickle"}
    OBVIOUS
  <2> QED
    BY <2>1, <1>0, <1>1, TaskPasses
<1>5. Numbers(Append(t, e), EarlyTasks) = Numbers(t, EarlyTasks) /\ Distinct(Append(t, e), EarlyTasks)
  BY <1>0, <1>2, TaskPasses
<1>6. Numbers(Append(t, e), {"jsep"}) = Numbers(t, {"jsep"})
  <2>1. e.kind \notin {"jsep"}
    OBVIOUS
  <2> QED
    BY <2>1, <1>0, TaskPasses
<1>7. pcQueue' = Append(t, e)
  BY DEF t
<1>8. /\ Waiting' = Numbers(pcQueue', EarlyTasks)
      /\ Distinct(pcQueue, EarlyTasks)' <=> Distinct(pcQueue', EarlyTasks)
  BY DEF Waiting, EarlyTasks
<1>9. Trickles = Trickles' \cup (IF Head(pcQueue).kind = "trickle" THEN {Head(pcQueue).n} ELSE {})
      /\ Distinct(pcQueue, {"trickle"})'
  BY <1>1, <1>4, <1>7 DEF Trickles
<1>10. /\ Waiting = Waiting' \cup (IF Head(pcQueue).kind \in EarlyTasks THEN {Head(pcQueue).n} ELSE {})
       /\ Head(pcQueue).kind \in EarlyTasks => Head(pcQueue).n \notin Waiting'
       /\ Distinct(pcQueue, EarlyTasks)'
  BY <1>2, <1>5, <1>7, <1>8 DEF Waiting
<1>11. Numbers(pcQueue, {"jsep"})' \subseteq Numbers(pcQueue, {"jsep"})
  BY <1>3, <1>6, <1>7
<1> QED
  BY <1>9, <1>10, <1>11

LEMMA Counts ==
    IInv => {pc, peers, remoteSdp} \subseteq Nat /\ sig \in Seq(Operations) /\ pcQueue \in Seq(PcTasks)
BY Bounds DEF IInv, TypeOK

LEMMA PrepareFlows == ASSUME IInv, JInv, Prepare PROVE JInv'
<1> DEFINE h == Head(pcQueue)
<1>1. /\ pcQueue \in Seq(PcTasks) /\ pcQueue # <<>> /\ crashed = 0 /\ ~clearing
      /\ Tail(pcQueue) \in Seq(PcTasks)
      /\ h \in PcTasks /\ h.kind = "prepare" /\ h.n \in Negotiations
  BY Taken, TaskTypes DEF Prepare
<1>2. IInv'
  BY PrepareKept
<1> HIDE DEF h
<1>3. /\ role' = role /\ sent' = sent /\ status' = status /\ clearing' = clearing
      /\ flushing' = flushing /\ budget' = budget /\ remoteSdp' = remoteSdp
      /\ overtaken' = overtaken /\ UNCHANGED candidateVars
      /\ IF pc = 0 THEN pc' = peers + 1 /\ peers' = peers + 1 ELSE pc' = pc /\ peers' = peers
  BY DEF Prepare, PcTake, OpenPeer
<1>4. PeersInv' /\ (pc' # 0 /\ remoteSdp' = pc' => pc # 0 /\ remoteSdp = pc)
  <2>1. {pc, peers, remoteSdp} \subseteq Nat
    BY Counts
  <2>2. pc <= peers /\ remoteSdp <= peers /\ \A p \in overtaken : p \in Nat /\ p <= peers
    BY Bounds DEF JInv, PeersInv, IInv, TypeOK, Peers
  <2> QED
    BY <2>1, <2>2, <1>3 DEF PeersInv
<1>5. pc' \in Peers
  <2>1. pc' \in 0..MaxNegotiations
    BY <1>2 DEF IInv, TypeOK
  <2>2. pc' # 0
    BY <1>3, Counts
  <2> QED
    BY <2>1, <2>2, Bounds DEF Peers
<1>6. \E o \in Operations : /\ sig' = Append(sig, o) /\ o.n = h.n
                            /\ o.kind \in {"create", "remote"}
                            /\ o.kind = "remote" => role = "subscriber"
  <2>1. Task("create", h.n, pc') \in Operations /\ Task("remote", h.n, pc') \in Operations
    BY <1>1, <1>5, TasksAre
  <2>2. CASE role = "publisher"
    BY <2>1, <2>2 DEF Prepare, Task, h
  <2>3. CASE role # "publisher"
    BY <2>1, <2>3 DEF Prepare, Task, h, IInv, TypeOK
  <2> QED
    BY <2>2, <2>3
<1>7. /\ Trickles' = Trickles /\ Waiting = Waiting' \cup {h.n} /\ h.n \notin Waiting'
      /\ Numbers(pcQueue, {"jsep"})' \subseteq Numbers(pcQueue, {"jsep"})
      /\ Distinct(pcQueue, {"trickle"})' /\ Distinct(pcQueue, EarlyTasks)'
  <2>1. CASE role = "publisher"
    <3> DEFINE e == Task("localTrack", 0, pc')
    <3>1. e \in PcTasks /\ e.kind = "localTrack" /\ pcQueue' = Append(Tail(pcQueue), e)
      BY <2>1, <1>5, TasksAre DEF Prepare, Task
    <3> HIDE DEF e
    <3> QED
      BY <3>1, <1>1, QueueTurns DEF EarlyTasks, h
  <2>2. CASE role # "publisher"
    <3>1. pcQueue' = Tail(pcQueue)
      BY <2>2 DEF Prepare
    <3> QED
      BY <3>1, <1>1, QueueGoes DEF EarlyTasks, h
  <2> QED
    BY <2>1, <2>2
<1>8. EarlyInv'
  <2>1. PICK o \in Operations : /\ sig' = Append(sig, o) /\ o.n = h.n
                                /\ o.kind \in {"create", "remote"}
                                /\ o.kind = "remote" => role = "subscriber"
    BY <1>6
  <2>2. o.kind \in EarlyOps
    BY <2>1 DEF EarlyOps
  <2>3. EarlyInv /\ sig \in Seq(Operations)
    BY Counts DEF JInv
  <2>4. h.n \notin UnderDone
    BY <2>3, <1>7 DEF EarlyInv
  <2>5. UnderDone' = UnderDone \cup {h.n} /\ Distinct(sig, EarlyOps)'
    BY <2>1, <2>2, <2>3, <2>4, <1>3, OpsCome
  <2>6. Waiting' \cap UnderDone' = {} /\ Waiting' \cup UnderDone' \subseteq Waiting \cup UnderDone
    BY <2>3, <2>5, <1>7 DEF EarlyInv
  <2>7. role = "subscriber" => Numbers(pcQueue, {"jsep"})' = {}
    BY <2>3, <1>7 DEF EarlyInv
  <2> QED
    BY <2>3, <2>5, <2>6, <2>7, <1>3, <1>7, EarlyStay
<1>9. HeadsInv'
  <2>1. flushing # 0 => Head(sig') = Head(sig)
    BY <1>6, OpsHeadKept
  <2> QED
    BY <2>1, <1>1, <1>3 DEF JInv, HeadsInv
<1>10. TricklesInv' /\ CandidatesKept'
  BY <1>1, <1>3, <1>4, <1>7, CandidatesStay
<1>11. SdpOnce'
  BY <1>3 DEF JInv, SdpOnce
<1> QED
  BY <1>4, <1>8, <1>9, <1>10, <1>11 DEF JInv

\* What a task does that is taken from the queue, and leaves the context alone.
LEMMA TakenFlow ==
    ASSUME IInv, JInv, NEW kind, PcTake(kind), kind # "trickle",
           pcQueue' = Tail(pcQueue), UNCHANGED <<contextVars, candidateVars, overtaken>>
    PROVE  /\ pcQueue \in Seq(PcTasks) /\ pcQueue # <<>> /\ crashed = 0 /\ role' = role
           /\ Head(pcQueue) \in PcTasks /\ Head(pcQueue).kind = kind
           /\ ~clearing' /\ flushing' = flushing
           /\ Waiting = Waiting' \cup (IF kind \in EarlyTasks THEN {Head(pcQueue).n} ELSE {})
           /\ kind \in EarlyTasks => Head(pcQueue).n \notin Waiting'
           /\ Distinct(pcQueue, EarlyTasks)'
           /\ role = "subscriber" => Numbers(pcQueue, {"jsep"})' = {}
           /\ PeersInv' /\ TricklesInv' /\ CandidatesKept'
<1>1. /\ pcQueue \in Seq(PcTasks) /\ pcQueue # <<>> /\ crashed = 0 /\ ~clearing
      /\ Head(pcQueue) \in PcTasks /\ Head(pcQueue).kind = kind
  BY Taken
<1>2. /\ role' = role /\ clearing' = clearing /\ flushing' = flushing /\ budget' = budget
      /\ pc' = pc /\ peers' = peers /\ remoteSdp' = remoteSdp /\ overtaken' = overtaken
      /\ UNCHANGED candidateVars
  BY DEF PcTake, contextVars
<1>3. /\ Trickles' = Trickles
      /\ Waiting = Waiting' \cup (IF kind \in EarlyTasks THEN {Head(pcQueue).n} ELSE {})
      /\ kind \in EarlyTasks => Head(pcQueue).n \notin Waiting'
      /\ Numbers(pcQueue, {"jsep"})' \subseteq Numbers(pcQueue, {"jsep"})
      /\ Distinct(pcQueue, {"trickle"})' /\ Distinct(pcQueue, EarlyTasks)'
  BY <1>1, QueueGoes
<1>4. role = "subscriber" => Numbers(pcQueue, {"jsep"})' = {}
  BY <1>3 DEF JInv, EarlyInv
<1>5. PeersInv'
  BY <1>2 DEF JInv, PeersInv
<1>6. TricklesInv' /\ CandidatesKept'
  BY <1>1, <1>2, <1>3, CandidatesStay
<1> QED
  BY <1>1, <1>2, <1>3, <1>4, <1>5, <1>6

LEMMA LocalTrackFlows == ASSUME IInv, JInv, LocalTrack PROVE JInv'
<1>1. /\ PcTake("localTrack") /\ pcQueue' = Tail(pcQueue)
      /\ UNCHANGED <<contextVars, candidateVars, overtaken>>
      /\ sig' = sig /\ sent' = sent /\ status' = status
  BY DEF LocalTrack
<1>2. /\ role' = role /\ ~clearing' /\ flushing' = flushing
      /\ Waiting = Waiting' /\ Distinct(pcQueue, EarlyTasks)'
      /\ role = "subscriber" => Numbers(pcQueue, {"jsep"})' = {}
      /\ PeersInv' /\ TricklesInv' /\ CandidatesKept'
  <2>1. "localTrack" # "trickle" /\ "localTrack" \notin EarlyTasks
    BY DEF EarlyTasks
  <2> QED
    BY <2>1, <1>1, TakenFlow
<1>3. EarlyInv'
  <2>1. EarlyInv
    BY DEF JInv
  <2>2. UnderDone' = UnderDone /\ Distinct(sig, EarlyOps)'
    BY <2>1, <1>1, <1>2, OpsStay
  <2>3. Waiting' \cap UnderDone' = {}
    BY <2>1, <2>2, <1>2 DEF EarlyInv
  <2> QED
    BY <2>1, <2>2, <2>3, <1>1, <1>2, EarlyStay
<1>4. HeadsInv' /\ SdpOnce'
  BY <1>1, <1>2 DEF JInv, HeadsInv, SdpOnce
<1> QED
  BY <1>2, <1>3, <1>4 DEF JInv

LEMMA HandleRemoteJsepFlows == ASSUME IInv, JInv, HandleRemoteJsep PROVE JInv'
<1> DEFINE h == Head(pcQueue)
<1>1. /\ PcTake("jsep") /\ pcQueue' = Tail(pcQueue)
      /\ UNCHANGED <<contextVars, candidateVars, overtaken>>
      /\ sent' = sent
  BY DEF HandleRemoteJsep
<1>2. /\ role' = role /\ ~clearing' /\ flushing' = flushing
      /\ pcQueue \in Seq(PcTasks) /\ pcQueue # <<>> /\ h \in PcTasks /\ h.kind = "jsep"
      /\ Waiting = Waiting' /\ Distinct(pcQueue, EarlyTasks)'
      /\ role = "subscriber" => Numbers(pcQueue, {"jsep"})' = {}
      /\ PeersInv' /\ TricklesInv' /\ CandidatesKept'
  <2>1. "jsep" # "trickle" /\ "jsep" \notin EarlyTasks
    BY DEF EarlyTasks
  <2> QED
    BY <2>1, <1>1, TakenFlow
<1>3. role # "subscriber"
  <2>1. h.n \in Numbers(pcQueue, {"jsep"})
    BY <1>2, NumbersTail DEF h
  <2> QED
    BY <2>1 DEF JInv, EarlyInv
<1> HIDE DEF h
<1>4. \A m \in Negotiations : status'[m] = "none" => status[m] = "none"
  BY DEF HandleRemoteJsep, Marks, IInv, TypeOK
<1>5. sig' = sig \/ \E o \in Operations : sig' = Append(sig, o) /\ o.kind = "remote"
  <2>1. CASE pc = 0
    BY <2>1 DEF HandleRemoteJsep
  <2>2. CASE pc # 0
    <3>1. h.n \in Negotiations /\ pc \in Peers
      BY <1>2, <2>2, TaskTypes, Bounds DEF IInv, TypeOK, Peers
    <3>2. Task("remote", h.n, pc) \in Operations /\ Task("remote", h.n, pc).kind = "remote"
      BY <3>1, TasksAre DEF Task
    <3> QED
      BY <2>2, <3>2 DEF HandleRemoteJsep, h
  <2> QED
    BY <2>1, <2>2
<1>6. EarlyInv'
  <2>1. EarlyInv /\ sig \in Seq(Operations)
    BY Counts DEF JInv
  <2>2. UnderDone' = UnderDone /\ Distinct(sig, EarlyOps)'
    <3>1. CASE sig' = sig
      BY <3>1, <2>1, <1>2, OpsStay
    <3>2. CASE \E o \in Operations : sig' = Append(sig, o) /\ o.kind = "remote"
      <4>1. "remote" \notin EarlyOps
        BY <1>3 DEF EarlyOps
      <4> QED
        BY <4>1, <3>2, <2>1, <1>2, OpsCome
    <3> QED
      BY <3>1, <3>2, <1>5
  <2>3. Waiting' \cap UnderDone' = {}
    BY <2>1, <2>2, <1>2 DEF EarlyInv
  <2> QED
    BY <2>1, <2>2, <2>3, <1>1, <1>2, <1>4, EarlyStay
<1>7. HeadsInv'
  <2>1. flushing # 0 => Head(sig') = Head(sig)
    BY <1>5, OpsHeadKept
  <2> QED
    BY <2>1, <1>2 DEF JInv, HeadsInv
<1>8. SdpOnce'
  BY <1>1 DEF JInv, SdpOnce
<1> QED
  BY <1>2, <1>6, <1>7, <1>8 DEF JInv

LEMMA CreateAnswerFlows == ASSUME IInv, JInv, CreateAnswer PROVE JInv'
<1> DEFINE h == Head(pcQueue)
<1>1. /\ PcTake("answer") /\ pcQueue' = Tail(pcQueue)
      /\ UNCHANGED <<contextVars, candidateVars, overtaken>>
      /\ sent' = sent /\ status' = status
  BY DEF CreateAnswer
<1>2. /\ role' = role /\ ~clearing' /\ flushing' = flushing
      /\ pcQueue \in Seq(PcTasks) /\ pcQueue # <<>> /\ h \in PcTasks /\ h.kind = "answer"
      /\ Waiting = Waiting' \cup {h.n} /\ h.n \notin Waiting' /\ Distinct(pcQueue, EarlyTasks)'
      /\ role = "subscriber" => Numbers(pcQueue, {"jsep"})' = {}
      /\ PeersInv' /\ TricklesInv' /\ CandidatesKept'
  <2>1. "answer" # "trickle" /\ "answer" \in EarlyTasks
    BY DEF EarlyTasks
  <2> QED
    BY <2>1, <1>1, TakenFlow
<1> HIDE DEF h
<1>5. sig' = sig \/ \E o \in Operations : sig' = Append(sig, o) /\ o.kind = "create" /\ o.n = h.n
  <2>1. CASE pc = 0
    BY <2>1 DEF CreateAnswer
  <2>2. CASE pc # 0
    <3>1. h.n \in Negotiations /\ pc \in Peers
      BY <1>2, <2>2, TaskTypes, Bounds DEF IInv, TypeOK, Peers
    <3>2. /\ Task("create", h.n, pc) \in Operations
          /\ Task("create", h.n, pc).kind = "create" /\ Task("create", h.n, pc).n = h.n
      BY <3>1, TasksAre DEF Task
    <3> QED
      BY <2>2, <3>2 DEF CreateAnswer, h
  <2> QED
    BY <2>1, <2>2
<1>6. EarlyInv'
  <2>1. EarlyInv /\ sig \in Seq(Operations)
    BY Counts DEF JInv
  <2>2. h.n \notin UnderDone
    BY <2>1, <1>2 DEF EarlyInv
  <2>3. UnderDone' \subseteq UnderDone \cup {h.n} /\ Distinct(sig, EarlyOps)'
    <3>1. CASE sig' = sig
      BY <3>1, <2>1, <1>2, OpsStay
    <3>2. CASE \E o \in Operations : sig' = Append(sig, o) /\ o.kind = "create" /\ o.n = h.n
      BY <3>2, <2>1, <2>2, <1>2, OpsCome
    <3> QED
      BY <3>1, <3>2, <1>5
  <2>4. Waiting' \cap UnderDone' = {} /\ Waiting' \cup UnderDone' \subseteq Waiting \cup UnderDone
    BY <2>1, <2>3, <1>2 DEF EarlyInv
  <2> QED
    BY <2>1, <2>3, <2>4, <1>1, <1>2, EarlyStay
<1>7. HeadsInv'
  <2>1. flushing # 0 => Head(sig') = Head(sig)
    BY <1>5, OpsHeadKept
  <2> QED
    BY <2>1, <1>2 DEF JInv, HeadsInv
<1>8. SdpOnce'
  BY <1>1 DEF JInv, SdpOnce
<1> QED
  BY <1>2, <1>6, <1>7, <1>8 DEF JInv

LEMMA OfferAnswerFlows == ASSUME IInv, JInv, OfferAnswer PROVE JInv'
<1> DEFINE h == Head(pcQueue)
<1>1. /\ PcTake("given") /\ pcQueue' = Tail(pcQueue)
      /\ UNCHANGED <<contextVars, candidateVars, overtaken>>
      /\ sig' = sig
  BY DEF OfferAnswer
<1>2. /\ role' = role /\ ~clearing' /\ flushing' = flushing
      /\ pcQueue \in Seq(PcTasks) /\ pcQueue # <<>> /\ h \in PcTasks /\ h.kind = "given"
      /\ Waiting = Waiting' \cup {h.n} /\ h.n \notin Waiting' /\ Distinct(pcQueue, EarlyTasks)'
      /\ role = "subscriber" => Numbers(pcQueue, {"jsep"})' = {}
      /\ PeersInv' /\ TricklesInv' /\ CandidatesKept'
  <2>1. "given" # "trickle" /\ "given" \in EarlyTasks
    BY DEF EarlyTasks
  <2> QED
    BY <2>1, <1>1, TakenFlow
<1>3. EarlyInv
  BY DEF JInv
<1>4. h.n \notin UnderDone /\ h.n \notin Given
  BY <1>2, <1>3 DEF EarlyInv
<1>5. sent' = sent \cup {[n |-> h.n, peer |-> h.peer, pc |-> pc,
                          again |-> \E s \in sent : s.n = h.n]}
  BY DEF OfferAnswer, h
<1>6. Given' = Given \cup {h.n} /\ SdpOnce'
  <2>1. ~ \E s \in sent : s.n = h.n
    BY <1>4 DEF Given
  <2>2. Given' = Given \cup {h.n}
    <3> DEFINE r == [n |-> h.n, peer |-> h.peer, pc |-> pc, again |-> \E s \in sent : s.n = h.n]
    <3>1. r.n = h.n /\ sent' = sent \cup {r}
      BY <1>5
    <3> HIDE DEF r, h
    <3> QED
      BY <3>1 DEF Given
  <2>3. SdpOnce'
    BY <1>5, <2>1 DEF JInv, SdpOnce
  <2> QED
    BY <2>2, <2>3
<1>7. \A m \in Negotiations : status'[m] = "none" => status[m] = "none" /\ m # h.n
  BY DEF OfferAnswer, Marks, IInv, TypeOK, h
<1> HIDE DEF h
<1>8. EarlyInv'
  <2>1. UnderDone' = UnderDone /\ Distinct(sig, EarlyOps)'
    BY <1>1, <1>2, <1>3, OpsStay
  <2> QED
    BY <2>1, <1>2, <1>3, <1>4, <1>6, <1>7 DEF EarlyInv
<1>9. HeadsInv'
  BY <1>1, <1>2 DEF JInv, HeadsInv
<1> QED
  BY <1>2, <1>6, <1>8, <1>9 DEF JInv

LEMMA TrickleLookFlows == ASSUME IInv, JInv, TrickleLook PROVE JInv'
<1>1. /\ PcTake("trickle") /\ crashed = 0
      /\ UNCHANGED <<role, pcQueue, sig, contextVars, candidateVars, sent, status, overtaken, crashed>>
      /\ UNCHANGED <<clearing, flushing, budget>>
  BY DEF TrickleLook, PcTake
<1>2. /\ pc' = pc /\ peers' = peers /\ remoteSdp' = remoteSdp
  BY <1>1 DEF contextVars
<1>3. EarlyInv /\ Distinct(pcQueue, {"trickle"}) /\ Distinct(pcQueue, EarlyTasks)
  BY DEF JInv, TricklesInv, EarlyInv
<1>4. TricklesInv' /\ CandidatesKept'
  <2>1. Trickles' = Trickles /\ Distinct(pcQueue, {"trickle"})'
    BY <1>1, <1>3 DEF Trickles
  <2> QED
    BY <2>1, <1>1, <1>2, CandidatesStay
<1>5. EarlyInv'
  <2>1. UnderDone' = UnderDone /\ Distinct(sig, EarlyOps)'
    BY <1>1, <1>3, OpsStay
  <2>2. /\ Waiting' = Waiting /\ Distinct(pcQueue, EarlyTasks)'
        /\ Numbers(pcQueue, {"jsep"})' = Numbers(pcQueue, {"jsep"})
    BY <1>1, <1>3 DEF Waiting, EarlyTasks
  <2>3. Waiting' \cap UnderDone' = {} /\ (role = "subscriber" => Numbers(pcQueue, {"jsep"})' = {})
    BY <2>1, <2>2, <1>3 DEF EarlyInv
  <2> QED
    BY <2>1, <2>2, <2>3, <1>1, <1>3, EarlyStay
<1>6. PeersInv' /\ HeadsInv' /\ SdpOnce'
  BY <1>1, <1>2 DEF JInv, PeersInv, HeadsInv, SdpOnce
<1> QED
  BY <1>4, <1>5, <1>6 DEF JInv

\* What happens besides when a candidate is placed.
LEMMA PlacedFlow ==
    ASSUME IInv, JInv, looked # "none", pcQueue' = Tail(pcQueue),
           UNCHANGED <<role, sig, contextVars, clearing, flushing, historyVars>>
    PROVE  /\ pcQueue \in Seq(PcTasks) /\ pcQueue # <<>>
           /\ Head(pcQueue).kind = "trickle" /\ Head(pcQueue).n \in Candidates
           /\ Trickles = Trickles' \cup {Head(pcQueue).n} /\ Head(pcQueue).n \notin Trickles'
           /\ Distinct(pcQueue, {"trickle"})'
           /\ PeersInv' /\ HeadsInv' /\ EarlyInv' /\ SdpOnce'
<1>1. pcQueue \in Seq(PcTasks) /\ pcQueue # <<>> /\ Head(pcQueue).kind = "trickle" /\ ~clearing
  BY Counts DEF IInv, StepsInv
<1>2. Head(pcQueue).n \in Candidates
  BY <1>1, TailAt, TaskTypes
<1>3. /\ Trickles = Trickles' \cup {Head(pcQueue).n} /\ Head(pcQueue).n \notin Trickles'
      /\ Distinct(pcQueue, {"trickle"})'
      /\ Waiting' = Waiting /\ Distinct(pcQueue, EarlyTasks)'
      /\ Numbers(pcQueue, {"jsep"})' \subseteq Numbers(pcQueue, {"jsep"})
  BY <1>1, QueueGoes DEF EarlyTasks
<1>4. /\ role' = role /\ sig' = sig /\ clearing' = clearing /\ flushing' = flushing
      /\ pc' = pc /\ peers' = peers /\ remoteSdp' = remoteSdp
      /\ sent' = sent /\ status' = status /\ overtaken' = overtaken
  BY DEF contextVars, historyVars
<1>5. EarlyInv'
  <2>1. EarlyInv
    BY DEF JInv
  <2>2. UnderDone' = UnderDone /\ Distinct(sig, EarlyOps)'
    BY <2>1, <1>4, OpsStay
  <2>3. Waiting' \cap UnderDone' = {} /\ (role = "subscriber" => Numbers(pcQueue, {"jsep"})' = {})
    BY <2>1, <2>2, <1>3 DEF EarlyInv
  <2> QED
    BY <2>1, <2>2, <2>3, <1>3, <1>4, EarlyStay
<1>6. PeersInv' /\ HeadsInv' /\ SdpOnce'
  BY <1>1, <1>4 DEF JInv, PeersInv, HeadsInv, SdpOnce
<1> QED
  BY <1>1, <1>2, <1>3, <1>5, <1>6

LEMMA TrickleAddFlows == ASSUME IInv, JInv, TrickleAdd PROVE JInv'
<1> DEFINE c == Head(pcQueue).n
<1>1. /\ looked # "none" /\ pcQueue' = Tail(pcQueue) /\ flushing = 0
      /\ UNCHANGED <<role, sig, contextVars, clearing, flushing, historyVars>>
  BY DEF TrickleAdd
<1>2. /\ Trickles = Trickles' \cup {c} /\ c \notin Trickles'
      /\ Distinct(pcQueue, {"trickle"})'
      /\ PeersInv' /\ HeadsInv' /\ EarlyInv' /\ SdpOnce'
  BY <1>1, PlacedFlow
<1>3. Added' = Added \cup {c}
  <2> DEFINE a == [c |-> Head(pcQueue).n, peer |-> pc, by |-> remoteSdp, ok |-> pc \in described]
  <2>1. a.c = c /\ added' = added \cup {a}
    BY DEF TrickleAdd
  <2> HIDE DEF a, c
  <2> QED
    BY <2>1 DEF Added
<1> HIDE DEF c
<1>4. /\ Cached' = Cached /\ dropped' = dropped /\ lost' = lost /\ raced' = raced
      /\ budget' = budget /\ flushing' = flushing
      /\ pc' = pc /\ remoteSdp' = remoteSdp /\ crashed' = crashed
  BY DEF TrickleAdd, Cached, contextVars, historyVars
<1>5. c \notin Cached \cup Added \cup dropped \cup lost
  BY <1>2 DEF JInv, TricklesInv
<1>6. TricklesInv'
  BY <1>1, <1>2, <1>3, <1>4, <1>5 DEF JInv, TricklesInv
<1>7. CandidatesKept'
  BY <1>2, <1>3, <1>4, <1>5, QueuedAre DEF JInv, CandidatesKept
<1> QED
  BY <1>2, <1>6, <1>7 DEF JInv

LEMMA TrickleCacheFlows == ASSUME IInv, JInv, TrickleCache PROVE JInv'
<1> DEFINE c == Head(pcQueue).n
<1>1. /\ looked # "none" /\ pcQueue' = Tail(pcQueue)
      /\ UNCHANGED <<role, sig, contextVars, clearing, flushing, historyVars>>
  BY DEF TrickleCache
<1>2. /\ Trickles = Trickles' \cup {c} /\ c \notin Trickles' /\ c \in Candidates
      /\ Distinct(pcQueue, {"trickle"})'
      /\ PeersInv' /\ HeadsInv' /\ EarlyInv' /\ SdpOnce'
  BY <1>1, PlacedFlow
<1>3. Cached' = Cached \cup {c}
  <2>1. candidates \in Seq(Candidates) /\ candidates' = Append(candidates, c)
    BY DEF TrickleCache, IInv, TypeOK
  <2> HIDE DEF c
  <2>2. /\ Len(candidates) \in Nat /\ Len(candidates') = Len(candidates) + 1
        /\ \A i \in 1..Len(candidates) : candidates'[i] = candidates[i]
        /\ candidates'[Len(candidates) + 1] = c
    BY <2>1, <1>2, AppendAt
  <2>3. 1..Len(candidates') = 1..Len(candidates) \cup {Len(candidates) + 1}
    BY <2>2
  <2> QED
    BY <2>2, <2>3 DEF Cached
<1>4. /\ Added' = Added /\ dropped' = dropped /\ lost' = lost
      /\ raced \subseteq raced' /\ (remoteSdp # 0 \/ flushing # 0 => c \in raced')
      /\ budget' = budget /\ flushing' = flushing
      /\ pc' = pc /\ remoteSdp' = remoteSdp /\ crashed' = crashed
  BY DEF TrickleCache, Added, contextVars, historyVars
<1> HIDE DEF c
<1>5. c \notin Cached \cup Added \cup dropped \cup lost
  BY <1>2 DEF JInv, TricklesInv
<1>6. TricklesInv'
  BY <1>2, <1>3, <1>4, <1>5 DEF JInv, TricklesInv
<1>7. CandidatesKept'
  BY <1>2, <1>3, <1>4, <1>5, QueuedAre DEF JInv, CandidatesKept
<1> QED
  BY <1>2, <1>6, <1>7 DEF JInv

LEMMA CleanupPeerFlows == ASSUME IInv, JInv, CleanupPeer PROVE JInv'
<1>1. /\ crashed = 0 /\ Head(pcQueue).kind = "cleanup" /\ pc' = 0
      /\ overtaken' = overtaken \/ overtaken' = overtaken \cup {pc}
      /\ UNCHANGED <<role, pcQueue, sig, peers, remoteSdp, candidateVars, flushing, budget, status, sent>>
  BY DEF CleanupPeer
<1>2. EarlyInv /\ Distinct(pcQueue, {"trickle"}) /\ Distinct(pcQueue, EarlyTasks)
  BY DEF JInv, TricklesInv, EarlyInv
<1>3. TricklesInv' /\ CandidatesKept'
  <2>1. Trickles' = Trickles /\ Distinct(pcQueue, {"trickle"})'
    BY <1>1, <1>2 DEF Trickles
  <2> QED
    BY <2>1, <1>1, CandidatesStay
<1>4. EarlyInv'
  <2>1. UnderDone' = UnderDone /\ Distinct(sig, EarlyOps)'
    BY <1>1, <1>2, OpsStay
  <2>2. /\ Waiting' = Waiting /\ Distinct(pcQueue, EarlyTasks)'
        /\ Numbers(pcQueue, {"jsep"})' = Numbers(pcQueue, {"jsep"})
    BY <1>1, <1>2 DEF Waiting, EarlyTasks
  <2>3. Waiting' \cap UnderDone' = {} /\ (role = "subscriber" => Numbers(pcQueue, {"jsep"})' = {})
    BY <2>1, <2>2, <1>2 DEF EarlyInv
  <2> QED
    BY <2>1, <2>2, <2>3, <1>1, <1>2, EarlyStay
<1>5. PeersInv'
  BY <1>1, Counts DEF JInv, PeersInv
<1>6. HeadsInv' /\ SdpOnce'
  BY <1>1 DEF JInv, HeadsInv, SdpOnce
<1> QED
  BY <1>3, <1>4, <1>5, <1>6 DEF JInv

LEMMA CleanupRestFlows == ASSUME IInv, JInv, CleanupRest PROVE JInv'
<1>1. /\ crashed = 0 /\ clearing /\ ~clearing' /\ pcQueue' = Tail(pcQueue)
      /\ dropped' = dropped \cup Cached /\ candidates' = <<>> /\ remoteSdp' = 0
      /\ UNCHANGED <<role, sig, pc, peers, added, raced, lost, flushing, budget, historyVars>>
  BY DEF CleanupRest, Forget, DropCandidates
<1>2. pcQueue \in Seq(PcTasks) /\ pcQueue # <<>> /\ Head(pcQueue).kind = "cleanup" /\ pc = 0
  BY <1>1, Counts DEF IInv, StepsInv, JInv, HeadsInv
<1>3. /\ Trickles = Trickles' /\ Distinct(pcQueue, {"trickle"})'
      /\ Waiting' = Waiting /\ Distinct(pcQueue, EarlyTasks)'
      /\ Numbers(pcQueue, {"jsep"})' \subseteq Numbers(pcQueue, {"jsep"})
  BY <1>1, <1>2, QueueGoes DEF EarlyTasks
<1>4. Cached' = {} /\ Added' = Added
  BY <1>1, Len(<<>>) = 0 DEF Cached, Added
<1>5. sent' = sent /\ status' = status /\ overtaken' = overtaken
  BY <1>1 DEF historyVars
<1>6. TricklesInv'
  BY <1>1, <1>3, <1>4 DEF JInv, TricklesInv
<1>7. CandidatesKept'
  BY <1>1, <1>2, <1>3, <1>4, QueuedAre DEF JInv, CandidatesKept
<1>8. EarlyInv'
  <2>1. EarlyInv
    BY DEF JInv
  <2>2. UnderDone' = UnderDone /\ Distinct(sig, EarlyOps)'
    BY <2>1, <1>1, OpsStay
  <2>3. Waiting' \cap UnderDone' = {} /\ (role = "subscriber" => Numbers(pcQueue, {"jsep"})' = {})
    BY <2>1, <2>2, <1>3 DEF EarlyInv
  <2> QED
    BY <2>1, <2>2, <2>3, <1>1, <1>3, <1>5, EarlyStay
<1>9. PeersInv' /\ HeadsInv' /\ SdpOnce'
  BY <1>1, <1>5, Counts DEF JInv, PeersInv, HeadsInv, SdpOnce
<1> QED
  BY <1>6, <1>7, <1>8, <1>9 DEF JInv

-----------------------------------------------------------------------------
(* The steps of WebRTC's thread.                                           *)

\* An operation completes, and at most one task comes, not a candidate's.
LEMMA CompletedFlow ==
    ASSUME IInv, JInv, sig # <<>>, sig' = Tail(sig), role' = role, sent' = sent,
           pcQueue' = pcQueue
             \/ \E e \in PcTasks : /\ pcQueue' = Append(pcQueue, e)
                                   /\ e.kind \in EarlyTasks /\ e.kind # "trickle" /\ e.kind # "jsep"
                                   /\ e.n = Head(sig).n /\ Head(sig).kind \in EarlyOps,
           \A n \in Negotiations : status'[n] = "none" => status[n] = "none"
    PROVE  /\ Trickles' = Trickles /\ Distinct(pcQueue, {"trickle"})'
           /\ pcQueue # <<>> => Head(pcQueue') = Head(pcQueue)
           /\ EarlyInv' /\ SdpOnce'
<1>1. EarlyInv /\ sig \in Seq(Operations) /\ pcQueue \in Seq(PcTasks)
      /\ Distinct(pcQueue, {"trickle"}) /\ Distinct(pcQueue, EarlyTasks)
  BY Counts DEF JInv, TricklesInv, EarlyInv
<1>2. /\ UnderDone = UnderDone' \cup (IF Head(sig).kind \in EarlyOps THEN {Head(sig).n} ELSE {})
      /\ Head(sig).kind \in EarlyOps => Head(sig).n \notin UnderDone'
      /\ Distinct(sig, EarlyOps)'
  BY <1>1, OpsGo
<1>3. /\ Trickles' = Trickles /\ Distinct(pcQueue, {"trickle"})'
      /\ pcQueue # <<>> => Head(pcQueue') = Head(pcQueue)
      /\ Distinct(pcQueue, EarlyTasks)'
      /\ Numbers(pcQueue, {"jsep"})' = Numbers(pcQueue, {"jsep"})
      /\ \/ Waiting' = Waiting
         \/ Head(sig).kind \in EarlyOps /\ Waiting' = Waiting \cup {Head(sig).n}
  <2>1. CASE pcQueue' = pcQueue
    <3>1. Trickles' = Trickles /\ Numbers(pcQueue, {"jsep"})' = Numbers(pcQueue, {"jsep"})
      BY <2>1 DEF Trickles
    <3>2. Waiting' = Waiting
      BY <2>1 DEF Waiting, EarlyTasks
    <3>3. Distinct(pcQueue, {"trickle"})' /\ Distinct(pcQueue, EarlyTasks)'
      BY <2>1, <1>1 DEF EarlyTasks
    <3>4. Head(pcQueue') = Head(pcQueue)
      BY <2>1
    <3> QED
      BY <3>1, <3>2, <3>3, <3>4
  <2>2. CASE \E e \in PcTasks : /\ pcQueue' = Append(pcQueue, e)
                                /\ e.kind \in EarlyTasks /\ e.kind # "trickle" /\ e.kind # "jsep"
                                /\ e.n = Head(sig).n /\ Head(sig).kind \in EarlyOps
    <3>1. PICK e \in PcTasks : /\ pcQueue' = Append(pcQueue, e)
                               /\ e.kind \in EarlyTasks /\ e.kind # "trickle" /\ e.kind # "jsep"
                               /\ e.n = Head(sig).n /\ Head(sig).kind \in EarlyOps
      BY <2>2
    <3>2. e.n \notin Waiting
      BY <3>1, <1>1, <1>2 DEF EarlyInv
    <3>3. pcQueue # <<>> => Head(pcQueue') = Head(pcQueue)
      BY <3>1, <1>1, AppendHead
    <3> HIDE DEF EarlyTasks
    <3> QED
      BY <3>1, <3>2, <3>3, <1>1, QueueComes
  <2> QED
    BY <2>1, <2>2
<1>4. EarlyInv'
  <2>1. Waiting' \cap UnderDone' = {} /\ Waiting' \cup UnderDone' \subseteq Waiting \cup UnderDone
    BY <1>1, <1>2, <1>3 DEF EarlyInv
  <2>2. role = "subscriber" => Numbers(pcQueue, {"jsep"})' = {}
    BY <1>1, <1>3 DEF EarlyInv
  <2> QED
    BY <2>1, <2>2, <1>1, <1>2, <1>3, EarlyStay
<1>5. SdpOnce'
  BY DEF JInv, SdpOnce
<1> QED
  BY <1>3, <1>4, <1>5

LEMMA SigCreatedFlows == ASSUME IInv, JInv, SigCreated PROVE JInv'
<1>1. /\ sig # <<>> /\ Head(sig).kind = "create" /\ Head(sig).n \in Negotiations
      /\ Head(sig).peer \in Peers /\ flushing = 0 /\ crashed = 0
  BY SigTaken DEF SigCreated
<1>2. /\ UNCHANGED <<role, sent, status, clearing, flushing, candidateVars, budget>>
      /\ UNCHANGED <<pc, peers, remoteSdp, overtaken>> /\ sig' = Tail(sig)
  BY DEF SigCreated, SigTake
<1>3. pcQueue' = pcQueue
        \/ \E e \in PcTasks : /\ pcQueue' = Append(pcQueue, e)
                              /\ e.kind \in EarlyTasks /\ e.kind # "trickle" /\ e.kind # "jsep"
                              /\ e.n = Head(sig).n /\ Head(sig).kind \in EarlyOps
  <2> DEFINE e == Task("given", Head(sig).n, Head(sig).peer)
  <2>1. pcQueue' = pcQueue \/ pcQueue' = Append(pcQueue, e)
    BY DEF SigCreated
  <2>2. /\ e \in PcTasks /\ e.kind \in EarlyTasks /\ e.kind # "trickle" /\ e.kind # "jsep"
        /\ e.n = Head(sig).n
    BY <1>1, TasksAre DEF Task, EarlyTasks
  <2>3. Head(sig).kind \in EarlyOps
    BY <1>1 DEF EarlyOps
  <2> QED
    BY <2>1, <2>2, <2>3
<1>4. /\ Trickles' = Trickles /\ Distinct(pcQueue, {"trickle"})'
      /\ pcQueue # <<>> => Head(pcQueue') = Head(pcQueue)
      /\ EarlyInv' /\ SdpOnce'
  BY <1>1, <1>2, <1>3, CompletedFlow
<1>5. TricklesInv' /\ CandidatesKept'
  BY <1>1, <1>2, <1>4, CandidatesStay
<1>6. PeersInv' /\ HeadsInv'
  BY <1>1, <1>2, <1>4 DEF JInv, PeersInv, HeadsInv, IInv, StepsInv
<1> QED
  BY <1>4, <1>5, <1>6 DEF JInv

LEMMA SigFailedFlows == ASSUME IInv, JInv, NEW kind, SigFailed(kind) PROVE JInv'
<1>1. /\ sig # <<>> /\ flushing = 0 /\ crashed = 0
  BY SigTaken DEF SigFailed
<1>2. /\ UNCHANGED <<role, sent, pcQueue, clearing, flushing, candidateVars, budget>>
      /\ UNCHANGED <<pc, peers, remoteSdp, overtaken>> /\ sig' = Tail(sig)
      /\ \A n \in Negotiations : status'[n] = "none" => status[n] = "none"
  BY DEF SigFailed, SigTake, Marks, IInv, TypeOK
<1>4. /\ Trickles' = Trickles /\ Distinct(pcQueue, {"trickle"})'
      /\ pcQueue # <<>> => Head(pcQueue') = Head(pcQueue)
      /\ EarlyInv' /\ SdpOnce'
  BY <1>1, <1>2, CompletedFlow
<1>5. TricklesInv' /\ CandidatesKept'
  BY <1>1, <1>2, <1>4, CandidatesStay
<1>6. PeersInv' /\ HeadsInv'
  BY <1>1, <1>2, <1>4 DEF JInv, PeersInv, HeadsInv, IInv, StepsInv
<1> QED
  BY <1>4, <1>5, <1>6 DEF JInv

LEMMA SigDescribedFlows == ASSUME IInv, JInv, SigDescribed PROVE JInv'
<1> DEFINE peer == Head(sig).peer
<1>1. /\ sig # <<>> /\ Head(sig).kind = "remote" /\ Head(sig).n \in Negotiations
      /\ peer \in Peers /\ peer \in {pc} \cup overtaken /\ flushing = 0 /\ crashed = 0
  BY SigTaken DEF SigDescribed
<1>2. /\ UNCHANGED <<role, sent, status, pcQueue, sig, clearing, budget>>
      /\ UNCHANGED <<pc, peers, overtaken>> /\ remoteSdp' = peer /\ flushing' = Head(sig).n
      /\ UNCHANGED <<candidates, dropped, raced, lost>>
  BY DEF SigDescribed, SigTake
<1>3. Added' = Added \cup Cached
  <2> DEFINE R(c) == [c |-> c, peer |-> pc, by |-> peer, ok |-> pc \in described']
  <2>1. added' = added \cup {R(c) : c \in Cached}
    BY DEF SigDescribed
  <2>2. \A c : R(c).c = c
    OBVIOUS
  <2> HIDE DEF R
  <2> QED
    BY <2>1, <2>2 DEF Added
<1>4. EarlyInv /\ Distinct(pcQueue, {"trickle"}) /\ Distinct(pcQueue, EarlyTasks)
  BY DEF JInv, TricklesInv, EarlyInv
<1>5. /\ Trickles' = Trickles /\ Distinct(pcQueue, {"trickle"})'
      /\ Waiting' = Waiting /\ Distinct(pcQueue, EarlyTasks)'
      /\ Numbers(pcQueue, {"jsep"})' = Numbers(pcQueue, {"jsep"})
      /\ Cached' = Cached
  BY <1>2, <1>4 DEF Trickles, Waiting, EarlyTasks, Cached
<1>6. flushing' # 0
  BY <1>1, <1>2, Bounds DEF Negotiations
<1> HIDE DEF peer
<1>7. TricklesInv'
  BY <1>2, <1>3, <1>5 DEF JInv, TricklesInv
<1>8. CandidatesKept'
  BY <1>2, <1>3, <1>5, <1>6, QueuedAre DEF JInv, CandidatesKept
<1>9. EarlyInv'
  <2>1. UnderDone' = UnderDone /\ Distinct(sig, EarlyOps)'
    BY <1>2, <1>4, OpsStay
  <2>2. Waiting' \cap UnderDone' = {} /\ (role = "subscriber" => Numbers(pcQueue, {"jsep"})' = {})
    BY <2>1, <1>4, <1>5 DEF EarlyInv
  <2> QED
    BY <2>1, <2>2, <1>2, <1>4, <1>5, EarlyStay
<1>10. PeersInv'
  BY <1>1, <1>2 DEF JInv, PeersInv
<1>11. HeadsInv' /\ SdpOnce'
  BY <1>1, <1>2 DEF JInv, HeadsInv, SdpOnce
<1> QED
  BY <1>7, <1>8, <1>9, <1>10, <1>11 DEF JInv

LEMMA SigFlushedFlows == ASSUME IInv, JInv, SigFlushed PROVE JInv'
<1>1. /\ crashed = 0 /\ flushing # 0 /\ flushing' = 0 /\ sig # <<>> /\ sig' = Tail(sig)
      /\ Head(sig).kind = "remote" /\ Head(sig).n = flushing
      /\ lost' = lost \cup (Cached \ Added) /\ candidates' = <<>>
      /\ UNCHANGED <<role, sent, clearing, budget, added, dropped, raced, overtaken, crashed>>
      /\ UNCHANGED contextVars
  BY DEF SigFlushed, EmptyCache, Added, IInv, StepsInv, JInv, HeadsInv
<1>2. pc' = pc /\ peers' = peers /\ remoteSdp' = remoteSdp
  BY <1>1 DEF contextVars
<1>3. \A n \in Negotiations : status'[n] = "none" => status[n] = "none"
  BY DEF SigFlushed, Marks, IInv, TypeOK
<1>4. pcQueue' = pcQueue
        \/ \E e \in PcTasks : /\ pcQueue' = Append(pcQueue, e)
                              /\ e.kind \in EarlyTasks /\ e.kind # "trickle" /\ e.kind # "jsep"
                              /\ e.n = Head(sig).n /\ Head(sig).kind \in EarlyOps
  <2>1. CASE role = "publisher"
    BY <2>1 DEF SigFlushed
  <2>2. CASE role # "publisher"
    <3> DEFINE e == Task("answer", flushing, Head(sig).peer)
    <3>1. pcQueue' = Append(pcQueue, e)
      BY <2>2 DEF SigFlushed
    <3>0. Head(sig) \in Operations
      BY <1>1, Counts, TailAt
    <3>2. Head(sig).n \in Negotiations /\ Head(sig).peer \in Peers
      BY <3>0 DEF Operations
    <3>3. /\ e \in PcTasks /\ e.kind \in EarlyTasks /\ e.kind # "trickle" /\ e.kind # "jsep"
          /\ e.n = Head(sig).n
      BY <1>1, <3>2, TasksAre DEF Task, EarlyTasks
    <3>4. Head(sig).kind \in EarlyOps
      BY <1>1, <2>2 DEF EarlyOps, IInv, TypeOK
    <3> QED
      BY <3>1, <3>3, <3>4
  <2> QED
    BY <2>1, <2>2
<1>5. /\ Trickles' = Trickles /\ Distinct(pcQueue, {"trickle"})'
      /\ pcQueue # <<>> => Head(pcQueue') = Head(pcQueue)
      /\ EarlyInv' /\ SdpOnce'
  BY <1>1, <1>3, <1>4, CompletedFlow
<1>6. Cached' = {} /\ Added' = Added
  BY <1>1, Len(<<>>) = 0 DEF Cached, Added
<1>7. TricklesInv'
  BY <1>1, <1>5, <1>6 DEF JInv, TricklesInv
<1>8. CandidatesKept'
  <2>1. Cached \ Added \subseteq raced
    BY <1>1 DEF JInv, TricklesInv
  <2> QED
    BY <2>1, <1>1, <1>5, <1>6, QueuedAre DEF JInv, CandidatesKept
<1>9. PeersInv' /\ HeadsInv'
  BY <1>1, <1>2, <1>5 DEF JInv, PeersInv, HeadsInv, IInv, StepsInv
<1> QED
  BY <1>5, <1>7, <1>8, <1>9 DEF JInv

\* Nothing that JInv is about changes.
LEMMA NothingFlows ==
    ASSUME IInv, JInv, UNCHANGED <<role, pcQueue, sig, pc, peers, remoteSdp, candidateVars,
                                   clearing, flushing, budget, status, sent, overtaken, crashed>>
    PROVE  JInv'
<1>1. PeersInv' /\ HeadsInv' /\ SdpOnce'
  BY DEF JInv, PeersInv, HeadsInv, SdpOnce
<1>2. TricklesInv'
  BY DEF JInv, TricklesInv, Trickles, Cached, Added, candidateVars
<1>3. CandidatesKept'
  BY DEF JInv, CandidatesKept, Queued, Cached, Added, candidateVars
<1>4. EarlyInv'
  BY DEF JInv, EarlyInv, Waiting, UnderDone, Given, EarlyTasks, EarlyOps
<1> QED
  BY <1>1, <1>2, <1>3, <1>4 DEF JInv

LEMMA SigGatheredFlows == ASSUME IInv, JInv, SigGathered PROVE JInv'
<1>1. UNCHANGED <<role, pcQueue, sig, pc, peers, remoteSdp, candidateVars,
                  clearing, flushing, budget, status, sent, overtaken, crashed>>
  BY DEF SigGathered, stepVars, historyVars
<1> QED
  BY <1>1, NothingFlows

-----------------------------------------------------------------------------
(* The theorems.                                                           *)

LEMMA InitiallyFlows == Init => JInv
<1> SUFFICES ASSUME Init PROVE JInv
  OBVIOUS
<1> USE DEF Init
<1>1. \A kinds : Numbers(<<>>, kinds) = {} /\ Distinct(<<>>, kinds)
  BY NumbersEmpty
<1>2. Cached = {} /\ Added = {} /\ Given = {} /\ Queued = {}
  <2>1. Cached = {}
    BY Len(<<>>) = 0 DEF Cached
  <2>2. Queued = {}
    BY <1>1, QueuedAre DEF Trickles
  <2> QED
    BY <2>1, <2>2 DEF Added, Given
<1>3. PeersInv /\ HeadsInv /\ SdpOnce
  BY DEF PeersInv, HeadsInv, SdpOnce
<1>4. TricklesInv
  BY <1>1, <1>2 DEF TricklesInv, Trickles
<1>5. CandidatesKept
  BY <1>2 DEF CandidatesKept
<1>6. EarlyInv
  BY <1>1, <1>2 DEF EarlyInv, Waiting, UnderDone
<1> QED
  BY <1>3, <1>4, <1>5, <1>6 DEF JInv

LEMMA StepFlows == ASSUME IInv, JInv, [Next]_vars PROVE JInv'
<1>1. CASE Environment
  BY <1>1, BeginFlows, ServerAnswerFlows, ServerCandidateFlows, PostCleanupFlows DEF Environment
<1>2. CASE PcStep
  BY <1>2, PrepareFlows, LocalTrackFlows, HandleRemoteJsepFlows, CreateAnswerFlows,
     OfferAnswerFlows, TrickleLookFlows, TrickleAddFlows, TrickleCacheFlows, CleanupPeerFlows,
     CleanupRestFlows DEF PcStep
<1>3. CASE SigStep
  BY <1>3, SigCreatedFlows, SigDescribedFlows, SigFlushedFlows, SigFailedFlows DEF SigStep
<1>4. CASE SigGathered
  BY <1>4, SigGatheredFlows
<1>5. CASE UNCHANGED vars
  <2>1. UNCHANGED <<role, pcQueue, sig, pc, peers, remoteSdp, candidateVars,
                    clearing, flushing, budget, status, sent, overtaken, crashed>>
    BY <1>5 DEF vars, contextVars, stepVars, historyVars
  <2> QED
    BY <2>1, NothingFlows
<1> QED
  BY <1>1, <1>2, <1>3, <1>4, <1>5 DEF Next

LEMMA BothInvariants == Spec => [](IInv /\ JInv)
<1>1. Init => IInv /\ JInv
  BY Initially, InitiallyFlows
<1>2. IInv /\ JInv /\ [Next]_vars => IInv' /\ JInv'
  BY StepKeeps, StepFlows
<1> QED
  BY <1>1, <1>2, PTL DEF Spec

\* A negotiation hands its SDP over once, and while its PeerConnection is the
\* current one, unless a clean-up came first (plugin_client.cpp:1258-1268,
\* 1397-1407).
THEOREM SdpHandedOverOnce == Spec => []SdpFresh
<1>1. IInv /\ JInv => SdpFresh
  BY DEF IInv, JInv, SdpCurrent, SdpOnce, SdpFresh
<1> QED
  BY <1>1, BothInvariants, PTL

\* No candidate goes missing: each one is queued, cached, added or dropped, and
\* it is lost, or left in the cache beside a description, only when it was
\* cached while a description was there (plugin_client.cpp:549-553, 1582-1618).
THEOREM NoCandidateMissing == Spec => []CandidatesKept
<1>1. JInv => CandidatesKept
  BY DEF JInv
<1> QED
  BY <1>1, BothInvariants, PTL

-----------------------------------------------------------------------------
(* The refinement of CandidateLife.                                        *)

\* Place, where no two of its cases meet.
PlaceInfo(c, place, at, ends, gone, last) ==
    /\ c \in at /\ ~(c > last) => place = "added"
    /\ c \in ends /\ c \notin at \cup gone /\ ~(c > last) => place = "dropped"
    /\ c \in gone /\ c \notin at \cup ends /\ ~(c > last) => place = "lost"
    /\ c \notin at \cup ends \cup gone /\ c > last => place = "unsent"
    /\ c \notin at \cup ends \cup gone /\ ~(c > last) => place = "waiting"

LEMMA PlaceIs ==
    ASSUME NEW c
    PROVE  /\ PlaceInfo(c, Place(c), Added, dropped, lost, budget.candidates)
           /\ PlaceInfo(c, Place(c)', Added', dropped', lost', budget'.candidates)
<1>1. PlaceInfo(c, Place(c), Added, dropped, lost, budget.candidates)
  BY DEF PlaceInfo, Place
<1>2. Place(c)' = CASE c \in Added'                 -> "added"
                    [] c \in dropped' \ Added'       -> "dropped"
                    [] c \in lost' \ Added'          -> "lost"
                    [] c > budget'.candidates       -> "unsent"
                    [] OTHER                        -> "waiting"
  BY DEF Place
<1>3. PlaceInfo(c, Place(c)', Added', dropped', lost', budget'.candidates)
  BY <1>2 DEF PlaceInfo
<1> QED
  BY <1>1, <1>3

LEMMA InitiallyLives == Init => Life!Init
<1> SUFFICES ASSUME Init PROVE Life!Init
  OBVIOUS
<1>1. Added = {} /\ dropped = {} /\ lost = {} /\ budget.candidates = 0
  BY DEF Init, Added
<1>2. ASSUME NEW c \in Candidates PROVE Place(c) = "unsent"
  <2>1. c > 0
    BY Bounds DEF Candidates
  <2> QED
    BY <1>1, <2>1, PlaceIs DEF PlaceInfo
<1> QED
  BY <1>2 DEF Life!Init

LEMMA PlacesStay ==
    ASSUME Added' = Added, dropped' = dropped, lost' = lost,
           budget'.candidates = budget.candidates
    PROVE  UNCHANGED [c \in Candidates |-> Place(c)]
<1>1. \A c \in Candidates : Place(c)' = Place(c)
  BY DEF Place
<1> QED
  BY <1>1

\* A candidate that is queued or cached, and not yet added, waits.
LEMMA StillWaiting ==
    ASSUME IInv, JInv, NEW c \in Trickles \cup Cached, c \notin Added
    PROVE  /\ c \in Candidates /\ ~(c > budget.candidates)
           /\ Place(c) = "waiting" /\ c \notin dropped \cup lost
<1>1. c \notin Added \cup dropped \cup lost
  BY DEF JInv, TricklesInv
<1>2. c \in 1..budget.candidates
  BY QueuedAre DEF JInv, CandidatesKept
<1>3. budget.candidates \in 0..MaxCandidates
  BY DEF IInv, TypeOK
<1>4. c \in Candidates /\ ~(c > budget.candidates)
  BY <1>2, <1>3, Bounds DEF Candidates
<1> QED
  BY <1>1, <1>4, PlaceIs DEF PlaceInfo

LEMMA PlacesEnd ==
    ASSUME NEW e \in {"added", "dropped", "lost"}, NEW C \in SUBSET Candidates,
           \A c \in C : Place(c) = "waiting" /\ Place(c)' = e,
           \A c \in Candidates \ C : Place(c)' = Place(c)
    PROVE  Life!Next
<1> DEFINE pl == [c \in Candidates |-> Place(c)]
<1>1. C \in SUBSET {c \in Candidates : pl[c] = "waiting"}
  OBVIOUS
<1>2. pl' = [c \in Candidates |-> IF c \in C THEN e ELSE pl[c]]
  OBVIOUS
<1>3. Life!End(e)
  BY <1>1, <1>2 DEF Life!End
<1> QED
  BY <1>3 DEF Life!Next, Life!Ends

LEMMA SentLives == ASSUME IInv, JInv, ServerCandidate PROVE Life!Next
<1> DEFINE b == budget.candidates
<1>1. PICK c \in Candidates : b \in Nat /\ c = b + 1 /\ budget'.candidates = c
  <2>1. b \in Nat /\ b < MaxCandidates /\ MaxCandidates \in Nat
    BY Bounds DEF ServerCandidate, IInv, TypeOK
  <2>2. budget'.candidates = b + 1
    BY DEF ServerCandidate, IInv, TypeOK
  <2> QED
    BY <2>1, <2>2 DEF Candidates
<1>2. Added' = Added /\ dropped' = dropped /\ lost' = lost
  BY DEF ServerCandidate, Arrives, candidateVars, Added
<1>3. c \notin Added \cup dropped \cup lost /\ c > b /\ ~(c > c)
  <2>1. Added \cup dropped \cup lost \subseteq 1..b
    BY DEF JInv, CandidatesKept
  <2> HIDE DEF b
  <2> QED
    BY <2>1, <1>1
<1>4. Place(c) = "unsent"
  BY <1>3, PlaceIs DEF PlaceInfo
<1>5. Place(c)' = "waiting"
  <2>1. c \notin Added' \cup dropped' \cup lost' /\ ~(c > budget'.candidates)
    BY <1>1, <1>2, <1>3
  <2> QED
    BY <2>1, PlaceIs DEF PlaceInfo
<1>6. ASSUME NEW d \in Candidates, d # c PROVE Place(d)' = Place(d)
  <2>1. d > b <=> d > budget'.candidates
    BY <1>1, <1>6 DEF Candidates
  <2> QED
    BY <2>1, <1>2 DEF Place
<1> DEFINE pl == [d \in Candidates |-> Place(d)]
<1>7. pl[c] = "unsent" /\ pl' = [pl EXCEPT ![c] = "waiting"]
  <2>1. \A d \in Candidates : Place(d)' = IF d = c THEN "waiting" ELSE Place(d)
    BY <1>5, <1>6
  <2>2. pl' = [d \in Candidates |-> Place(d)']
    OBVIOUS
  <2>3. pl' = [d \in Candidates |-> IF d = c THEN "waiting" ELSE Place(d)]
    BY <2>1, <2>2
  <2> QED
    BY <2>3, <1>4
<1>8. Life!Send(c)
  BY <1>7 DEF Life!Send
<1> QED
  BY <1>8 DEF Life!Next

LEMMA AddedLives ==
    ASSUME IInv, JInv, NEW C \in SUBSET (Trickles \cup Cached), C \cap Added = {},
           Added' = Added \cup C, dropped' = dropped, lost' = lost, budget' = budget
    PROVE  Life!Next
<1>1. \A c \in C : c \in Candidates /\ Place(c) = "waiting" /\ Place(c)' = "added"
  <2> SUFFICES ASSUME NEW c \in C
               PROVE  c \in Candidates /\ Place(c) = "waiting" /\ Place(c)' = "added"
    OBVIOUS
  <2>1. c \in Candidates /\ Place(c) = "waiting" /\ ~(c > budget.candidates)
    BY StillWaiting
  <2>2. c \in Added' /\ ~(c > budget'.candidates)
    BY <2>1
  <2> QED
    BY <2>1, <2>2, PlaceIs DEF PlaceInfo
<1>2. \A c \in Candidates \ C : Place(c)' = Place(c)
  BY DEF Place
<1> QED
  BY <1>1, <1>2, PlacesEnd

LEMMA DroppedLives == ASSUME IInv, JInv, CleanupRest PROVE Life!Next
<1> DEFINE C == Cached \ Added
<1>1. Added' = Added /\ dropped' = dropped \cup Cached /\ lost' = lost /\ budget' = budget
  BY DEF CleanupRest, Added
<1>2. \A c \in C : c \in Candidates /\ Place(c) = "waiting" /\ Place(c)' = "dropped"
  <2> SUFFICES ASSUME NEW c \in C
               PROVE  c \in Candidates /\ Place(c) = "waiting" /\ Place(c)' = "dropped"
    OBVIOUS
  <2>1. /\ c \in Candidates /\ Place(c) = "waiting" /\ c \notin dropped \cup lost
        /\ ~(c > budget.candidates)
    BY StillWaiting
  <2>2. c \in dropped' /\ c \notin Added' \cup lost' /\ ~(c > budget'.candidates)
    BY <1>1, <2>1
  <2> QED
    BY <2>1, <2>2, PlaceIs DEF PlaceInfo
<1>3. \A c \in Candidates \ C : Place(c)' = Place(c)
  BY <1>1 DEF Place
<1> HIDE DEF C
<1> QED
  BY <1>2, <1>3, PlacesEnd

LEMMA LostLives == ASSUME IInv, JInv, SigFlushed PROVE Life!Next
<1> DEFINE C == Cached \ Added
<1>1. Added' = Added /\ dropped' = dropped /\ lost' = lost \cup C /\ budget' = budget
  BY DEF SigFlushed, Added
<1>2. \A c \in C : c \in Candidates /\ Place(c) = "waiting" /\ Place(c)' = "lost"
  <2> SUFFICES ASSUME NEW c \in C
               PROVE  c \in Candidates /\ Place(c) = "waiting" /\ Place(c)' = "lost"
    OBVIOUS
  <2>1. /\ c \in Candidates /\ Place(c) = "waiting" /\ c \notin dropped \cup lost
        /\ ~(c > budget.candidates)
    BY StillWaiting
  <2>2. c \in lost' /\ c \notin Added' \cup dropped' /\ ~(c > budget'.candidates)
    BY <1>1, <2>1
  <2> QED
    BY <2>1, <2>2, PlaceIs DEF PlaceInfo
<1>3. \A c \in Candidates \ C : Place(c)' = Place(c)
  BY <1>1 DEF Place
<1> HIDE DEF C
<1> QED
  BY <1>2, <1>3, PlacesEnd

LEMMA StepLives ==
    ASSUME IInv, JInv, [Next]_vars
    PROVE  Life!Next \/ UNCHANGED [c \in Candidates |-> Place(c)]
<1> DEFINE Stay == Added' = Added /\ dropped' = dropped /\ lost' = lost
                   /\ budget'.candidates = budget.candidates
<1>1. CASE ServerCandidate
  BY <1>1, SentLives
<1>2. CASE TrickleAdd
  <2> DEFINE c == Head(pcQueue).n
  <2> DEFINE a == [c |-> Head(pcQueue).n, peer |-> pc, by |-> remoteSdp, ok |-> pc \in described]
  <2>1. c \in Trickles
    <3>1. pcQueue \in Seq(PcTasks) /\ pcQueue # <<>> /\ Head(pcQueue).kind = "trickle"
      BY <1>2, Counts DEF TrickleAdd, IInv, StepsInv
    <3> QED
      BY <3>1, NumbersTail DEF Trickles
  <2>2. c \notin Added
    BY <2>1 DEF JInv, TricklesInv
  <2>3. a.c = c /\ added' = added \cup {a}
    BY <1>2 DEF TrickleAdd
  <2>4. dropped' = dropped /\ lost' = lost /\ budget' = budget
    BY <1>2 DEF TrickleAdd
  <2> HIDE DEF a, c
  <2>5. Added' = Added \cup {c}
    BY <2>3 DEF Added
  <2> QED
    BY <2>1, <2>2, <2>4, <2>5, AddedLives
<1>3. CASE SigDescribed
  <2> DEFINE R(c) == [c |-> c, peer |-> pc, by |-> Head(sig).peer, ok |-> pc \in described']
  <2>1. added' = added \cup {R(c) : c \in Cached}
    BY <1>3 DEF SigDescribed
  <2>2. \A c : R(c).c = c
    OBVIOUS
  <2> HIDE DEF R
  <2>3. Added' = Added \cup Cached
    BY <2>1, <2>2 DEF Added
  <2>4. Cached \cap Added = {}
    BY <1>3 DEF SigDescribed, SigTake, JInv, CandidatesKept
  <2>5. dropped' = dropped /\ lost' = lost /\ budget' = budget
    BY <1>3 DEF SigDescribed, SigTake
  <2> QED
    BY <2>3, <2>4, <2>5, AddedLives
<1>4. CASE CleanupRest
  BY <1>4, DroppedLives
<1>5. CASE SigFlushed
  BY <1>5, LostLives
<1>6. CASE Stay
  BY <1>6, PlacesStay
<1>7. CASE PostCleanup \/ \E n \in Negotiations : Begin(n) \/ ServerAnswer(n)
  <2>1. budget'.candidates = budget.candidates
    BY <1>7 DEF PostCleanup, Begin, ServerAnswer, IInv, TypeOK
  <2>2. Stay
    BY <1>7, <2>1 DEF PostCleanup, Begin, ServerAnswer, Arrives, candidateVars, Added
  <2> QED
    BY <2>2, <1>6
<1>8. CASE \/ Prepare \/ LocalTrack \/ HandleRemoteJsep \/ CreateAnswer \/ OfferAnswer
           \/ TrickleLook \/ TrickleCache \/ CleanupPeer
  <2>1. Stay
    BY <1>8 DEF Prepare, LocalTrack, HandleRemoteJsep, CreateAnswer, OfferAnswer, TrickleLook,
                TrickleCache, CleanupPeer, PcTake, candidateVars, Added
  <2> QED
    BY <2>1, <1>6
<1>9. CASE \/ SigCreated \/ SigGathered
           \/ SigFailed("create") \/ SigFailed("remote")
  <2>1. Stay
    BY <1>9 DEF SigCreated, SigGathered, SigFailed, SigTake, candidateVars, Added
  <2> QED
    BY <2>1, <1>6
<1>10. CASE UNCHANGED vars
  <2>1. Stay
    BY <1>10 DEF vars, candidateVars, Added
  <2> QED
    BY <2>1, <1>6
<1> QED
  BY <1>1, <1>2, <1>3, <1>4, <1>5, <1>7, <1>8, <1>9, <1>10 DEF Next, Environment, PcStep, SigStep

\* To the server a candidate lives as CandidateLife says, wherever the client
\* keeps it: PluginClient implements it (plugin_client.cpp:549-553, 1439,
\* 1563-1621).
THEOREM PluginClientImplementsCandidateLife == Spec => CandidatesLive
<1>1. Init => Life!Init
  BY InitiallyLives
<1>2. IInv /\ JInv /\ [Next]_vars
        => [Life!Next]_[c \in Candidates |-> Place(c)]
  BY StepLives
<1> QED
  BY <1>1, <1>2, BothInvariants, PTL DEF Spec, CandidatesLive, Life!Spec
=============================================================================
