--------------------------- MODULE CandidateLife ---------------------------
(***************************************************************************)
(* The life of a remote candidate, whatever threads it passes: the server  *)
(* sends it, it waits, and it comes to one end, which is for good.  It is  *)
(* given to a PeerConnection, or dropped by a clean-up, or lost.           *)
(***************************************************************************)
CONSTANT Candidates

VARIABLE place  \* [Candidates -> where each one is]

Ends == {"added", "dropped", "lost"}

Init == place = [c \in Candidates |-> "unsent"]

Send(c) == place[c] = "unsent" /\ place' = [place EXCEPT ![c] = "waiting"]

\* All that wait may come to their end together, or go on waiting.
End(e) ==
    \E C \in SUBSET {c \in Candidates : place[c] = "waiting"} :
        place' = [c \in Candidates |-> IF c \in C THEN e ELSE place[c]]

Next == \/ \E c \in Candidates : Send(c)
        \/ \E e \in Ends : End(e)

Spec == Init /\ [][Next]_place
=============================================================================
