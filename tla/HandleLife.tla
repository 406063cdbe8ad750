----------------------------- MODULE HandleLife -----------------------------
(***************************************************************************)
(* What the signaling client promises a plugin client about each handle:   *)
(* it is told once that the handle is attached, is given the handle's      *)
(* events only after that, one at a time, and none that was not already on *)
(* its way into the client when the detach was answered.                   *)
(***************************************************************************)
EXTENDS Naturals

CONSTANT Handles  \* the handles the server will ever give out, from 1

VARIABLES
    told,   \* [Handles -> BOOLEAN]: onAttached(true) was called
    giving, \* the handle whose event is being given to the client, 0 if none
    heard,  \* [Handles -> Nat]: events that the plugin client got
    erased  \* [Handles -> BOOLEAN]: the detach was answered

vars == <<told, giving, heard, erased>>

Init ==
    /\ told = [h \in Handles |-> FALSE]
    /\ giving = 0
    /\ heard = [h \in Handles |-> 0]
    /\ erased = [h \in Handles |-> FALSE]

Tell(h) ==
    /\ giving = 0
    /\ ~told[h]
    /\ told' = [told EXCEPT ![h] = TRUE]
    /\ UNCHANGED <<giving, heard, erased>>

\* Whoever gives the event has the client in hand from here on.
Give(h) ==
    /\ giving = 0
    /\ told[h]
    /\ ~erased[h]
    /\ giving' = h
    /\ UNCHANGED <<told, heard, erased>>

Hear(h) ==
    /\ giving = h
    /\ giving' = 0
    /\ heard' = [heard EXCEPT ![h] = @ + 1]
    /\ UNCHANGED <<told, erased>>

Erase(h) ==
    /\ erased' = [erased EXCEPT ![h] = TRUE]
    /\ UNCHANGED <<told, giving, heard>>

Next == \E h \in Handles : Tell(h) \/ Give(h) \/ Hear(h) \/ Erase(h)

Spec == Init /\ [][Next]_vars
=============================================================================
