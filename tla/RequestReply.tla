---------------------------- MODULE RequestReply ----------------------------
(***************************************************************************)
(* What the transport promises to the signaling client, whatever threads   *)
(* and queues it is built from.  A caller asks under a transaction.  Texts *)
(* from the server and changes of the connection arrive in one order, the  *)
(* inbox.  They are consumed in that order, each at most once, some of     *)
(* them never.  Consuming a reply completes a call that was asked under    *)
(* the transaction of the reply, and a call is completed at most once.     *)
(***************************************************************************)
EXTENDS Integers, Sequences

CONSTANTS Calls,    \* the requests the client will ever make
          NoCall,   \* the "call" of an arrival that replies to none
          MaxTick   \* transactions are 1..MaxTick, 0 is "not asked yet"

VARIABLES
    transaction,  \* [Calls -> 0..MaxTick]
    inbox,        \* the arrivals, in order of arrival
    runs,         \* [Calls -> Nat]: completions of each call
    last          \* index in inbox of the last arrival consumed

vars == <<transaction, inbox, runs, last>>

Notifications == [kind : {"opened", "failed", "closed", "message"}, call : {NoCall}]
Replies       == [kind : {"reply"}, call : Calls]
Arrivals      == Notifications \cup Replies

Init ==
    /\ transaction = [r \in Calls |-> 0]
    /\ inbox = <<>>
    /\ runs = [r \in Calls |-> 0]
    /\ last = 0

Ask(r) ==
    /\ transaction[r] = 0
    /\ \E x \in 1..MaxTick : transaction' = [transaction EXCEPT ![r] = x]
    /\ UNCHANGED <<inbox, runs, last>>

\* The server replies only to what was asked, and once.
Arrive(m) ==
    /\ m.kind = "reply" => /\ transaction[m.call] # 0
                           /\ \A n \in 1..Len(inbox) : inbox[n] # m
    /\ inbox' = Append(inbox, m)
    /\ UNCHANGED <<transaction, runs, last>>

\* Everything between the last arrival consumed and n is skipped for good.
Consume(n) ==
    /\ last < n
    /\ last' = n
    /\ UNCHANGED <<transaction, inbox>>

Complete(r, n) ==
    /\ inbox[n].kind = "reply"
    /\ transaction[inbox[n].call] = transaction[r]
    /\ runs[r] = 0
    /\ runs' = [runs EXCEPT ![r] = 1]
    /\ Consume(n)

Observe(n) ==
    /\ inbox[n].kind # "reply"
    /\ UNCHANGED runs
    /\ Consume(n)

Next ==
    \/ \E r \in Calls : Ask(r)
    \/ \E m \in Arrivals : Arrive(m)
    \/ \E r \in Calls : \E n \in 1..Len(inbox) : Complete(r, n)
    \/ \E n \in 1..Len(inbox) : Observe(n)

Spec == Init /\ [][Next]_vars
=============================================================================
