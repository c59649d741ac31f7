------------------------------ MODULE Delivery ------------------------------
(***************************************************************************)
(* What the outbox promises, without claims, jobs or clocks.               *)
(*                                                                         *)
(* A message is submitted, released for delivery (at once, or later by an  *)
(* approval) and handed to the mail provider.  The provider may accept it  *)
(* once.  Every further acceptance has to be paid for by an excuse: an     *)
(* event after which the sender cannot know that the message went out, or  *)
(* an approval of a message that was already being sent.                   *)
(***************************************************************************)
EXTENDS Naturals

CONSTANT Rows      \* the messages (rows of the table outbox)

VARIABLES
    submitted,     \* messages that were stored
    released,      \* messages a sender may touch: direct sends and approved ones
    delivered,     \* how often the provider accepted each message
    excuses        \* how often a repeated delivery became legitimate

dvars == <<submitted, released, delivered, excuses>>

Init ==
    /\ submitted = {}
    /\ released = {}
    /\ delivered = [r \in Rows |-> 0]
    /\ excuses = [r \in Rows |-> 0]

Submit(r) ==
    /\ r \notin submitted
    /\ submitted' = submitted \cup {r}
    /\ released' \in {released, released \cup {r}}
    /\ UNCHANGED <<delivered, excuses>>

Approve(r) ==
    /\ r \in submitted
    /\ released' = released \cup {r}
    /\ excuses' \in {excuses, [excuses EXCEPT ![r] = @ + 1]}
    /\ UNCHANGED <<submitted, delivered>>

Deliver(r) ==
    /\ r \in released
    /\ delivered[r] <= excuses[r]
    /\ delivered' = [delivered EXCEPT ![r] = @ + 1]
    /\ UNCHANGED <<submitted, released, excuses>>

LoseTrack(r) ==
    /\ delivered[r] > 0
    /\ excuses' = [excuses EXCEPT ![r] = @ + 1]
    /\ UNCHANGED <<submitted, released, delivered>>

Next == \E r \in Rows : Submit(r) \/ Approve(r) \/ Deliver(r) \/ LoseTrack(r)

Spec == Init /\ [][Next]_dvars
=============================================================================
