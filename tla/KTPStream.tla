----------------------------- MODULE KTPStream -----------------------------
(* What one direction of a KTP connection promises its applications, and   *)
(* no more than the code keeps: a bounded first-in first-out channel that  *)
(* loses its first message.                                                *)
EXTENDS Integers, Sequences

CONSTANTS
    FileLength,   \* how many messages the writer has
    Capacity      \* accepted messages the channel can be behind with

VARIABLES
    accepted,     \* how many messages the writer has handed over
    delivered     \* what the reader got

Init == accepted = 0 /\ delivered = <<>>

\* k_sendto succeeds.
Accept ==
    /\ accepted < FileLength
    /\ accepted < Len(delivered) + Capacity
    /\ accepted' = accepted + 1
    /\ UNCHANGED delivered

\* k_recvfrom succeeds: message 1 first, then 2, and so on.
Deliver ==
    /\ Len(delivered) + 1 < accepted
    /\ delivered' = Append(delivered, Len(delivered) + 1)
    /\ UNCHANGED accepted

Next == Accept \/ Deliver

Spec == Init /\ [][Next]_<<accepted, delivered>>
=============================================================================
