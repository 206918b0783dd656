----------------------------- MODULE KTPWindow -----------------------------
(* The arithmetic of KTP's sequence numbers and windows (Assignment 4      *)
(* Final).  A sequence number lives in 0 .. SEQNUM-1 and wraps around; a   *)
(* window is the half-open interval from its head to its tail on that      *)
(* circle; and every sequence number is stored in one of MAXMESSAGE buffer *)
(* slots.                                                                  *)
EXTENDS Integers

CONSTANTS
    SEQNUM,      \* how many sequence numbers there are (256 in ksocket.h)
    MAXMESSAGE   \* slots of a send or receive buffer (10 in ksocket.h)

ASSUME WindowAssumption ==
    /\ SEQNUM \in Nat \ {0}
    /\ MAXMESSAGE \in Nat \ {0}
    /\ MAXMESSAGE < SEQNUM

SeqNumbers == 0 .. (SEQNUM - 1)
Slots == 0 .. (MAXMESSAGE - 1)

\* The sequence number of the n-th message of a stream, counted from 0.
Wire(n) == n % SEQNUM

\* The slot where position n of a buffer's own circular order lives (iter).
Slot(n) == n % MAXMESSAGE

SeqSucc(seq) == (seq + 1) % SEQNUM
SeqPred(seq) == (seq - 1 + SEQNUM) % SEQNUM

\* The slot the protocol threads use for a sequence number.
BufferIndex(seq) == seq % MAXMESSAGE

\* Mutant of inwndw: the tail counts as part of the window.
inwndwClosed(seq, head, tail) ==
    /\ seq \in SeqNumbers
    /\ head # tail
    /\ \/ head < tail /\ head <= seq /\ seq <= tail
       \/ head > tail /\ (head <= seq \/ seq <= tail)

\* Is seq in the window [head, tail)?  Equal ends are the empty window.
inwndw(seq, head, tail) ==
    /\ seq \in SeqNumbers
    /\ head # tail
    /\ \/ head < tail /\ head <= seq /\ seq < tail
       \/ head > tail /\ (head <= seq \/ seq < tail)

\* Mutant of wndwsize: SEQNUM is forgotten.
wndwsizeUnwrapped(head, tail) == tail - head

\* How many sequence numbers the window [head, tail) holds.
wndwsize(head, tail) == IF tail < head THEN tail - head + SEQNUM ELSE tail - head
=============================================================================
