--------------------------- MODULE KTPConnection ---------------------------
(* One direction of a KTP connection of Assignment 4 Final: the sending    *)
(* side of one socket, the receiving side of its peer, the S and R threads *)
(* of initksocket that move the messages, and the UDP datagrams between    *)
(* them.  The application writes the messages 0, 1, 2, ... of a file       *)
(* (user1.c) and reads whatever the peer's k_recvfrom returns (user2.c).   *)
(*                                                                         *)
(* Every operation of the code runs under the mutex of the socket it       *)
(* touches, so each is one action.  Sequence numbers, window ends, iter    *)
(* and filled are the values the program stores; the variables after them  *)
(* are history: they count without wrapping and no guard of the code's     *)
(* operations reads them.                                                  *)
EXTENDS KTPWindow, Sequences, FiniteSets

CONSTANTS
    FileLength,    \* how many messages user1 has to send
    MayDuplicate   \* whether UDP may deliver a datagram twice

ASSUME ConnectionAssumption ==
    /\ FileLength \in Nat
    /\ MayDuplicate \in BOOLEAN

VARIABLES
    sendBuf, sendIter, sendFilled,         \* send_buffer of the sender
    swndHead, swndTail, swndSize,          \* swnd of the sender
    sent,                                  \* S thread: window_tails of its records
    recvBuf, recvIter, recvFilled,         \* recv_buffer of the receiver
    rwndHead, rwndTail, lastAcked, nospace,\* rwnd, last_acked, nospace
    dataNet, ackNet,                       \* datagrams under way
    hung,                                  \* R thread spins with the mutex held
    accepted, acked, sentUpTo,             \* history: k_sendto calls, swnd.head, swnd.tail
    arrived, delivered                     \* history: rwnd.head, what k_recvfrom returned

sendBufVars == <<sendBuf, sendIter, sendFilled>>
swndVars == <<swndHead, swndTail, swndSize>>
recvBufVars == <<recvBuf, recvIter, recvFilled>>
rwndVars == <<rwndHead, rwndTail, lastAcked, nospace, arrived>>
netVars == <<dataNet, ackNet>>
senderVars == <<sendBufVars, swndVars, sent, accepted, acked, sentUpTo>>
receiverVars == <<recvBufVars, rwndVars, delivered>>
vars == <<senderVars, receiverVars, netVars, hung>>

Free == -1    \* an empty slot (isempty)
Zeros == -2   \* the all-zero message that memset leaves in an empty send slot
Messages == 0 .. (FileLength - 1)

-----------------------------------------------------------------------------
(* Datagrams.  n is history: the message a DATA packet was sent for, or    *)
(* the last position an ACK covers (-1 when it covers none).               *)

\* transmit_segment puts swnd's own sequence number into the header.
createDATApacket(n, seq, data) == [n |-> n, seq |-> seq, data |-> data]

\* Mutant: acknowledges the message after the last one that arrived.
createACKpacketAhead(n, ack, recv_wndw) == [n |-> n, ack |-> SeqSucc(ack), win |-> recv_wndw]

createACKpacket(n, ack, recv_wndw) == [n |-> n, ack |-> ack, win |-> recv_wndw]

\* Mutant of open_packet: the number as it stands in the header.
open_packetAsSent(header) == header

\* The sequence number open_packet hands to the R thread.
open_packet(header) == (header - 1 + SEQNUM) % SEQNUM

\* What transmit_segment copies out of a slot.
Content(slot) == IF sendBuf[slot] = Free THEN Zeros ELSE sendBuf[slot]

(* No datagram outlives a full turn of the sequence numbers: the queue of  *)
(* a UDP socket holds fewer than SEQNUM datagrams, in order.               *)
DataIsFresh(packet) == packet.n - 1 + SEQNUM >= Len(delivered) + MAXMESSAGE
AckIsFresh(packet) == packet.n + SEQNUM >= sentUpTo

\* recvfrom takes the datagram, or one of two copies of it.
TakeData(packet) ==
    dataNet' \in {dataNet \ {packet}} \cup (IF MayDuplicate THEN {dataNet} ELSE {})
AcksLeft(packet) ==
    {ackNet \ {packet}} \cup (IF MayDuplicate THEN {ackNet} ELSE {})

-----------------------------------------------------------------------------
Init ==
    /\ sendBuf = [s \in Slots |-> Free] /\ sendIter = 0 /\ sendFilled = 0
    /\ swndHead = 0 /\ swndTail = 0 /\ swndSize = MAXMESSAGE
    /\ sent = <<>>
    /\ recvBuf = [s \in Slots |-> Free] /\ recvIter = 0 /\ recvFilled = 0
    /\ rwndHead = 0 /\ rwndTail = MAXMESSAGE /\ lastAcked = 0 /\ nospace = FALSE
    /\ dataNet = {} /\ ackNet = {}
    /\ hung = FALSE
    /\ accepted = 0 /\ acked = 0 /\ sentUpTo = 0
    /\ arrived = 0 /\ delivered = <<>>

-----------------------------------------------------------------------------
(* The library calls of the two applications.                              *)

\* Mutant of k_sendto: iter does not wrap.
k_sendtoUnwrapped ==
    /\ ~hung
    /\ accepted < FileLength
    /\ sendFilled # MAXMESSAGE
    /\ sendBuf' = [s \in Slots |-> IF s = sendIter THEN accepted ELSE sendBuf[s]]
    /\ sendIter' = sendIter + 1
    /\ sendFilled' = sendFilled + 1
    /\ accepted' = accepted + 1
    /\ UNCHANGED <<swndVars, sent, acked, sentUpTo, receiverVars, netVars, hung>>

\* user1 writes its next message; with no space k_sendto changes nothing.
k_sendto ==
    /\ ~hung
    /\ accepted < FileLength
    /\ sendFilled # MAXMESSAGE
    /\ sendBuf' = [sendBuf EXCEPT ![sendIter] = accepted]
    /\ sendIter' = (sendIter + 1) % MAXMESSAGE
    /\ sendFilled' = sendFilled + 1
    /\ accepted' = accepted + 1
    /\ UNCHANGED <<swndVars, sent, acked, sentUpTo, receiverVars, netVars, hung>>

\* Mutant of k_recvfrom: an empty slot is read too.
k_recvfromUnchecked ==
    /\ recvFilled # 0
    /\ delivered' = Append(delivered, recvBuf[recvIter])
    /\ recvBuf' = [recvBuf EXCEPT ![recvIter] = Free]
    /\ recvIter' = (recvIter + 1) % MAXMESSAGE
    /\ recvFilled' = recvFilled - 1
    /\ rwndTail' = SeqSucc(rwndTail)
    /\ UNCHANGED <<rwndHead, lastAcked, nospace, arrived, senderVars, netVars, hung>>

\* user2 reads the message at iter; with none there k_recvfrom changes nothing.
k_recvfrom ==
    /\ recvFilled # 0
    /\ recvBuf[recvIter] # Free
    /\ delivered' = Append(delivered, recvBuf[recvIter])
    /\ recvBuf' = [recvBuf EXCEPT ![recvIter] = Free]
    /\ recvIter' = (recvIter + 1) % MAXMESSAGE
    /\ recvFilled' = recvFilled - 1
    /\ rwndTail' = SeqSucc(rwndTail)
    /\ UNCHANGED <<rwndHead, lastAcked, nospace, arrived, senderVars, netVars, hung>>

-----------------------------------------------------------------------------
(* The S thread: every T/2 seconds, with the socket's mutex held.          *)

LastSent == SeqPred(sent[1])

\* Mutants of check_retransmission: an acknowledged record takes the newer one
\* with it; nothing is ever sent again.
check_retransmissionForgets(elapsed) ==
    IF sent = <<>> \/ ~inwndw(LastSent, swndHead, swndTail)
    THEN [sent |-> <<>>, again |-> FALSE]
    ELSE [sent |-> sent, again |-> elapsed]
check_retransmissionNever(elapsed) ==
    [sent |-> IF sent # <<>> /\ ~inwndw(LastSent, swndHead, swndTail)
              THEN Tail(sent) ELSE sent,
     again |-> FALSE]

(* check_retransmission: the records it leaves, and whether it asks for a  *)
(* retransmission.  elapsed says whether T seconds passed since record 1.  *)
check_retransmission(elapsed) ==
    IF sent = <<>>
    THEN [sent |-> <<>>, again |-> FALSE]
    ELSE IF ~inwndw(LastSent, swndHead, swndTail)
         THEN [sent |-> Tail(sent), again |-> FALSE]
         ELSE IF elapsed
              THEN [sent |-> <<sent[Len(sent)]>>, again |-> TRUE]
              ELSE [sent |-> sent, again |-> FALSE]

\* Mutants of CanJoin: one more than the receiver allows; empty slots too.
CanJoinOneMore(i) ==
    LET seq == (swndTail + i) % SEQNUM
    IN sendBuf[BufferIndex(seq)] # Free /\ wndwsize(swndHead, seq) <= swndSize
CanJoinEmpty(i) == wndwsize(swndHead, (swndTail + i) % SEQNUM) < swndSize

\* May the i-th sequence number after swnd.tail join the window?
CanJoin(i) ==
    LET seq == (swndTail + i) % SEQNUM
    IN /\ sendBuf[BufferIndex(seq)] # Free
       /\ wndwsize(swndHead, seq) < swndSize

\* How many sequence numbers the loop over new data adds to the window.
Joining(k) ==
    /\ k \in 0 .. MAXMESSAGE
    /\ \A i \in 0 .. (k - 1) : CanJoin(i)
    /\ ~CanJoin(k)

\* The packets of transmit_segment(begin, swnd.tail), k messages past the old tail.
Segment(begin, k) ==
    LET tail == (swndTail + k) % SEQNUM
        length == wndwsize(begin, tail)
    IN {LET seq == (begin + i) % SEQNUM
        IN createDATApacket(sentUpTo + k - length + i, seq, Content(BufferIndex(seq)))
            : i \in 0 .. (length - 1)}

SThread(elapsed) ==
    /\ ~hung
    /\ \E k \in 0 .. MAXMESSAGE :
        LET records == check_retransmission(elapsed)
            tail == (swndTail + k) % SEQNUM
        IN /\ Joining(k)
           /\ swndTail' = tail
           /\ sentUpTo' = sentUpTo + k
           /\ \/ /\ k = 0 /\ ~records.again
                 /\ sent' = records.sent
                 /\ UNCHANGED dataNet
              \/ /\ records.again \/ (k > 0 /\ records.sent = <<>>)
                 /\ sent' = <<tail>>
                 /\ dataNet' = dataNet \cup Segment(swndHead, k)
              \/ /\ k > 0 /\ ~records.again /\ records.sent # <<>>
                 /\ sent' = <<records.sent[1], tail>>
                 /\ dataNet' = dataNet \cup Segment(records.sent[1], k)
    /\ UNCHANGED <<sendBufVars, swndHead, swndSize, accepted, acked,
                   receiverVars, ackNet, hung>>

-----------------------------------------------------------------------------
(* The R thread on a DATA packet at the receiver.                          *)

\* Is the j-th position after rwnd.head in the window and filled in buf?
Contiguous(buf, j) ==
    LET seq == (rwndHead + j) % SEQNUM
    IN inwndw(seq, rwndHead, rwndTail) /\ buf[BufferIndex(seq)] # Free

\* How far the cumulative ACK reaches past rwnd.head.
Advance(buf, k) ==
    /\ k \in 0 .. SEQNUM
    /\ \A j \in 0 .. (k - 1) : Contiguous(buf, j)
    /\ ~Contiguous(buf, k)

TakesData(packet) == ~hung /\ packet \in dataNet /\ DataIsFresh(packet) /\ TakeData(packet)

InReceiveWindow(packet) == inwndw(open_packet(packet.seq), rwndHead, rwndTail)
ReceiveWindow == wndwsize(rwndHead, rwndTail)

\* In the window, and its slot taken: only nospace is reset.
DuplicateInWindow(packet) ==
    /\ TakesData(packet)
    /\ InReceiveWindow(packet)
    /\ recvBuf[BufferIndex(open_packet(packet.seq))] # Free
    /\ nospace' = FALSE
    /\ UNCHANGED <<recvBufVars, rwndHead, rwndTail, lastAcked, arrived, delivered,
                   senderVars, ackNet, hung>>

\* Mutant of Fits: the window is not asked.
FitsAnywhere(packet) == recvBuf[BufferIndex(open_packet(packet.seq))] = Free

\* The slot of the packet's message is empty: it will be stored there.
Fits(packet) ==
    InReceiveWindow(packet) /\ recvBuf[BufferIndex(open_packet(packet.seq))] = Free
Stored(packet) == [recvBuf EXCEPT ![BufferIndex(open_packet(packet.seq))] = packet.data]

\* Mutant of StoreOutOfOrder: filled is not counted up.
StoreOutOfOrderUncounted(packet) ==
    /\ TakesData(packet)
    /\ Fits(packet)
    /\ open_packet(packet.seq) # rwndHead
    /\ recvBuf' = Stored(packet)
    /\ nospace' = FALSE
    /\ UNCHANGED <<recvFilled, recvIter, rwndHead, rwndTail, lastAcked, arrived, delivered,
                   senderVars, ackNet, hung>>

\* In the window but not the next one: stored, not acknowledged.
StoreOutOfOrder(packet) ==
    /\ TakesData(packet)
    /\ Fits(packet)
    /\ open_packet(packet.seq) # rwndHead
    /\ recvBuf' = Stored(packet)
    /\ recvFilled' = recvFilled + 1
    /\ nospace' = FALSE
    /\ UNCHANGED <<recvIter, rwndHead, rwndTail, lastAcked, arrived, delivered,
                   senderVars, ackNet, hung>>

\* Mutant of StoreInOrder: a window that closes is not remembered.
StoreInOrderForgets(packet) ==
    /\ TakesData(packet)
    /\ Fits(packet)
    /\ open_packet(packet.seq) = rwndHead
    /\ recvBuf' = Stored(packet)
    /\ recvFilled' = recvFilled + 1
    /\ nospace' = FALSE
    /\ \E k \in 0 .. SEQNUM :
         LET head == (rwndHead + k) % SEQNUM
         IN /\ Advance(Stored(packet), k)
            /\ rwndHead' = head
            /\ arrived' = arrived + k
            /\ lastAcked' = SeqPred(head)
            /\ ackNet' = ackNet \cup
                 {createACKpacket(arrived + k - 1, SeqPred(head), wndwsize(head, rwndTail))}
    /\ UNCHANGED <<recvIter, rwndTail, delivered, senderVars, hung>>

\* The next one: stored, the window's head moves on, cumulative ACK.
StoreInOrder(packet) ==
    /\ TakesData(packet)
    /\ Fits(packet)
    /\ open_packet(packet.seq) = rwndHead
    /\ recvBuf' = Stored(packet)
    /\ recvFilled' = recvFilled + 1
    /\ \E k \in 0 .. SEQNUM :
         LET head == (rwndHead + k) % SEQNUM
             size == wndwsize(head, rwndTail)
         IN /\ Advance(Stored(packet), k)
            /\ rwndHead' = head
            /\ arrived' = arrived + k
            /\ lastAcked' = SeqPred(head)
            /\ nospace' = (size = 0)
            /\ ackNet' = ackNet \cup
                 {createACKpacket(arrived + k - 1, SeqPred(head), size)}
    /\ UNCHANGED <<recvIter, rwndTail, delivered, senderVars, hung>>

\* Nothing fits: the last ACK again, with a zero window.
RefuseOnZeroWindow(packet) ==
    /\ TakesData(packet)
    /\ ~InReceiveWindow(packet)
    /\ ReceiveWindow = 0
    /\ nospace' = TRUE
    /\ ackNet' = ackNet \cup {createACKpacket(arrived - 1, lastAcked, 0)}
    /\ UNCHANGED <<recvBufVars, rwndHead, rwndTail, lastAcked, arrived, delivered,
                   senderVars, hung>>

\* The message just before the window: it is acknowledged once more.
AckAgain(packet) ==
    LET seq == open_packet(packet.seq)
    IN /\ TakesData(packet)
       /\ ~InReceiveWindow(packet)
       /\ ReceiveWindow # 0
       /\ SeqSucc(seq) = rwndHead
       /\ ackNet' = ackNet \cup {createACKpacket(arrived - 1, seq, ReceiveWindow)}
       /\ UNCHANGED <<receiverVars, senderVars, hung>>

\* An older message: ignored.
IgnoreData(packet) ==
    /\ TakesData(packet)
    /\ ~InReceiveWindow(packet)
    /\ ReceiveWindow # 0
    /\ SeqSucc(open_packet(packet.seq)) # rwndHead
    /\ UNCHANGED <<receiverVars, senderVars, ackNet, hung>>

\* drop_message: the packet is received and thrown away.
DropData(packet) ==
    /\ ~hung
    /\ packet \in dataNet
    /\ dataNet' = dataNet \ {packet}
    /\ UNCHANGED <<receiverVars, senderVars, ackNet, hung>>

HandleData(packet) ==
    \/ DuplicateInWindow(packet) \/ StoreOutOfOrder(packet) \/ StoreInOrder(packet)
    \/ RefuseOnZeroWindow(packet) \/ AckAgain(packet) \/ IgnoreData(packet)

\* While nospace is set the R thread repeats the last ACK with the open window.
WindowUpdate ==
    /\ ~hung
    /\ nospace
    /\ ReceiveWindow > 0
    /\ ackNet' = ackNet \cup {createACKpacket(arrived - 1, lastAcked, ReceiveWindow)}
    /\ UNCHANGED <<receiverVars, senderVars, dataNet, hung>>

-----------------------------------------------------------------------------
(* The R thread on an ACK packet at the sender.                            *)

TakesAck(packet) == 
    /\ ~hung /\ packet \in ackNet /\ AckIsFresh(packet)
    /\ ackNet' \in AcksLeft(packet)

\* Mutant of AckOutside: any ACK outside the window changes the size.
AckOutsideResizes(packet) ==
    /\ TakesAck(packet)
    /\ ~inwndw(packet.ack, swndHead, swndTail)
    /\ swndSize' = packet.win
    /\ UNCHANGED <<sendBufVars, swndHead, swndTail, sent, accepted, acked, sentUpTo,
                   receiverVars, dataNet, hung>>

\* Outside swnd it can only change the size, and only of an empty window.
AckOutside(packet) ==
    /\ TakesAck(packet)
    /\ ~inwndw(packet.ack, swndHead, swndTail)
    /\ swndSize' = IF wndwsize(swndHead, swndTail) = 0 /\ packet.ack = SeqPred(swndTail)
                   THEN packet.win ELSE swndSize
    /\ UNCHANGED <<sendBufVars, swndHead, swndTail, sent, accepted, acked, sentUpTo,
                   receiverVars, dataNet, hung>>

\* The slot of the i-th sequence number from swnd.head on.
HeadSlot(i) == BufferIndex((swndHead + i) % SEQNUM)

\* Does the loop find this slot empty, or emptied by an earlier round of its own?
Stuck(i) == sendBuf[HeadSlot(i)] = Free \/ \E j \in 0 .. (i - 1) : HeadSlot(j) = HeadSlot(i)

(* Inside swnd: free the slots up to the acknowledged one, then take the   *)
(* window size.  At an empty slot the loop spins for ever with the mutex.  *)
AckInside(packet) ==
    LET length == wndwsize(swndHead, SeqSucc(packet.ack))
    IN /\ TakesAck(packet)
       /\ inwndw(packet.ack, swndHead, swndTail)
       /\ \E g \in 0 .. SEQNUM :
            /\ g <= length
            /\ \A i \in 0 .. (g - 1) : ~Stuck(i)
            /\ g = length \/ Stuck(g)
            /\ sendBuf' = [s \in Slots |->
                  IF \E i \in 0 .. (g - 1) : HeadSlot(i) = s THEN Free ELSE sendBuf[s]]
            /\ sendFilled' = sendFilled - g
            /\ swndHead' = (swndHead + g) % SEQNUM
            /\ acked' = acked + g
            /\ swndSize' = IF g = length THEN packet.win ELSE swndSize
            /\ hung' = (g # length)
       /\ UNCHANGED <<sendIter, swndTail, sent, accepted, sentUpTo, receiverVars, dataNet>>

DropAck(packet) ==
    /\ ~hung
    /\ packet \in ackNet
    /\ ackNet' = ackNet \ {packet}
    /\ UNCHANGED <<receiverVars, senderVars, dataNet, hung>>

HandleAck(packet) == AckOutside(packet) \/ AckInside(packet)

-----------------------------------------------------------------------------
Next ==
    \/ k_sendto
    \/ k_recvfrom
    \/ \E elapsed \in BOOLEAN : SThread(elapsed)
    \/ \E packet \in dataNet : HandleData(packet) \/ DropData(packet)
    \/ \E packet \in ackNet : HandleAck(packet) \/ DropAck(packet)
    \/ WindowUpdate

Spec == Init /\ [][Next]_vars

-----------------------------------------------------------------------------
(* Properties.                                                             *)

\* The variables hold values of their C types (type invariant).
TypeOK ==
    /\ sendBuf \in [Slots -> {Free} \cup Nat] /\ sendIter \in Slots
    /\ sendFilled \in 0 .. MAXMESSAGE
    /\ swndHead \in SeqNumbers /\ swndTail \in SeqNumbers /\ swndSize \in 0 .. MAXMESSAGE
    /\ sent \in Seq(SeqNumbers) /\ Len(sent) <= 2
    /\ recvBuf \in [Slots -> {Free, Zeros} \cup Nat] /\ recvIter \in Slots
    /\ recvFilled \in Nat
    /\ rwndHead \in SeqNumbers /\ rwndTail \in SeqNumbers /\ lastAcked \in SeqNumbers
    /\ nospace \in BOOLEAN /\ hung \in BOOLEAN
    /\ dataNet \subseteq [n : Nat, seq : SeqNumbers, data : {Zeros} \cup Nat]
    /\ ackNet \subseteq [n : {-1} \cup Nat, ack : SeqNumbers, win : 0 .. MAXMESSAGE]
    /\ accepted \in 0 .. FileLength /\ acked \in Nat /\ sentUpTo \in Nat /\ arrived \in Nat
    /\ delivered \in Seq({Zeros} \cup Nat)

NonEmpty(buf) == {s \in Slots : buf[s] # Free}

(* The messages after the first reach the reader in the order they were    *)
(* accepted, none skipped and none twice, whatever the network loses,      *)
(* repeats or reorders (handle_socket_data, k_recvfrom).                   *)
InOrderAfterFirst == \A i \in 1 .. Len(delivered) : delivered[i] = i

(* swnd.head passes a message only when the receiver has moved rwnd.head   *)
(* past it, so no slot is freed by the ACK loop while its message can      *)
(* still be needed; and the message left at swnd.head has arrived too.     *)
FreedOnlyWhenArrived == acked <= arrived /\ (arrived = 0 \/ arrived < sentUpTo)

(* filled, the counter that k_sendto and k_recvfrom refuse on, is the      *)
(* number of slots whose isempty is 0, on both sides.                      *)
FilledCountsSlots ==
    /\ sendFilled = Cardinality(NonEmpty(sendBuf))
    /\ recvFilled = Cardinality(NonEmpty(recvBuf))

(* The S thread always has a record that reaches to swnd.tail while        *)
(* something is unacknowledged: no transmitted message is ever left out of *)
(* the retransmissions (check_retransmission and SThread's bookkeeping).   *)
OutstandingIsRecorded ==
    IF sent = <<>> THEN swndHead = swndTail ELSE sent[Len(sent)] = swndTail

(* A message is only ever transmitted when the receiver has a free slot    *)
(* kept for it: what the sender put into swnd, and what it still may, fits *)
(* between the reader's position and MAXMESSAGE slots further.             *)
FlowControl ==
    /\ sentUpTo <= Len(delivered) + MAXMESSAGE
    /\ acked + swndSize <= Len(delivered) + MAXMESSAGE

(* The receive window never closes: with the sequence number one lower in  *)
(* the R thread than on the wire, the sender always stops one message      *)
(* short of it, so nospace and the zero-window ACKs are never used.        *)
WindowNeverCloses == rwndHead # rwndTail /\ ~nospace

(* When the receive window is closed, nospace is set: the R thread will    *)
(* tell the sender as soon as the reader makes room.  (Once the slots      *)
(* disagree, the reader can overtake rwnd.head, and the window then closes *)
(* in k_recvfrom, where nobody takes note of it.)                          *)
ClosedWindowIsRemembered ==
    rwndHead = rwndTail /\ Len(delivered) <= arrived => nospace

(* The R thread never meets an empty slot below an acknowledged number, so *)
(* the while (1) of the ACK handler ends and the mutex is released.        *)
AckLoopEnds == ~hung

(* The right edge of swnd, the last message the receiver allows, is never  *)
(* taken back, however ACKs with different window sizes are reordered.     *)
WindowEdgeNeverRetracts == [][acked' + swndSize' >= acked + swndSize]_vars

-----------------------------------------------------------------------------
(* Fairness.  The S thread's loop and user2's loop go on for ever, T       *)
(* seconds pass, and a DATA packet that is sent again and again is in the  *)
(* end handled (the drop probability is below 1).                          *)
DataFairness ==
    /\ WF_vars(SThread(TRUE))
    /\ WF_vars(k_recvfrom)
    /\ \A n \in Messages :
          SF_vars(\E packet \in dataNet : packet.n = n /\ HandleData(packet))

(* The same for user1's loop, for the R thread's updates and for the ACKs. *)
AckFairness ==
    /\ WF_vars(k_sendto)
    /\ WF_vars(WindowUpdate)
    /\ \A n \in {-1} \cup Messages :
          SF_vars(\E packet \in ackNet : packet.n = n /\ HandleAck(packet))

FairSpec == Spec /\ DataFairness
FullyFairSpec == FairSpec /\ AckFairness

(* Whatever the S thread put into the window, but for message 0, reaches   *)
(* the reader in the end: the retransmissions do not stop before that.     *)
TransmittedIsDelivered ==
    \A n \in Messages \ {0} : (sentUpTo > n) ~> (Len(delivered) >= n)

-----------------------------------------------------------------------------
(* The promise of the connection, as an abstract channel (KTPStream): what *)
(* k_sendto accepts comes out of k_recvfrom in order, from message 1 on.   *)
Stream == INSTANCE KTPStream WITH Capacity <- 2 * MAXMESSAGE - 1

(* Every step of the protocol is a step of the channel or leaves it alone. *)
ImplementsStream == Stream!Spec

-----------------------------------------------------------------------------
(* Why the protocol works, as long as it does: the inductive invariant.    *)

(* The slot the threads compute from a sequence number is the one iter     *)
(* reaches for the same message.  It holds when MAXMESSAGE divides SEQNUM, *)
(* and for files of fewer than SEQNUM messages; with 10 and 256 it fails   *)
(* from message 256 on.                                                    *)
SlotsAgree == \A n \in 0 .. FileLength : BufferIndex(Wire(n)) = Slot(n)

Read == Len(delivered)

\* The wrapped numbers stand for the history counters.
PositionsInv ==
    /\ swndHead = Wire(acked) /\ swndTail = Wire(sentUpTo)
    /\ rwndHead = Wire(arrived) /\ rwndTail = Wire(Read + MAXMESSAGE)
    /\ sendIter = Slot(accepted) /\ recvIter = Slot(Read)
    /\ sendFilled = accepted - acked

\* The order of the positions, and the room each side leaves.
OrderInv ==
    /\ acked <= arrived /\ acked <= sentUpTo /\ sentUpTo <= accepted
    /\ accepted <= acked + MAXMESSAGE
    /\ Read <= arrived
    /\ arrived = 0 \/ arrived < sentUpTo
    /\ sentUpTo <= Read + MAXMESSAGE
    /\ acked + swndSize <= Read + MAXMESSAGE

\* The send buffer holds the messages acked .. accepted-1, each in its slot.
SendBufInv ==
    /\ \A n \in acked .. (accepted - 1) : sendBuf[Slot(n)] = n
    /\ \A s \in Slots : sendBuf[s] # Free =>
          sendBuf[s] \in acked .. (accepted - 1) /\ Slot(sendBuf[s]) = s

\* The receive buffer holds message n+1 in the slot of n, all of Read .. arrived-1,
\* never the one for arrived, and nothing that was not sent.
RecvBufInv ==
    /\ \A n \in Read .. (arrived - 1) : recvBuf[Slot(n)] = n + 1
    /\ \A s \in Slots : recvBuf[s] # Free =>
          /\ recvBuf[s] \in (Read + 1) .. (sentUpTo - 1)
          /\ recvBuf[s] # arrived + 1
          /\ Slot(recvBuf[s] - 1) = s

\* The records of the S thread reach to swnd.tail and not further back than a buffer.
RecordsInv ==
    /\ OutstandingIsRecorded
    /\ sent # <<>> => \E u \in 0 .. sentUpTo : sent[1] = Wire(u) /\ sentUpTo <= u + MAXMESSAGE

\* Every datagram carries its own message, and no ACK is ahead of the receiver.
NetInv ==
    /\ \A packet \in dataNet :
          /\ packet.n < sentUpTo
          /\ packet.seq = Wire(packet.n)
          /\ packet.data = packet.n
    /\ \A packet \in ackNet :
          /\ packet.n < arrived
          /\ packet.ack = Wire(packet.n)
          /\ packet.n + 1 + packet.win <= Read + MAXMESSAGE

\* The last position an ACK allows the sender to reach.
Edge(packet) == packet.n + 1 + packet.win

\* A later position is never acknowledged with an earlier edge, and an ACK that
\* can still move swnd.head does not move its edge back.
EdgeInv ==
    /\ sentUpTo = 0 => ackNet = {}
    /\ \A p, q \in ackNet : p.n < q.n => Edge(p) <= Edge(q)
    /\ \A p \in ackNet : acked <= p.n => acked + swndSize <= Edge(p)

\* The inductive invariant of the handlers: everything but the edges.
Inv ==
    /\ TypeOK /\ PositionsInv /\ OrderInv /\ SendBufInv /\ RecvBufInv
    /\ RecordsInv /\ NetInv
    /\ InOrderAfterFirst /\ ~nospace /\ ~hung

(* The inductive invariant: the wrapped numbers and the slots of both      *)
(* buffers (k_sendto, k_recvfrom, SThread, handle_socket_data) always      *)
(* stand for one range of messages, and no datagram under way contradicts  *)
(* it or takes back what an earlier one allowed.                           *)
IInv == Inv /\ EdgeInv

\* What the sender keeps also when the slots disagree.
LapSender ==
    /\ sendBuf \in [Slots -> {Free} \cup Nat] /\ accepted \in Nat
    /\ swndHead \in SeqNumbers /\ swndTail \in SeqNumbers
    /\ sent \in Seq(SeqNumbers) /\ Len(sent) <= 2
    /\ OutstandingIsRecorded

\* What the receiver keeps: the ends of its window and the counter of its buffer
\* are right, it never takes more than fits in front of the reader, and when it
\* has taken all that fits, nospace is set.
LapReceiver ==
    /\ recvBuf \in [Slots -> {Free, Zeros} \cup Nat] /\ recvIter \in Slots
    /\ arrived \in Nat /\ delivered \in Seq({Zeros} \cup Nat)
    /\ rwndHead = Wire(arrived) /\ rwndTail = Wire(Read + MAXMESSAGE)
    /\ recvFilled = Cardinality(NonEmpty(recvBuf))
    /\ arrived <= Read + MAXMESSAGE
    /\ arrived = Read + MAXMESSAGE => nospace

LapData == \A packet \in dataNet : packet.seq \in SeqNumbers /\ packet.data \in {Zeros} \cup Nat

(* The inductive invariant without SlotsAgree: for every file, past any    *)
(* number of laps of the sequence numbers.                                 *)
LapInv == LapSender /\ LapReceiver /\ LapData

-----------------------------------------------------------------------------
(* What the assignment and the comments promise, and the code does not     *)
(* keep (see the README and the runs that violate these).                  *)

(* "any message sent using a KTP socket is always delivered to the         *)
(* receiver in order": what is accepted, but for the first message, is     *)
(* delivered in the end.                                                   *)
AcceptedIsDelivered ==
    \A n \in Messages \ {0} : (accepted > n) ~> (Len(delivered) >= n)
=============================================================================
