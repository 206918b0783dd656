------------------------ MODULE KTPConnectionProofs ------------------------
(* For every SEQNUM, MAXMESSAGE and FileLength for which the two ways of   *)
(* computing a slot agree (SlotsAgree), Inv is an invariant of the         *)
(* connection; the safety properties and the implementation of KTPStream   *)
(* follow from it.  LapInv is an invariant whether or not they agree: the  *)
(* properties of the S thread's records, of the receive buffer's counter   *)
(* and of closed windows follow from it for every file.                    *)
EXTENDS KTPConnection, KTPWindowProofs, SequenceTheorems, FiniteSetTheorems

\* What arithmetic needs to know of the constants and of the state.
Sizes ==
    /\ SEQNUM \in Nat /\ MAXMESSAGE \in Nat /\ 0 < MAXMESSAGE /\ MAXMESSAGE < SEQNUM
    /\ FileLength \in Nat
    /\ acked \in Nat /\ sentUpTo \in Nat /\ arrived \in Nat
    /\ accepted \in Nat /\ accepted <= FileLength
    /\ Read \in Nat
    /\ swndSize \in Nat /\ swndSize <= MAXMESSAGE
    /\ OrderInv

LEMMA Numbers == ASSUME Inv PROVE Sizes
BY WindowAssumption, ConnectionAssumption DEF Inv, TypeOK, Read, Sizes

LEMMA InitInv == Init => Inv
<1> SUFFICES ASSUME Init PROVE Inv OBVIOUS
<1> USE WindowAssumption, ConnectionAssumption
<1>1. Wire(0) = 0 /\ Slot(0) = 0 /\ Wire(MAXMESSAGE) = MAXMESSAGE
  <2>1. Wire(0) \in SeqNumbers /\ Slot(0) \in Slots BY WireFacts, SlotFacts
  <2>2. (SEQNUM * 0 + 0) % SEQNUM = 0 BY Remainder
  <2>3. (MAXMESSAGE * 0 + 0) % MAXMESSAGE = 0 BY Remainder
  <2>4. (SEQNUM * 0 + MAXMESSAGE) % SEQNUM = MAXMESSAGE BY Remainder
  <2> QED BY <2>2, <2>3, <2>4 DEF Wire, Slot
<1>2. TypeOK BY DEF Init, TypeOK, Slots, SeqNumbers
<1>3. PositionsInv BY <1>1 DEF Init, PositionsInv, Read
<1>4. OrderInv BY DEF Init, OrderInv, Read
<1>5. SendBufInv /\ RecvBufInv BY DEF Init, SendBufInv, RecvBufInv, Read
<1>6. RecordsInv /\ NetInv BY DEF Init, RecordsInv, OutstandingIsRecorded, NetInv
<1>7. InOrderAfterFirst /\ ~nospace /\ ~hung BY DEF Init, InOrderAfterFirst
<1> QED BY <1>2, <1>3, <1>4, <1>5, <1>6, <1>7 DEF Inv


-----------------------------------------------------------------------------
(* The calls of the two applications.                                      *)

LEMMA SendtoInv == ASSUME Inv, k_sendto PROVE Inv'
<1>0. Sizes /\ TypeOK /\ PositionsInv /\ SendBufInv BY Numbers DEF Inv
<1>1. sendIter = Slot(accepted) /\ sendBuf \in [Slots -> {Free} \cup Nat]
  BY <1>0 DEF PositionsInv, TypeOK
<1>2. accepted < acked + MAXMESSAGE /\ accepted < FileLength
  BY <1>0 DEF k_sendto, PositionsInv, Sizes, OrderInv
<1>3. Slot(accepted) \in Slots /\ sendIter' = Slot(accepted + 1) /\ sendIter' \in Slots
  <2>1. accepted + 1 \in Int BY <1>0 DEF Sizes
  <2>2. sendIter' = Slot(accepted + 1) BY <1>0, <1>1, SlotFacts DEF Sizes, k_sendto
  <2> QED BY <1>0, <2>1, <2>2, SlotFacts DEF Sizes
<1>4. sendBuf' = [sendBuf EXCEPT ![Slot(accepted)] = accepted] /\ accepted' = accepted + 1
  BY <1>1 DEF k_sendto
<1>5. /\ UNCHANGED <<swndHead, swndTail, swndSize, sent, acked, sentUpTo>>
      /\ UNCHANGED <<recvBuf, recvIter, recvFilled, rwndHead, rwndTail, lastAcked>>
      /\ UNCHANGED <<nospace, arrived, delivered, dataNet, ackNet, hung>>
  BY DEF k_sendto, swndVars, receiverVars, recvBufVars, rwndVars, netVars
<1>6. Read' = Read BY <1>5 DEF Read
<1>7. PositionsInv' BY <1>0, <1>3, <1>4, <1>5, <1>6 DEF PositionsInv, k_sendto, Sizes
<1>8. TypeOK'
  <2>1. sendBuf' \in [Slots -> {Free} \cup Nat] BY <1>0, <1>1, <1>4 DEF Sizes
  <2>2. sendFilled' \in 0 .. MAXMESSAGE /\ accepted' \in 0 .. FileLength
    BY <1>0, <1>2, <1>4 DEF k_sendto, PositionsInv, Sizes, OrderInv
  <2> QED BY <1>0, <1>3, <1>5, <2>1, <2>2 DEF TypeOK
<1>9. OrderInv' BY <1>0, <1>2, <1>4, <1>5, <1>6 DEF OrderInv, Sizes
<1>10. SendBufInv'
  <2>1. ASSUME NEW n \in acked .. accepted PROVE sendBuf'[Slot(n)] = n
    <3>0. n \in Int /\ acked <= n /\ n <= accepted BY <1>0 DEF Sizes
    <3>1. CASE n = accepted BY <1>1, <1>3, <1>4, <3>1
    <3>2. CASE n < accepted
      <4>1. Slot(n) # Slot(accepted) BY <1>0, <1>2, <3>0, <3>2, SlotUnique DEF Sizes
      <4>2. Slot(n) \in Slots BY <3>0, SlotFacts
      <4>3. sendBuf[Slot(n)] = n BY <1>0, <3>0, <3>2 DEF SendBufInv, Sizes
      <4> QED BY <1>1, <1>4, <4>1, <4>2, <4>3
    <3> QED BY <1>0, <3>0, <3>1, <3>2 DEF Sizes
  <2>2. ASSUME NEW s \in Slots, sendBuf'[s] # Free
        PROVE  sendBuf'[s] \in acked .. accepted /\ Slot(sendBuf'[s]) = s
    <3>1. CASE s = Slot(accepted)
      <4>1. sendBuf'[s] = accepted BY <1>1, <1>4, <3>1
      <4> QED BY <1>0, <3>1, <4>1 DEF Sizes, OrderInv
    <3>2. CASE s # Slot(accepted)
      <4>1. sendBuf'[s] = sendBuf[s] BY <1>1, <1>4, <3>2
      <4>2. sendBuf[s] \in acked .. (accepted - 1) /\ Slot(sendBuf[s]) = s
        BY <1>0, <2>2, <4>1 DEF SendBufInv
      <4> QED BY <1>0, <4>1, <4>2 DEF Sizes
    <3> QED BY <3>1, <3>2
  <2>3. acked' = acked /\ accepted' - 1 = accepted BY <1>0, <1>4, <1>5 DEF Sizes
  <2> QED BY <2>1, <2>2, <2>3 DEF SendBufInv
<1>11. RecvBufInv' BY <1>5, <1>6 DEF RecvBufInv, Inv
<1>12. RecordsInv' BY <1>5 DEF RecordsInv, OutstandingIsRecorded, Inv
<1>13. NetInv' BY <1>5, <1>6 DEF NetInv, Inv
<1>14. InOrderAfterFirst' /\ ~nospace' /\ ~hung' BY <1>5 DEF InOrderAfterFirst, Inv
<1> QED
  BY <1>7, <1>8, <1>9, <1>10, <1>11, <1>12, <1>13, <1>14 DEF Inv

\* k_recvfrom finds the message it should: the one after the last it returned.
LEMMA NextMessage ==
    ASSUME Inv, k_recvfrom
    PROVE  /\ recvBuf[Slot(Read)] = Read + 1 /\ Read < arrived
           /\ delivered' = Append(delivered, Read + 1)
<1>0. Sizes /\ PositionsInv /\ RecvBufInv BY Numbers DEF Inv
<1>1. recvIter = Slot(Read) /\ Slot(Read) \in Slots
  BY <1>0, SlotFacts DEF PositionsInv, Sizes
<1>2. recvBuf[Slot(Read)] # Free BY <1>1 DEF k_recvfrom
<1>3. recvBuf[Slot(Read)] = Read + 1 /\ Read < arrived
  <2>1. CASE Read < arrived
    <3>1. Read \in Read .. (arrived - 1) BY <1>0, <2>1 DEF Sizes
    <3> QED BY <1>0, <2>1, <3>1 DEF RecvBufInv
  <2>2. CASE Read = arrived
    <3>1. PICK m : m = recvBuf[Slot(Read)] OBVIOUS
    <3>2. m \in (Read + 1) .. (sentUpTo - 1) /\ m # Read + 1 /\ Slot(m - 1) = Slot(Read)
      BY <1>0, <1>1, <1>2, <2>2, <3>1 DEF RecvBufInv
    <3>3. /\ m - 1 \in Int /\ Read \in Int
          /\ m - 1 < Read + MAXMESSAGE /\ Read < (m - 1) + MAXMESSAGE
      BY <1>0, <3>2 DEF OrderInv, Sizes
    <3>4. m - 1 = Read BY <3>2, <3>3, SlotUnique
    <3> QED BY <1>0, <3>2, <3>4 DEF Sizes
  <2> QED BY <1>0, <2>1, <2>2 DEF Sizes, OrderInv
<1> QED BY <1>1, <1>3 DEF k_recvfrom

LEMMA RecvfromInv == ASSUME Inv, k_recvfrom PROVE Inv'
<1>0. Sizes /\ TypeOK /\ PositionsInv /\ RecvBufInv /\ NetInv /\ InOrderAfterFirst
  BY Numbers DEF Inv
<1>1. /\ recvIter = Slot(Read)
      /\ recvBuf \in [Slots -> {Free, Zeros} \cup Nat]
      /\ delivered \in Seq({Zeros} \cup Nat)
  BY <1>0 DEF PositionsInv, TypeOK
<1>2. /\ Slot(Read) \in Slots
      /\ recvIter' = Slot(Read + 1) /\ recvIter' \in Slots
  <2>1. Read \in Int /\ Read + 1 \in Int BY <1>0 DEF Sizes
  <2>2. recvIter' = Slot(Read + 1) BY <1>1, <2>1, SlotFacts DEF k_recvfrom
  <2> QED BY <2>1, <2>2, SlotFacts
<1>3. recvBuf[Slot(Read)] # Free /\ recvFilled # 0 BY <1>1 DEF k_recvfrom
<1>4. Read < arrived /\ delivered' = Append(delivered, Read + 1) BY NextMessage
<1>5. delivered' = Append(delivered, Read + 1) BY <1>4
<1>6. Read' = Read + 1
  BY <1>0, <1>1, <1>5 DEF Read, Sizes
<1>7. recvBuf' = [recvBuf EXCEPT ![Slot(Read)] = Free] /\ recvFilled' = recvFilled - 1
  BY <1>1 DEF k_recvfrom
<1>8. rwndTail' = Wire(Read + 1 + MAXMESSAGE) /\ rwndTail' \in SeqNumbers
  <2>1. /\ Read + MAXMESSAGE \in Int /\ (Read + MAXMESSAGE) + 1 = Read + 1 + MAXMESSAGE
        /\ Read + 1 + MAXMESSAGE \in Int
    BY <1>0 DEF Sizes
  <2>2. rwndTail' = SeqSucc(Wire(Read + MAXMESSAGE)) BY <1>0 DEF k_recvfrom, PositionsInv
  <2>3. rwndTail' = Wire((Read + MAXMESSAGE) + 1) BY <2>1, <2>2, WireFacts
  <2> QED BY <2>1, <2>3, WireFacts
<1>9. /\ UNCHANGED <<sendBuf, sendIter, sendFilled, swndHead, swndTail, swndSize>>
      /\ UNCHANGED <<sent, accepted, acked, sentUpTo>>
      /\ UNCHANGED <<rwndHead, lastAcked, nospace, arrived, dataNet, ackNet, hung>>
  BY DEF k_recvfrom, senderVars, sendBufVars, swndVars, netVars
<1>10. PositionsInv' BY <1>0, <1>2, <1>6, <1>8, <1>9 DEF PositionsInv
<1>11. TypeOK'
  <2>1. delivered' \in Seq({Zeros} \cup Nat)
    <3>1. Read + 1 \in {Zeros} \cup Nat BY <1>0 DEF Sizes
    <3> QED BY <1>1, <1>5, <3>1
  <2>2. recvBuf' \in [Slots -> {Free, Zeros} \cup Nat] BY <1>1, <1>7
  <2>3. recvFilled' \in Nat BY <1>0, <1>3, <1>7 DEF TypeOK
  <2> QED BY <1>0, <1>2, <1>8, <1>9, <2>1, <2>2, <2>3 DEF TypeOK
<1>12. OrderInv' BY <1>0, <1>4, <1>6, <1>9 DEF OrderInv, Sizes
<1>13. RecvBufInv'
  <2>1. ASSUME NEW n \in (Read + 1) .. (arrived - 1) PROVE recvBuf'[Slot(n)] = n + 1
    <3>0. n \in Int /\ Read \in Int /\ Read < n /\ n < arrived BY <1>0 DEF Sizes
    <3>1. Slot(n) \in Slots BY <3>0, SlotFacts
    <3>2. n < Read + MAXMESSAGE /\ Read < n + MAXMESSAGE
      BY <1>0, <3>0 DEF OrderInv, Sizes
    <3>3. Slot(n) # Slot(Read) BY <3>0, <3>2, SlotUnique
    <3>4. recvBuf[Slot(n)] = n + 1 BY <1>0, <3>0 DEF RecvBufInv, Sizes
    <3> QED BY <1>1, <1>7, <3>1, <3>3, <3>4
  <2>2. ASSUME NEW s \in Slots, recvBuf'[s] # Free
        PROVE  /\ recvBuf'[s] \in (Read + 1 + 1) .. (sentUpTo - 1)
               /\ recvBuf'[s] # arrived + 1
               /\ Slot(recvBuf'[s] - 1) = s
    <3>1. s # Slot(Read) BY <1>1, <1>2, <1>7, <2>2
    <3>2. recvBuf'[s] = recvBuf[s] BY <1>1, <1>7, <3>1
    <3>3. /\ recvBuf[s] \in (Read + 1) .. (sentUpTo - 1)
          /\ recvBuf[s] # arrived + 1 /\ Slot(recvBuf[s] - 1) = s
      BY <1>0, <2>2, <3>2 DEF RecvBufInv
    <3>4. recvBuf[s] # Read + 1
      <4>1. SUFFICES ASSUME recvBuf[s] = Read + 1 PROVE FALSE OBVIOUS
      <4>2. recvBuf[s] - 1 = Read BY <1>0, <4>1 DEF Sizes
      <4> QED BY <3>1, <3>3, <4>2
    <3> QED BY <1>0, <3>2, <3>3, <3>4 DEF Sizes
  <2> QED BY <1>6, <1>9, <2>1, <2>2 DEF RecvBufInv
<1>14. InOrderAfterFirst'
  <2>1. Len(delivered') = Len(delivered) + 1 BY <1>1, <1>5
  <2>2. ASSUME NEW i \in 1 .. (Len(delivered) + 1) PROVE delivered'[i] = i
    <3>1. CASE i = Len(delivered) + 1 BY <1>1, <1>5, <3>1 DEF Read
    <3>2. CASE i # Len(delivered) + 1
      <4>1. i \in 1 .. Len(delivered) BY <1>1, <3>2
      <4>2. delivered'[i] = delivered[i] BY <1>1, <1>5, <4>1
      <4> QED BY <1>0, <4>1, <4>2 DEF InOrderAfterFirst
    <3> QED BY <3>1, <3>2
  <2> QED BY <2>1, <2>2 DEF InOrderAfterFirst
<1>15. NetInv'
  <2>1. ASSUME NEW packet \in ackNet PROVE packet.n + 1 + packet.win <= Read' + MAXMESSAGE
    <3>1. packet.n \in Int /\ packet.win \in Int BY <1>0 DEF TypeOK
    <3> QED BY <1>0, <1>6, <3>1 DEF NetInv, Sizes
  <2> QED BY <1>0, <1>9, <2>1 DEF NetInv
<1>16. SendBufInv' BY <1>9 DEF SendBufInv, Inv
<1>17. RecordsInv' BY <1>9 DEF RecordsInv, OutstandingIsRecorded, Inv
<1>18. ~nospace' /\ ~hung' BY <1>9 DEF Inv
<1> QED
  BY <1>10, <1>11, <1>12, <1>13, <1>14, <1>15, <1>16, <1>17, <1>18 DEF Inv

-----------------------------------------------------------------------------
(* The network loses a datagram, or the R thread handles one without       *)
(* storing anything.                                                       *)

\* The parts of Inv that speak of the network shrink with it.
LEMMA FewerDatagrams ==
    ASSUME Inv, dataNet' \subseteq dataNet, ackNet' \subseteq ackNet,
           UNCHANGED <<senderVars, receiverVars, hung>>
    PROVE  Inv'
<1>1. /\ UNCHANGED <<sendBuf, sendIter, sendFilled, swndHead, swndTail, swndSize>>
      /\ UNCHANGED <<sent, accepted, acked, sentUpTo, recvBuf, recvIter, recvFilled>>
      /\ UNCHANGED <<rwndHead, rwndTail, lastAcked, nospace, arrived, delivered, hung>>
  BY DEF senderVars, receiverVars, sendBufVars, swndVars, recvBufVars, rwndVars
<1>2. Read' = Read BY <1>1 DEF Read
<1>3. TypeOK' BY <1>1 DEF Inv, TypeOK
<1>4. PositionsInv' /\ OrderInv' BY <1>1, <1>2 DEF Inv, PositionsInv, OrderInv
<1>5. SendBufInv' /\ RecvBufInv' BY <1>1, <1>2 DEF Inv, SendBufInv, RecvBufInv
<1>6. RecordsInv' BY <1>1 DEF Inv, RecordsInv, OutstandingIsRecorded
<1>7. NetInv' BY <1>1, <1>2 DEF Inv, NetInv
<1>8. InOrderAfterFirst' /\ ~nospace' /\ ~hung' BY <1>1 DEF Inv, InOrderAfterFirst
<1> QED BY <1>3, <1>4, <1>5, <1>6, <1>7, <1>8 DEF Inv

\* What the R thread computes from a DATA packet, in terms of the positions.
LEMMA DataFacts ==
    ASSUME Inv, NEW packet \in dataNet, DataIsFresh(packet)
    PROVE  /\ packet.n \in Nat /\ packet.n < sentUpTo /\ packet.data = packet.n
           /\ open_packet(packet.seq) = Wire(packet.n - 1)
           /\ InReceiveWindow(packet) <=>
                 arrived <= packet.n - 1 /\ packet.n - 1 < Read + MAXMESSAGE
           /\ ReceiveWindow = Read + MAXMESSAGE - arrived
           /\ arrived < Read + MAXMESSAGE
<1>0. Sizes /\ TypeOK /\ PositionsInv /\ NetInv BY Numbers DEF Inv
<1>1. packet.n \in Nat /\ packet.n < sentUpTo /\ packet.data = packet.n
  BY <1>0 DEF NetInv, TypeOK
<1>2. packet.n \in Int /\ packet.seq = Wire(packet.n) BY <1>0, <1>1 DEF NetInv
<1>3. open_packet(packet.seq) = Wire(packet.n - 1)
  BY <1>2, WireFacts DEF open_packet, SeqPred
<1>4. arrived < Read + MAXMESSAGE BY <1>0 DEF Sizes, OrderInv
<1>5. PICK x, t \in Int : x = packet.n - 1 /\ t = Read + MAXMESSAGE BY <1>0, <1>2 DEF Sizes
<1>6. /\ arrived \in Int /\ arrived <= t /\ t < arrived + SEQNUM
      /\ t - SEQNUM <= x /\ x < arrived + SEQNUM
  <2>1. t <= x + SEQNUM BY <1>5 DEF DataIsFresh, Read
  <2> QED BY <1>0, <1>1, <1>2, <1>4, <1>5, <2>1 DEF Sizes, OrderInv
<1>7. inwndw(Wire(x), Wire(arrived), Wire(t)) <=> (arrived <= x /\ x < t)
  BY <1>6, InWindow
<1>8. wndwsize(Wire(arrived), Wire(t)) = t - arrived BY <1>6, WindowSize
<1>9. rwndHead = Wire(arrived) /\ rwndTail = Wire(t) BY <1>0, <1>5 DEF PositionsInv
<1>10. InReceiveWindow(packet) <=> (arrived <= x /\ x < t)
  <2>1. InReceiveWindow(packet) <=> inwndw(Wire(x), rwndHead, rwndTail)
    BY <1>3, <1>5 DEF InReceiveWindow
  <2> QED BY <1>7, <1>9, <2>1
<1>11. ReceiveWindow = t - arrived BY <1>8, <1>9 DEF ReceiveWindow
<1>12. (arrived <= x /\ x < t)
          <=> (arrived <= packet.n - 1 /\ packet.n - 1 < Read + MAXMESSAGE)
  BY <1>5
<1>13. ReceiveWindow = Read + MAXMESSAGE - arrived BY <1>0, <1>5, <1>11 DEF Sizes
<1>14. InReceiveWindow(packet) <=>
          arrived <= packet.n - 1 /\ packet.n - 1 < Read + MAXMESSAGE
  BY <1>10, <1>12
<1> QED BY <1>1, <1>3, <1>4, <1>13, <1>14

LEMMA TakenData ==
    ASSUME NEW packet, TakesData(packet)
    PROVE  packet \in dataNet /\ DataIsFresh(packet) /\ dataNet' \subseteq dataNet
BY DEF TakesData, TakeData

LEMMA DuplicateInWindowInv ==
    ASSUME Inv, NEW packet, DuplicateInWindow(packet) PROVE Inv'
<1>1. nospace = FALSE BY DEF Inv, TypeOK
<1>2. UNCHANGED <<senderVars, receiverVars, hung>> /\ ackNet' = ackNet
  BY <1>1 DEF DuplicateInWindow, receiverVars, rwndVars, recvBufVars
<1>3. dataNet' \subseteq dataNet BY TakenData DEF DuplicateInWindow
<1> QED BY <1>2, <1>3, FewerDatagrams

LEMMA IgnoreDataInv ==
    ASSUME Inv, NEW packet, IgnoreData(packet) \/ DropData(packet) \/ DropAck(packet)
    PROVE  Inv'
<1>1. UNCHANGED <<senderVars, receiverVars, hung>> BY DEF IgnoreData, DropData, DropAck
<1>2. dataNet' \subseteq dataNet /\ ackNet' \subseteq ackNet
  BY TakenData DEF IgnoreData, DropData, DropAck
<1> QED BY <1>1, <1>2, FewerDatagrams

\* The window is never closed, so the zero-window answers are never given.
LEMMA NoZeroWindow ==
    ASSUME Inv
    PROVE  /\ \A packet : ~RefuseOnZeroWindow(packet)
           /\ ~WindowUpdate
<1>1. ASSUME NEW packet, RefuseOnZeroWindow(packet) PROVE FALSE
  <2>1. packet \in dataNet /\ DataIsFresh(packet) /\ ReceiveWindow = 0
    BY <1>1, TakenData DEF RefuseOnZeroWindow
  <2>2. ReceiveWindow = Read + MAXMESSAGE - arrived /\ arrived < Read + MAXMESSAGE
    BY <2>1, DataFacts
  <2> QED BY <2>1, <2>2, Numbers DEF Sizes
<1>2. ~WindowUpdate BY DEF WindowUpdate, Inv
<1> QED BY <1>1, <1>2

\* An ACK of everything that arrived, with the window as it is, keeps Inv.
LEMMA OneMoreAck ==
    ASSUME Inv, dataNet' \subseteq dataNet,
           ackNet' = ackNet \cup {[n |-> arrived - 1, ack |-> Wire(arrived - 1),
                                   win |-> Read + MAXMESSAGE - arrived]},
           UNCHANGED <<senderVars, receiverVars, hung>>
    PROVE  Inv'
<1>0. Sizes /\ TypeOK /\ NetInv BY Numbers DEF Inv
<1>1. /\ UNCHANGED <<sendBuf, sendIter, sendFilled, swndHead, swndTail, swndSize>>
      /\ UNCHANGED <<sent, accepted, acked, sentUpTo, recvBuf, recvIter, recvFilled>>
      /\ UNCHANGED <<rwndHead, rwndTail, lastAcked, nospace, arrived, delivered, hung>>
  BY DEF senderVars, receiverVars, sendBufVars, swndVars, recvBufVars, rwndVars
<1>2. Read' = Read BY <1>1 DEF Read
<1> DEFINE a == [n |-> arrived - 1, ack |-> Wire(arrived - 1),
                 win |-> Read + MAXMESSAGE - arrived]
<1>3. /\ a \in [n : {-1} \cup Nat, ack : SeqNumbers, win : 0 .. MAXMESSAGE]
      /\ a.n < arrived /\ a.ack = Wire(a.n) /\ a.n + 1 + a.win <= Read + MAXMESSAGE
  <2>1. arrived - 1 \in Int BY <1>0 DEF Sizes
  <2>2. Wire(arrived - 1) \in SeqNumbers BY <2>1, WireFacts
  <2>3. arrived - 1 \in {-1} \cup Nat BY <1>0 DEF Sizes
  <2>4. Read + MAXMESSAGE - arrived \in 0 .. MAXMESSAGE BY <1>0 DEF Sizes, OrderInv
  <2> QED BY <1>0, <2>2, <2>3, <2>4 DEF Sizes
<1> HIDE DEF a
<1>4. ackNet' = ackNet \cup {a} BY DEF a
<1>5. TypeOK'
  <2>1. ackNet' \subseteq [n : {-1} \cup Nat, ack : SeqNumbers, win : 0 .. MAXMESSAGE]
    BY <1>0, <1>3, <1>4 DEF TypeOK
  <2>2. dataNet' \subseteq [n : Nat, seq : SeqNumbers, data : {Zeros} \cup Nat]
    BY <1>0 DEF TypeOK
  <2> QED BY <1>0, <1>1, <2>1, <2>2 DEF TypeOK
<1>6. NetInv' BY <1>0, <1>1, <1>2, <1>3, <1>4 DEF NetInv
<1>7. PositionsInv' /\ OrderInv' BY <1>1, <1>2 DEF Inv, PositionsInv, OrderInv
<1>8. SendBufInv' /\ RecvBufInv' BY <1>1, <1>2 DEF Inv, SendBufInv, RecvBufInv
<1>9. RecordsInv' BY <1>1 DEF Inv, RecordsInv, OutstandingIsRecorded
<1>10. InOrderAfterFirst' /\ ~nospace' /\ ~hung' BY <1>1 DEF Inv, InOrderAfterFirst
<1> QED BY <1>5, <1>6, <1>7, <1>8, <1>9, <1>10 DEF Inv

LEMMA AckAgainInv == ASSUME Inv, NEW packet, AckAgain(packet) PROVE Inv'
<1>0. Sizes /\ PositionsInv BY Numbers DEF Inv
<1>1. packet \in dataNet /\ DataIsFresh(packet) /\ dataNet' \subseteq dataNet
  BY TakenData DEF AckAgain
<1>2. PICK seq : /\ seq = open_packet(packet.seq)
                 /\ SeqSucc(seq) = rwndHead
                 /\ ackNet' = ackNet \cup {createACKpacket(arrived - 1, seq, ReceiveWindow)}
                 /\ UNCHANGED <<receiverVars, senderVars, hung>>
  BY DEF AckAgain
<1>3. /\ packet.n \in Nat /\ seq = Wire(packet.n - 1)
      /\ ReceiveWindow = Read + MAXMESSAGE - arrived
  BY <1>1, <1>2, DataFacts
<1>4. seq = Wire(arrived - 1)
  <2>1. packet.n - 1 \in Int /\ packet.n \in Int /\ arrived \in Int BY <1>0, <1>3 DEF Sizes
  <2>2. (packet.n - 1) + 1 = packet.n BY <1>3
  <2>3. Wire(packet.n) = Wire(arrived)
    BY <1>0, <1>2, <1>3, <2>1, <2>2, WireFacts DEF PositionsInv
  <2>4. Wire(packet.n - 1) = Wire(arrived - 1) BY <2>1, <2>3, WireFacts
  <2> QED BY <1>3, <2>4
<1> QED BY <1>1, <1>2, <1>3, <1>4, OneMoreAck DEF createACKpacket

-----------------------------------------------------------------------------
(* The R thread stores a message.                                          *)

\* Of message n+1, in the window and in an empty slot: what the buffer then holds.
LEMMA StoredBuffer ==
    ASSUME Inv, SlotsAgree, NEW packet \in dataNet, DataIsFresh(packet),
           Fits(packet), NEW r, r = packet.n - 1
    PROVE  /\ r \in Int /\ arrived <= r /\ r <= sentUpTo - 2
           /\ open_packet(packet.seq) = Wire(r)
           /\ Stored(packet) \in [Slots -> {Free} \cup Nat]
           /\ Stored(packet)[Slot(r)] = r + 1
           /\ \A n \in Read .. (arrived - 1) : Stored(packet)[Slot(n)] = n + 1
           /\ \A s \in Slots : Stored(packet)[s] # Free =>
                 /\ Stored(packet)[s] \in (Read + 1) .. (sentUpTo - 1)
                 /\ Slot(Stored(packet)[s] - 1) = s
                 /\ s # Slot(r) => Stored(packet)[s] # arrived + 1
<1> DEFINE stored == Stored(packet)
<1>0. Sizes /\ TypeOK /\ RecvBufInv BY Numbers DEF Inv
<1>1. /\ packet.n \in Nat /\ packet.n < sentUpTo /\ packet.data = packet.n
      /\ open_packet(packet.seq) = Wire(packet.n - 1)
      /\ arrived <= packet.n - 1 /\ packet.n - 1 < Read + MAXMESSAGE
  BY DataFacts DEF Fits
<1>2. r \in Nat /\ arrived <= r /\ r <= sentUpTo - 2 /\ packet.n = r + 1
  BY <1>0, <1>1 DEF Sizes
<1>3. open_packet(packet.seq) = Wire(r) BY <1>1
<1>4. BufferIndex(Wire(r)) = Slot(r) /\ Slot(r) \in Slots
  <2>1. r \in 0 .. FileLength BY <1>0, <1>2 DEF Sizes, OrderInv
  <2> QED BY <1>2, <2>1, SlotFacts DEF SlotsAgree
<1>5. stored = [recvBuf EXCEPT ![Slot(r)] = r + 1] BY <1>1, <1>2, <1>3, <1>4 DEF Stored
<1>6. recvBuf \in [Slots -> {Free, Zeros} \cup Nat] BY <1>0 DEF TypeOK
<1> HIDE DEF stored
<1>7. stored[Slot(r)] = r + 1 BY <1>4, <1>5, <1>6
<1>8. ASSUME NEW s \in Slots, s # Slot(r) PROVE stored[s] = recvBuf[s]
  BY <1>5, <1>6, <1>8
<1>9. ASSUME NEW n \in Read .. (arrived - 1) PROVE stored[Slot(n)] = n + 1
  <2>1. n \in Int /\ n < r /\ r < n + MAXMESSAGE BY <1>0, <1>2, <1>1 DEF Sizes, OrderInv
  <2>2. Slot(n) # Slot(r) BY <1>0, <1>2, <2>1, SlotUnique DEF Sizes
  <2>3. Slot(n) \in Slots BY <2>1, SlotFacts
  <2> QED BY <1>0, <1>8, <2>2, <2>3 DEF RecvBufInv
<1>10. ASSUME NEW s \in Slots, stored[s] # Free
       PROVE  /\ stored[s] \in (Read + 1) .. (sentUpTo - 1)
              /\ Slot(stored[s] - 1) = s
              /\ s # Slot(r) => stored[s] # arrived + 1
  <2>1. CASE s = Slot(r)
    <3>1. stored[s] = r + 1 /\ (r + 1) - 1 = r BY <1>2, <1>7, <2>1
    <3>2. r + 1 \in (Read + 1) .. (sentUpTo - 1) BY <1>0, <1>2 DEF Sizes, OrderInv
    <3> QED BY <2>1, <3>1, <3>2
  <2>2. CASE s # Slot(r) BY <1>0, <1>8, <1>10, <2>2 DEF RecvBufInv
  <2> QED BY <2>1, <2>2
<1>11. stored \in [Slots -> {Free} \cup Nat]
  <2>0. r + 1 \in {Free, Zeros} \cup Nat BY <1>2
  <2>1. stored \in [Slots -> {Free, Zeros} \cup Nat] BY <1>5, <1>6, <2>0
  <2>2. \A s \in Slots : stored[s] \in {Free} \cup Nat
    <3>1. ASSUME NEW s \in Slots, stored[s] # Free PROVE stored[s] \in Nat
      BY <1>0, <1>10, <3>1 DEF Sizes
    <3> QED BY <3>1
  <2> QED BY <2>1, <2>2
<1>12. r \in Int /\ arrived <= r /\ r <= sentUpTo - 2 BY <1>2
<1>13. \A n \in Read .. (arrived - 1) : stored[Slot(n)] = n + 1 BY <1>9
<1>14. \A s \in Slots : stored[s] # Free =>
          /\ stored[s] \in (Read + 1) .. (sentUpTo - 1)
          /\ Slot(stored[s] - 1) = s
          /\ s # Slot(r) => stored[s] # arrived + 1
  BY <1>10
<1> QED BY <1>3, <1>7, <1>11, <1>12, <1>13, <1>14 DEF stored

LEMMA StoreOutOfOrderInv ==
    ASSUME Inv, SlotsAgree, NEW packet, StoreOutOfOrder(packet) PROVE Inv'
<1>0. Sizes /\ TypeOK /\ PositionsInv BY Numbers DEF Inv
<1>1. packet \in dataNet /\ DataIsFresh(packet) /\ dataNet' \subseteq dataNet
  BY TakenData DEF StoreOutOfOrder
<1>2. PICK r, stored : r = packet.n - 1 /\ stored = recvBuf' OBVIOUS
<1>3. /\ Fits(packet)
      /\ stored = Stored(packet)
      /\ open_packet(packet.seq) # rwndHead
      /\ recvFilled' = recvFilled + 1 /\ nospace' = FALSE
      /\ UNCHANGED <<recvIter, rwndHead, rwndTail, lastAcked, arrived, delivered>>
      /\ UNCHANGED <<senderVars, ackNet, hung>>
  BY <1>2 DEF StoreOutOfOrder
<1>4. /\ r \in Int /\ arrived <= r /\ r <= sentUpTo - 2
      /\ open_packet(packet.seq) = Wire(r)
      /\ stored \in [Slots -> {Free} \cup Nat]
      /\ stored[Slot(r)] = r + 1
      /\ \A n \in Read .. (arrived - 1) : stored[Slot(n)] = n + 1
      /\ \A s \in Slots : stored[s] # Free =>
            /\ stored[s] \in (Read + 1) .. (sentUpTo - 1)
            /\ Slot(stored[s] - 1) = s
            /\ s # Slot(r) => stored[s] # arrived + 1
  BY <1>1, <1>2, <1>3, StoredBuffer
<1>5. /\ UNCHANGED <<sendBuf, sendIter, sendFilled, swndHead, swndTail, swndSize>>
      /\ UNCHANGED <<sent, accepted, acked, sentUpTo>>
  BY <1>3 DEF senderVars, sendBufVars, swndVars
<1>6. Read' = Read BY <1>3 DEF Read
<1>7. RecvBufInv'
  <2>1. r + 1 # arrived + 1 BY <1>0, <1>3, <1>4 DEF PositionsInv, Sizes
  <2>2. ASSUME NEW s \in Slots, recvBuf'[s] # Free
        PROVE  /\ recvBuf'[s] \in (Read + 1) .. (sentUpTo - 1)
               /\ recvBuf'[s] # arrived + 1
               /\ Slot(recvBuf'[s] - 1) = s
    BY <1>2, <1>4, <2>1, <2>2
  <2> QED BY <1>2, <1>3, <1>4, <1>5, <1>6, <2>2 DEF RecvBufInv
<1>8. TypeOK'
  <2>1. recvBuf' \in [Slots -> {Free, Zeros} \cup Nat] BY <1>2, <1>4
  <2>2. recvFilled' \in Nat BY <1>0, <1>3 DEF TypeOK
  <2> QED BY <1>0, <1>1, <1>3, <1>5, <2>1, <2>2 DEF TypeOK
<1>9. PositionsInv' /\ OrderInv'
  BY <1>3, <1>5, <1>6 DEF Inv, PositionsInv, OrderInv
<1>10. SendBufInv' BY <1>5 DEF Inv, SendBufInv
<1>11. RecordsInv' BY <1>5 DEF Inv, RecordsInv, OutstandingIsRecorded
<1>12. NetInv' BY <1>1, <1>3, <1>5, <1>6 DEF Inv, NetInv
<1>13. InOrderAfterFirst' /\ ~nospace' /\ ~hung' BY <1>3 DEF Inv, InOrderAfterFirst
<1> QED BY <1>7, <1>8, <1>9, <1>10, <1>11, <1>12, <1>13 DEF Inv

\* How far the cumulative ACK goes: to the first message that is not there.
LEMMA AdvanceFacts ==
    ASSUME Inv, SlotsAgree, NEW packet \in dataNet, DataIsFresh(packet), Fits(packet),
           open_packet(packet.seq) = rwndHead,
           NEW k \in 0 .. SEQNUM, Advance(Stored(packet), k)
    PROVE  /\ arrived + k <= sentUpTo - 1
           /\ \A n \in arrived .. (arrived + k - 1) : Stored(packet)[Slot(n)] = n + 1
           /\ Stored(packet)[Slot(arrived + k)] = Free
<1> DEFINE stored == Stored(packet)
<1>0. Sizes /\ PositionsInv BY Numbers DEF Inv
<1>1. PICK r : r = packet.n - 1 OBVIOUS
<1>2. /\ r \in Int /\ arrived <= r /\ r <= sentUpTo - 2
      /\ open_packet(packet.seq) = Wire(r)
      /\ \A s \in Slots : stored[s] # Free =>
            /\ stored[s] \in (Read + 1) .. (sentUpTo - 1)
            /\ Slot(stored[s] - 1) = s
  BY <1>1, StoredBuffer
<1>3. arrived < sentUpTo - 1 /\ k \in Nat /\ arrived \in Int BY <1>0, <1>2 DEF Sizes
<1>4. /\ \A j \in 0 .. (k - 1) : Contiguous(stored, j)
      /\ ~Contiguous(stored, k)
  BY DEF Advance
<1> HIDE DEF stored
\* What Contiguous says, for positions of messages that were sent.
<1>5. ASSUME NEW j \in Nat, arrived + j <= sentUpTo - 1
      PROVE  Contiguous(stored, j) <=> stored[Slot(arrived + j)] # Free
  <2>1. PICK n, t \in Int : n = arrived + j /\ t = Read + MAXMESSAGE
    BY <1>0 DEF Sizes
  <2>2. (rwndHead + j) % SEQNUM = Wire(n)
    BY <1>0, <1>3, <2>1, WireFacts DEF PositionsInv
  <2>3. /\ arrived <= n /\ n < t /\ arrived <= t /\ t < arrived + SEQNUM
        /\ t - SEQNUM <= n /\ n < arrived + SEQNUM
    BY <1>0, <1>5, <2>1 DEF Sizes, OrderInv
  <2>4. inwndw(Wire(n), Wire(arrived), Wire(t)) BY <1>3, <2>3, InWindow
  <2>5. inwndw(Wire(n), rwndHead, rwndTail) BY <1>0, <2>1, <2>4 DEF PositionsInv
  <2>6. BufferIndex(Wire(n)) = Slot(n)
    <3>1. n \in 0 .. FileLength BY <1>0, <1>5, <2>1 DEF Sizes, OrderInv
    <3> QED BY <3>1 DEF SlotsAgree
  <2> QED BY <2>1, <2>2, <2>5, <2>6 DEF Contiguous
\* A filled slot holds the message of its position.
<1>6. ASSUME NEW n \in Int, arrived <= n, n <= sentUpTo - 1, stored[Slot(n)] # Free
      PROVE  stored[Slot(n)] = n + 1 /\ n <= sentUpTo - 2
  <2>1. PICK m : m = stored[Slot(n)] OBVIOUS
  <2>2. Slot(n) \in Slots BY SlotFacts
  <2>3. m \in (Read + 1) .. (sentUpTo - 1) /\ Slot(m - 1) = Slot(n)
    BY <1>2, <1>6, <2>1, <2>2
  <2>4. /\ m \in Int /\ m - 1 \in Int
        /\ m - 1 < n + MAXMESSAGE /\ n < (m - 1) + MAXMESSAGE
    BY <1>0, <1>6, <2>3 DEF Sizes, OrderInv
  <2>5. m - 1 = n BY <2>3, <2>4, SlotUnique
  <2> QED BY <1>0, <2>1, <2>3, <2>4, <2>5 DEF Sizes
<1>7. arrived + k <= sentUpTo - 1
  <2>1. SUFFICES ASSUME arrived + k > sentUpTo - 1 PROVE FALSE BY <1>0, <1>3 DEF Sizes
  <2>2. PICK j \in Nat : j = sentUpTo - 1 - arrived BY <1>0, <1>3 DEF Sizes
  <2>3. /\ arrived + j = sentUpTo - 1 /\ arrived + j \in Int /\ arrived <= arrived + j
        /\ j \in 0 .. (k - 1)
    BY <1>0, <1>3, <2>1, <2>2 DEF Sizes
  <2>4. Contiguous(stored, j) BY <1>4, <2>3
  <2>5. stored[Slot(arrived + j)] # Free BY <1>0, <1>5, <2>3, <2>4 DEF Sizes
  <2>6. arrived + j <= sentUpTo - 2 BY <1>0, <1>6, <2>3, <2>5 DEF Sizes
  <2> QED BY <1>0, <2>3, <2>6 DEF Sizes
<1>8. ASSUME NEW n \in arrived .. (arrived + k - 1) PROVE stored[Slot(n)] = n + 1
  <2>1. PICK j \in Nat : j = n - arrived BY <1>0 DEF Sizes
  <2>2. /\ n \in Int /\ arrived + j = n /\ j \in 0 .. (k - 1)
        /\ arrived <= n /\ n <= sentUpTo - 1
    BY <1>0, <1>3, <1>7, <2>1 DEF Sizes
  <2>3. Contiguous(stored, j) BY <1>4, <2>2
  <2>4. stored[Slot(n)] # Free BY <1>5, <2>2, <2>3
  <2> QED BY <1>6, <2>2, <2>4
<1>9. stored[Slot(arrived + k)] = Free BY <1>3, <1>4, <1>5, <1>7
<1> QED BY <1>7, <1>8, <1>9 DEF stored

LEMMA StoreInOrderInv ==
    ASSUME Inv, SlotsAgree, NEW packet, StoreInOrder(packet) PROVE Inv'
<1>0. Sizes /\ TypeOK /\ PositionsInv /\ NetInv BY Numbers DEF Inv
<1>1. packet \in dataNet /\ DataIsFresh(packet) /\ dataNet' \subseteq dataNet
  BY TakenData DEF StoreInOrder
<1>2. PICK r, stored : r = packet.n - 1 /\ stored = Stored(packet) OBVIOUS
<1>3. /\ Fits(packet)
      /\ recvBuf' = stored
      /\ open_packet(packet.seq) = rwndHead
      /\ recvFilled' = recvFilled + 1
      /\ UNCHANGED <<recvIter, rwndTail, delivered, senderVars, hung>>
  BY <1>2 DEF StoreInOrder
<1>4. PICK k, head, size :
         /\ k \in 0 .. SEQNUM
         /\ head = (rwndHead + k) % SEQNUM
         /\ size = wndwsize(head, rwndTail)
         /\ Advance(Stored(packet), k)
         /\ rwndHead' = head
         /\ arrived' = arrived + k
         /\ lastAcked' = SeqPred(head)
         /\ nospace' = (size = 0)
         /\ ackNet' = ackNet \cup {createACKpacket(arrived + k - 1, SeqPred(head), size)}
  BY DEF StoreInOrder
<1>k. k \in 0 .. SEQNUM BY <1>4
<1>5. /\ r \in Int /\ arrived <= r /\ r <= sentUpTo - 2
      /\ open_packet(packet.seq) = Wire(r)
      /\ stored \in [Slots -> {Free} \cup Nat]
      /\ \A n \in Read .. (arrived - 1) : stored[Slot(n)] = n + 1
      /\ \A s \in Slots : stored[s] # Free =>
            /\ stored[s] \in (Read + 1) .. (sentUpTo - 1)
            /\ Slot(stored[s] - 1) = s
  BY <1>1, <1>2, <1>3, StoredBuffer
<1>6. /\ arrived + k <= sentUpTo - 1
      /\ \A n \in arrived .. (arrived + k - 1) : stored[Slot(n)] = n + 1
      /\ stored[Slot(arrived + k)] = Free
  BY <1>1, <1>2, <1>3, <1>4, AdvanceFacts
<1>7. PICK a \in Nat : a = arrived + k BY <1>0, <1>k DEF Sizes
<1>8. /\ arrived' = a /\ a <= sentUpTo - 1 /\ arrived <= a
      /\ a < Read + MAXMESSAGE /\ Read <= a /\ acked <= a
  BY <1>0, <1>4, <1>6, <1>7 DEF Sizes, OrderInv
<1>9. /\ head = Wire(a) /\ head \in SeqNumbers
      /\ SeqPred(head) = Wire(a - 1) /\ SeqPred(head) \in SeqNumbers
  <2>1. head = Wire(a)
    BY <1>0, <1>4, <1>7, WireFacts DEF PositionsInv, Sizes
  <2>2. a \in Int /\ a - 1 \in Int BY <1>7
  <2> QED BY <2>1, <2>2, WireFacts
<1>10. size = Read + MAXMESSAGE - a /\ size \in 1 .. MAXMESSAGE
  <2>1. PICK t \in Int : t = Read + MAXMESSAGE BY <1>0 DEF Sizes
  <2>2. a <= t /\ t < a + SEQNUM BY <1>0, <1>8, <2>1 DEF Sizes
  <2>3. wndwsize(Wire(a), Wire(t)) = t - a BY <1>7, <2>2, WindowSize
  <2>4. size = t - a BY <1>0, <1>4, <1>9, <2>1, <2>3 DEF PositionsInv
  <2> QED BY <1>0, <1>8, <2>1, <2>4 DEF Sizes
<1>11. nospace' = FALSE
  <2>1. (size = 0) = FALSE BY <1>10, <1>0 DEF Sizes
  <2>2. nospace' = (size = 0) BY <1>4
  <2> QED BY <2>1, <2>2, Zenon
<1>12. /\ UNCHANGED <<sendBuf, sendIter, sendFilled, swndHead, swndTail, swndSize>>
       /\ UNCHANGED <<sent, accepted, acked, sentUpTo>>
  BY <1>3 DEF senderVars, sendBufVars, swndVars
<1>13. Read' = Read BY <1>3 DEF Read
<1>14. PICK ack : /\ ack = [n |-> a - 1, ack |-> Wire(a - 1), win |-> size]
                  /\ ackNet' = ackNet \cup {ack}
  <2>1. arrived + k - 1 = a - 1 BY <1>0, <1>7, <1>k DEF Sizes
  <2>2. ackNet' = ackNet \cup {createACKpacket(a - 1, Wire(a - 1), size)}
    BY <1>4, <1>9, <2>1
  <2> QED BY <2>2 DEF createACKpacket
<1>15. /\ ack \in [n : {-1} \cup Nat, ack : SeqNumbers, win : 0 .. MAXMESSAGE]
       /\ ack.n < a /\ ack.ack = Wire(ack.n) /\ ack.n + 1 + ack.win <= Read + MAXMESSAGE
  <2>1. a - 1 \in {-1} \cup Nat /\ Wire(a - 1) \in SeqNumbers BY <1>7, <1>9
  <2>2. size \in 0 .. MAXMESSAGE BY <1>0, <1>10 DEF Sizes
  <2>3. a - 1 < a /\ a - 1 + 1 + size <= Read + MAXMESSAGE BY <1>0, <1>7, <1>10 DEF Sizes
  <2> QED BY <1>14, <2>1, <2>2, <2>3
<1>16. TypeOK'
  <2>1. recvBuf' \in [Slots -> {Free, Zeros} \cup Nat] BY <1>3, <1>5
  <2>2. recvFilled' \in Nat BY <1>0, <1>3 DEF TypeOK
  <2>3. ackNet' \subseteq [n : {-1} \cup Nat, ack : SeqNumbers, win : 0 .. MAXMESSAGE]
    BY <1>0, <1>14, <1>15 DEF TypeOK
  <2>4. rwndHead' \in SeqNumbers /\ lastAcked' \in SeqNumbers /\ arrived' \in Nat
    BY <1>4, <1>8, <1>9
  <2> QED BY <1>0, <1>1, <1>3, <1>11, <1>12, <2>1, <2>2, <2>3, <2>4 DEF TypeOK
<1>17. PositionsInv'
  BY <1>0, <1>3, <1>4, <1>8, <1>9, <1>12, <1>13 DEF PositionsInv
<1>18. OrderInv' BY <1>0, <1>8, <1>12, <1>13 DEF OrderInv, Sizes
<1>19. RecvBufInv'
  <2>1. ASSUME NEW n \in Read .. (a - 1) PROVE stored[Slot(n)] = n + 1
    <3>1. n \in Read .. (arrived - 1) \/ n \in arrived .. (arrived + k - 1)
      BY <1>0, <1>7, <1>8, <1>k DEF Sizes, OrderInv
    <3> QED BY <1>5, <1>6, <3>1
  <2>2. ASSUME NEW s \in Slots, stored[s] # Free
        PROVE  /\ stored[s] \in (Read + 1) .. (sentUpTo - 1)
               /\ stored[s] # a + 1
               /\ Slot(stored[s] - 1) = s
    <3>1. stored[s] \in (Read + 1) .. (sentUpTo - 1) /\ Slot(stored[s] - 1) = s
      BY <1>5, <2>2
    <3>2. stored[s] # a + 1
      <4>1. SUFFICES ASSUME stored[s] = a + 1 PROVE FALSE OBVIOUS
      <4>2. Slot(a) = s BY <1>7, <3>1, <4>1
      <4> QED BY <1>6, <1>7, <2>2, <4>2
    <3> QED BY <3>1, <3>2
  <2> QED BY <1>3, <1>8, <1>12, <1>13, <2>1, <2>2 DEF RecvBufInv
<1>20. SendBufInv' BY <1>12 DEF Inv, SendBufInv
<1>21. RecordsInv' BY <1>12 DEF Inv, RecordsInv, OutstandingIsRecorded
<1>22. NetInv'
  <2>1. ASSUME NEW q \in ackNet'
        PROVE  q.n < a /\ q.ack = Wire(q.n) /\ q.n + 1 + q.win <= Read + MAXMESSAGE
    <3>1. CASE q = ack BY <1>15, <3>1
    <3>2. CASE q \in ackNet
      <4>1. q.n \in Int BY <1>0, <3>2 DEF TypeOK
      <4> QED BY <1>0, <1>7, <1>8, <3>2, <4>1 DEF NetInv, Sizes
    <3> QED BY <1>14, <2>1, <3>1, <3>2
  <2>2. ASSUME NEW q \in dataNet' PROVE q.n < sentUpTo /\ q.seq = Wire(q.n) /\ q.data = q.n
    BY <1>0, <1>1, <2>2 DEF NetInv
  <2> QED BY <1>8, <1>12, <1>13, <2>1, <2>2 DEF NetInv
<1>23. InOrderAfterFirst' /\ ~nospace' /\ ~hung'
  BY <1>3, <1>11 DEF Inv, InOrderAfterFirst
<1> QED
  BY <1>16, <1>17, <1>18, <1>19, <1>20, <1>21, <1>22, <1>23 DEF Inv

-----------------------------------------------------------------------------
(* The R thread handles an ACK at the sender.                              *)

LEMMA TakenAck ==
    ASSUME NEW packet, TakesAck(packet)
    PROVE  packet \in ackNet /\ AckIsFresh(packet) /\ ackNet' \subseteq ackNet
BY DEF TakesAck, AcksLeft

\* What the R thread computes from an ACK packet, in terms of the positions.
LEMMA AckFacts ==
    ASSUME Inv, NEW packet \in ackNet, AckIsFresh(packet)
    PROVE  /\ packet.n \in Int /\ packet.n < arrived /\ packet.ack = Wire(packet.n)
           /\ packet.win \in 0 .. MAXMESSAGE
           /\ packet.n + 1 + packet.win <= Read + MAXMESSAGE
           /\ inwndw(packet.ack, swndHead, swndTail) <=>
                 acked <= packet.n /\ packet.n < sentUpTo
           /\ wndwsize(swndHead, swndTail) = sentUpTo - acked
<1>0. Sizes /\ TypeOK /\ PositionsInv /\ NetInv BY Numbers DEF Inv
<1>1. /\ packet.n \in Int /\ packet.n < arrived /\ packet.ack = Wire(packet.n)
      /\ packet.win \in 0 .. MAXMESSAGE
      /\ packet.n + 1 + packet.win <= Read + MAXMESSAGE
  BY <1>0 DEF NetInv, TypeOK
<1>2. sentUpTo <= packet.n + SEQNUM BY DEF AckIsFresh
<1>3. /\ acked \in Int /\ sentUpTo \in Int
      /\ acked <= sentUpTo /\ sentUpTo < acked + SEQNUM
      /\ sentUpTo - SEQNUM <= packet.n /\ packet.n < acked + SEQNUM
  BY <1>0, <1>1, <1>2 DEF Sizes, OrderInv
<1>4. inwndw(Wire(packet.n), Wire(acked), Wire(sentUpTo)) <=>
         (acked <= packet.n /\ packet.n < sentUpTo)
  BY <1>1, <1>3, InWindow
<1>5. wndwsize(Wire(acked), Wire(sentUpTo)) = sentUpTo - acked BY <1>3, WindowSize
<1>6. swndHead = Wire(acked) /\ swndTail = Wire(sentUpTo) BY <1>0 DEF PositionsInv
<1>7. inwndw(packet.ack, swndHead, swndTail) <=>
         (acked <= packet.n /\ packet.n < sentUpTo)
  BY <1>1, <1>4, <1>6
<1>8. wndwsize(swndHead, swndTail) = sentUpTo - acked BY <1>5, <1>6
<1> QED BY <1>1, <1>7, <1>8

LEMMA AckOutsideInv == ASSUME Inv, NEW packet, AckOutside(packet) PROVE Inv'
<1>0. Sizes /\ TypeOK /\ PositionsInv /\ NetInv BY Numbers DEF Inv
<1>1. packet \in ackNet /\ AckIsFresh(packet) /\ ackNet' \subseteq ackNet
  BY TakenAck DEF AckOutside
<1>2. /\ packet.n \in Int /\ packet.n < arrived /\ packet.ack = Wire(packet.n)
      /\ packet.win \in 0 .. MAXMESSAGE
      /\ packet.n + 1 + packet.win <= Read + MAXMESSAGE
      /\ wndwsize(swndHead, swndTail) = sentUpTo - acked
  BY <1>1, AckFacts
<1>3. /\ UNCHANGED <<sendBuf, sendIter, sendFilled, swndHead, swndTail>>
      /\ UNCHANGED <<sent, accepted, acked, sentUpTo, recvBuf, recvIter, recvFilled>>
      /\ UNCHANGED <<rwndHead, rwndTail, lastAcked, nospace, arrived, delivered>>
      /\ UNCHANGED <<dataNet, hung>>
  BY DEF AckOutside, sendBufVars, receiverVars, recvBufVars, rwndVars
<1>4. Read' = Read BY <1>3 DEF Read
<1>5. swndSize' \in 0 .. MAXMESSAGE /\ acked + swndSize' <= Read + MAXMESSAGE
  <2>1. CASE wndwsize(swndHead, swndTail) = 0 /\ packet.ack = SeqPred(swndTail)
    <3>1. swndSize' = packet.win BY <2>1 DEF AckOutside
    \* The window is empty only before anything was sent.
    <3>2. sentUpTo = acked BY <1>0, <1>2, <2>1 DEF Sizes
    <3>3. acked = 0 /\ arrived = 0 BY <1>0, <3>2 DEF Sizes, OrderInv
    <3> QED BY <1>0, <1>1, <1>2, <3>1, <3>3 DEF Sizes, TypeOK
  <2>2. CASE ~(wndwsize(swndHead, swndTail) = 0 /\ packet.ack = SeqPred(swndTail))
    <3>1. swndSize' = swndSize BY <2>2 DEF AckOutside
    <3> QED BY <1>0, <3>1 DEF Sizes, OrderInv
  <2> QED BY <2>1, <2>2
<1>6. TypeOK' BY <1>0, <1>1, <1>3, <1>5 DEF TypeOK
<1>7. PositionsInv' BY <1>0, <1>3, <1>4 DEF PositionsInv
<1>8. OrderInv' BY <1>0, <1>3, <1>4, <1>5 DEF Sizes, OrderInv
<1>9. SendBufInv' /\ RecvBufInv' BY <1>3, <1>4 DEF Inv, SendBufInv, RecvBufInv
<1>10. RecordsInv' BY <1>3 DEF Inv, RecordsInv, OutstandingIsRecorded
<1>11. NetInv' BY <1>0, <1>1, <1>3, <1>4 DEF NetInv
<1>12. InOrderAfterFirst' /\ ~nospace' /\ ~hung' BY <1>3 DEF Inv, InOrderAfterFirst
<1> QED BY <1>6, <1>7, <1>8, <1>9, <1>10, <1>11, <1>12 DEF Inv

LEMMA AckInsideInv == ASSUME Inv, SlotsAgree, NEW packet, AckInside(packet) PROVE Inv'
<1>0. Sizes /\ TypeOK /\ PositionsInv /\ SendBufInv /\ RecordsInv /\ NetInv
  BY Numbers DEF Inv
<1>1. /\ packet \in ackNet /\ AckIsFresh(packet) /\ ackNet' \subseteq ackNet
      /\ inwndw(packet.ack, swndHead, swndTail)
  BY TakenAck DEF AckInside
<1>2. PICK n \in Nat : /\ packet.n = n /\ acked <= n /\ n < sentUpTo /\ n < arrived
                       /\ packet.ack = Wire(n)
                       /\ packet.win \in 0 .. MAXMESSAGE
                       /\ n + 1 + packet.win <= Read + MAXMESSAGE
  BY <1>0, <1>1, AckFacts DEF Sizes
<1>3. PICK length : length = wndwsize(swndHead, SeqSucc(packet.ack)) OBVIOUS
<1>4. length = n + 1 - acked /\ length \in 1 .. MAXMESSAGE
  <2>1. PICK m \in Nat : m = n + 1 BY <1>2
  <2>2. SeqSucc(packet.ack) = Wire(m) BY <1>2, <2>1, WireFacts
  <2>3. acked <= m /\ m < acked + SEQNUM BY <1>0, <1>2, <2>1 DEF Sizes, OrderInv
  <2>4. wndwsize(Wire(acked), Wire(m)) = m - acked BY <1>0, <2>3, WindowSize DEF Sizes
  <2> QED BY <1>0, <1>2, <1>3, <2>1, <2>2, <2>4 DEF PositionsInv, Sizes, OrderInv
<1>5. PICK g \in 0 .. SEQNUM :
         /\ g <= length
         /\ g = length \/ Stuck(g)
         /\ sendBuf' = [s \in Slots |->
               IF \E i \in 0 .. (g - 1) : HeadSlot(i) = s THEN Free ELSE sendBuf[s]]
         /\ sendFilled' = sendFilled - g
         /\ swndHead' = (swndHead + g) % SEQNUM
         /\ acked' = acked + g
         /\ swndSize' = IF g = length THEN packet.win ELSE swndSize
         /\ hung' = (g # length)
  BY <1>3 DEF AckInside
<1>6. /\ UNCHANGED <<sendIter, swndTail, sent, accepted, sentUpTo, dataNet>>
      /\ UNCHANGED <<recvBuf, recvIter, recvFilled, rwndHead, rwndTail>>
      /\ UNCHANGED <<lastAcked, nospace, arrived, delivered>>
  BY DEF AckInside, receiverVars, recvBufVars, rwndVars
<1>7. Read' = Read BY <1>6 DEF Read
\* Each slot the loop visits holds its message, and no slot comes twice.
<1>8. ASSUME NEW i \in 0 .. (length - 1)
      PROVE  HeadSlot(i) = Slot(acked + i) /\ ~Stuck(i)
  <2>1. ASSUME NEW j \in 0 .. (length - 1) PROVE HeadSlot(j) = Slot(acked + j)
    <3>1. acked + j \in 0 .. FileLength /\ j \in Int /\ acked \in Int
      BY <1>0, <1>2, <1>4 DEF Sizes, OrderInv
    <3>2. (swndHead + j) % SEQNUM = Wire(acked + j)
      BY <1>0, <3>1, WireFacts DEF PositionsInv
    <3> QED BY <3>1, <3>2 DEF HeadSlot, SlotsAgree
  <2>2. sendBuf[HeadSlot(i)] # Free
    <3>1. acked + i \in acked .. (accepted - 1) /\ acked + i # Free
      BY <1>0, <1>2, <1>4 DEF Sizes, OrderInv, Free
    <3> QED BY <1>0, <2>1, <3>1 DEF SendBufInv
  <2>3. ASSUME NEW j \in 0 .. (i - 1) PROVE HeadSlot(j) # HeadSlot(i)
    <3>1. /\ j \in 0 .. (length - 1) /\ acked + j \in Int /\ acked + i \in Int
          /\ acked + j < acked + i /\ acked + i < (acked + j) + MAXMESSAGE
      BY <1>0, <1>4 DEF Sizes
    <3>2. Slot(acked + j) # Slot(acked + i) BY <1>0, <3>1, SlotUnique DEF Sizes
    <3> QED BY <2>1, <3>1, <3>2
  <2> QED BY <2>1, <2>2, <2>3 DEF Stuck
<1>9. g = length
  <2>1. SUFFICES ASSUME g # length PROVE FALSE OBVIOUS
  <2>2. g \in 0 .. (length - 1) BY <1>4, <1>5, <2>1
  <2> QED BY <1>5, <1>8, <2>1, <2>2
<1>10. /\ acked' = n + 1 /\ swndSize' = packet.win
       /\ sendFilled' = accepted - (n + 1)
       /\ swndHead' = Wire(n + 1) /\ swndHead' \in SeqNumbers
  <2>1. acked + g = n + 1 /\ acked \in Int /\ g \in Int /\ n + 1 \in Int
    BY <1>0, <1>4, <1>9, <1>2 DEF Sizes
  <2>2. swndHead' = Wire(acked + g) BY <1>0, <1>5, <2>1, WireFacts DEF PositionsInv
  <2>3. sendFilled' = accepted - (n + 1)
    BY <1>0, <1>5, <2>1 DEF PositionsInv, Sizes
  <2> QED BY <1>5, <1>9, <2>1, <2>2, <2>3, WireFacts
<1>11. hung' = FALSE
  <2>1. (g # length) = FALSE BY <1>9
  <2>2. hung' = (g # length) BY <1>5
  <2> QED BY <2>1, <2>2, Zenon
<1>12. ASSUME NEW s \in Slots
       PROVE  /\ sendBuf'[s] = Free \/ sendBuf'[s] = sendBuf[s]
              /\ sendBuf'[s] # sendBuf[s] =>
                    \E i \in 0 .. (length - 1) : Slot(acked + i) = s
              /\ \A i \in 0 .. (length - 1) : Slot(acked + i) = s => sendBuf'[s] = Free
  BY <1>5, <1>8, <1>9
<1>13. SendBufInv'
  <2>1. ASSUME NEW m \in (n + 1) .. (accepted - 1) PROVE sendBuf'[Slot(m)] = m
    <3>0. m \in Int /\ acked <= m /\ n < m /\ m < accepted BY <1>0, <1>2 DEF Sizes
    <3>1. Slot(m) \in Slots BY <3>0, SlotFacts
    <3>2. ASSUME NEW i \in 0 .. (length - 1) PROVE Slot(acked + i) # Slot(m)
      <4>1. acked + i \in Int /\ acked + i < m /\ m < (acked + i) + MAXMESSAGE
        BY <1>0, <1>2, <1>4, <3>0 DEF Sizes, OrderInv
      <4> QED BY <1>0, <3>0, <4>1, SlotUnique DEF Sizes
    <3>3. sendBuf[Slot(m)] = m BY <1>0, <3>0 DEF SendBufInv, Sizes
    <3> QED BY <1>12, <3>1, <3>2, <3>3
  <2>2. ASSUME NEW s \in Slots, sendBuf'[s] # Free
        PROVE  sendBuf'[s] \in (n + 1) .. (accepted - 1) /\ Slot(sendBuf'[s]) = s
    <3>1. PICK m : m = sendBuf[s] OBVIOUS
    <3>2. sendBuf'[s] = m /\ m # Free BY <1>12, <2>2, <3>1
    <3>3. m \in acked .. (accepted - 1) /\ Slot(m) = s BY <1>0, <3>1, <3>2 DEF SendBufInv
    <3>4. m > n
      <4>1. SUFFICES ASSUME m <= n PROVE FALSE BY <1>0, <1>2, <3>3 DEF Sizes
      <4>2. PICK i \in Int : i = m - acked BY <1>0, <3>3 DEF Sizes
      <4>3. i \in 0 .. (length - 1) /\ acked + i = m
        BY <1>0, <1>2, <1>4, <3>3, <4>1, <4>2 DEF Sizes
      <4>4. sendBuf'[s] = Free BY <1>12, <3>3, <4>3
      <4> QED BY <2>2, <4>4
    <3> QED BY <1>0, <1>2, <3>2, <3>3, <3>4 DEF Sizes
  <2> QED BY <1>6, <1>10, <2>1, <2>2 DEF SendBufInv
<1>14. TypeOK'
  <2>1. sendBuf' \in [Slots -> {Free} \cup Nat]
    <3>1. sendBuf \in [Slots -> {Free} \cup Nat] BY <1>0 DEF TypeOK
    <3> QED BY <1>5, <3>1
  <2>2. sendFilled' \in 0 .. MAXMESSAGE
    BY <1>0, <1>2, <1>10 DEF Sizes, OrderInv
  <2>3. acked' \in Nat /\ swndSize' \in 0 .. MAXMESSAGE BY <1>2, <1>10
  <2> QED BY <1>0, <1>1, <1>6, <1>10, <1>11, <2>1, <2>2, <2>3 DEF TypeOK
<1>15. PositionsInv' BY <1>0, <1>6, <1>7, <1>10 DEF PositionsInv
<1>16. OrderInv' BY <1>0, <1>2, <1>6, <1>7, <1>10 DEF Sizes, OrderInv
<1>17. RecvBufInv' BY <1>6, <1>7 DEF Inv, RecvBufInv
<1>18. RecordsInv'
  <2>1. CASE sent = <<>>
    <3>1. Wire(acked) = Wire(sentUpTo) /\ acked = sentUpTo
      BY <1>0, <2>1, WireUnique DEF RecordsInv, OutstandingIsRecorded, PositionsInv,
                                    Sizes, OrderInv
    <3> QED BY <1>0, <1>2, <3>1 DEF Sizes
  <2>2. CASE sent # <<>>
    BY <1>0, <1>6, <2>2 DEF RecordsInv, OutstandingIsRecorded
  <2> QED BY <2>1, <2>2
<1>19. NetInv' BY <1>0, <1>1, <1>6, <1>7 DEF NetInv
<1>20. InOrderAfterFirst' /\ ~nospace' /\ ~hung' BY <1>6, <1>11 DEF Inv, InOrderAfterFirst
<1> QED
  BY <1>13, <1>14, <1>15, <1>16, <1>17, <1>18, <1>19, <1>20 DEF Inv

-----------------------------------------------------------------------------
(* The S thread.                                                           *)

\* The loop over new data stops at accepted, and within what the receiver allows.
LEMMA JoiningFacts ==
    ASSUME Inv, SlotsAgree, NEW k \in 0 .. MAXMESSAGE, Joining(k)
    PROVE  /\ sentUpTo + k <= accepted
           /\ sentUpTo + k <= Read + MAXMESSAGE
           /\ (swndTail + k) % SEQNUM = Wire(sentUpTo + k)
<1>0. Sizes /\ TypeOK /\ PositionsInv /\ SendBufInv BY Numbers DEF Inv
<1>1. ASSUME NEW i \in 0 .. MAXMESSAGE
      PROVE  /\ (swndTail + i) % SEQNUM = Wire(sentUpTo + i)
             /\ sentUpTo + i < acked + SEQNUM =>
                   wndwsize(swndHead, (swndTail + i) % SEQNUM) = sentUpTo + i - acked
  <2>1. PICK m \in Int : m = sentUpTo + i /\ sentUpTo \in Int /\ i \in Int
    BY <1>0 DEF Sizes
  <2>2. (swndTail + i) % SEQNUM = Wire(m) BY <1>0, <2>1, WireFacts DEF PositionsInv
  <2>3. ASSUME m < acked + SEQNUM PROVE wndwsize(swndHead, Wire(m)) = m - acked
    <3>1. acked <= m BY <1>0, <2>1 DEF Sizes, OrderInv
    <3>2. wndwsize(Wire(acked), Wire(m)) = m - acked
      BY <1>0, <2>1, <2>3, <3>1, WindowSize DEF Sizes
    <3> QED BY <1>0, <3>2 DEF PositionsInv
  <2>4. m < acked + SEQNUM => wndwsize(swndHead, (swndTail + i) % SEQNUM) = m - acked
    BY <2>2, <2>3
  <2> QED BY <1>0, <2>1, <2>2, <2>4 DEF Sizes
<1>2. sentUpTo + k <= accepted
  <2>1. SUFFICES ASSUME accepted < sentUpTo + k PROVE FALSE BY <1>0 DEF Sizes
  <2>2. PICK i \in 0 .. MAXMESSAGE : i = accepted - sentUpTo /\ i \in 0 .. (k - 1)
    BY <1>0, <2>1 DEF Sizes, OrderInv
  <2>3. CanJoin(i) BY <2>2 DEF Joining
  <2>4. sentUpTo + i = accepted BY <1>0, <2>2 DEF Sizes
  <2>5. /\ sendBuf[Slot(accepted)] # Free
        /\ accepted - acked < swndSize
    <3>1. (swndTail + i) % SEQNUM = Wire(accepted) BY <1>1, <2>4
    <3>2. wndwsize(swndHead, (swndTail + i) % SEQNUM) = accepted - acked
      BY <1>0, <1>1, <2>4 DEF Sizes, OrderInv
    <3>3. BufferIndex(Wire(accepted)) = Slot(accepted) BY <1>0 DEF SlotsAgree, Sizes
    <3> QED BY <2>3, <3>1, <3>2, <3>3 DEF CanJoin
  <2>6. PICK m : m = sendBuf[Slot(accepted)] OBVIOUS
  <2>7. Slot(accepted) \in Slots BY <1>0, SlotFacts DEF Sizes
  <2>8. m \in acked .. (accepted - 1) /\ Slot(m) = Slot(accepted)
    BY <1>0, <2>5, <2>6, <2>7 DEF SendBufInv
  <2>9. m \in Int /\ accepted \in Int /\ m < accepted /\ accepted < m + MAXMESSAGE
    BY <1>0, <2>5, <2>8 DEF Sizes
  <2>10. m < accepted + MAXMESSAGE BY <1>0, <2>9 DEF Sizes
  <2>11. m = accepted BY <2>8, <2>9, <2>10, SlotUnique
  <2> QED BY <2>9, <2>11
<1>3. sentUpTo + k <= Read + MAXMESSAGE
  <2>1. CASE k = 0 BY <1>0, <2>1 DEF Sizes, OrderInv
  <2>2. CASE k # 0
    <3>1. PICK i \in 0 .. MAXMESSAGE : i = k - 1 /\ i \in 0 .. (k - 1)
      BY <1>0, <2>2 DEF Sizes
    <3>2. CanJoin(i) BY <3>1 DEF Joining
    <3>3. wndwsize(swndHead, (swndTail + i) % SEQNUM) = sentUpTo + i - acked
      BY <1>0, <1>1, <1>2, <3>1 DEF Sizes, OrderInv
    <3>4. sentUpTo + i - acked < swndSize BY <3>2, <3>3 DEF CanJoin
    <3> QED BY <1>0, <3>1, <3>4 DEF Sizes, OrderInv
  <2> QED BY <2>1, <2>2
<1> QED BY <1>1, <1>2, <1>3

\* A segment that begins at an unacknowledged message carries that message and
\* the ones after it, each with its own sequence number and content.
LEMMA SegmentFacts ==
    ASSUME Inv, SlotsAgree, NEW k \in 0 .. MAXMESSAGE, Joining(k),
           NEW b \in Int, acked <= b, b <= sentUpTo
    PROVE  \A packet \in Segment(Wire(b), k) :
              /\ packet \in [n : Nat, seq : SeqNumbers, data : {Zeros} \cup Nat]
              /\ packet.n < sentUpTo + k
              /\ packet.seq = Wire(packet.n)
              /\ packet.data = packet.n
<1>0. Sizes /\ TypeOK /\ SendBufInv BY Numbers DEF Inv
<1>1. PICK t \in Int : t = sentUpTo + k BY <1>0 DEF Sizes
<1>2. t <= accepted /\ (swndTail + k) % SEQNUM = Wire(t) BY <1>1, JoiningFacts
<1>3. wndwsize(Wire(b), Wire(t)) = t - b
  <2>1. b <= t /\ t < b + SEQNUM BY <1>0, <1>1, <1>2 DEF Sizes, OrderInv
  <2> QED BY <1>1, <2>1, WindowSize
<1>4. ASSUME NEW packet \in Segment(Wire(b), k)
      PROVE  /\ packet \in [n : Nat, seq : SeqNumbers, data : {Zeros} \cup Nat]
             /\ packet.n < t /\ packet.seq = Wire(packet.n) /\ packet.data = packet.n
  <2>1. PICK length : length = wndwsize(Wire(b), (swndTail + k) % SEQNUM) OBVIOUS
  <2>2. PICK i \in 0 .. (length - 1) :
           packet = createDATApacket(sentUpTo + k - length + i, (Wire(b) + i) % SEQNUM,
                                     Content(BufferIndex((Wire(b) + i) % SEQNUM)))
    BY <2>1 DEF Segment
  <2>3. length = t - b BY <1>2, <1>3, <2>1
  <2>4. PICK n \in Int : n = b + i /\ i \in Int BY <1>1, <2>2, <2>3
  <2>5. /\ n \in acked .. (accepted - 1) /\ n \in Nat /\ n < t /\ n \in 0 .. FileLength
         /\ sentUpTo + k - length + i = n
    BY <1>0, <1>1, <1>2, <2>2, <2>3, <2>4 DEF Sizes
  <2>6. (Wire(b) + i) % SEQNUM = Wire(n) BY <1>1, <2>4, WireFacts
  <2>7. BufferIndex(Wire(n)) = Slot(n) BY <2>5 DEF SlotsAgree
  <2>8. Content(Slot(n)) = n BY <1>0, <2>5 DEF SendBufInv, Content, Free
  <2>9. packet = [n |-> n, seq |-> Wire(n), data |-> n]
    BY <2>2, <2>5, <2>6, <2>7, <2>8 DEF createDATApacket
  <2>10. Wire(n) \in SeqNumbers BY WireFacts
  <2> QED BY <2>5, <2>9, <2>10
<1> QED BY <1>1, <1>4

LEMMA TailOfTwo ==
    ASSUME NEW s \in Seq(SeqNumbers), Len(s) = 2
    PROVE  Tail(s) \in Seq(SeqNumbers) /\ Len(Tail(s)) = 1 /\ Tail(s)[1] = s[2]
<1>1. s # <<>> OBVIOUS
<1>2. Tail(s) \in Seq(SeqNumbers) /\ Len(Tail(s)) = Len(s) - 1 BY <1>1, HeadTailProperties
<1>3. \A i \in 1 .. Len(Tail(s)) : Tail(s)[i] = s[i + 1] BY <1>1, HeadTailProperties
<1>4. Len(Tail(s)) = 1 BY <1>2
<1>5. Tail(s)[1] = s[2] BY <1>3, <1>4
<1> QED BY <1>2, <1>4, <1>5

\* What check_retransmission leaves: nothing only when nothing is outstanding,
\* else records that begin no further back than swnd.head and reach to swnd.tail.
LEMMA RecordsFacts ==
    ASSUME Inv, NEW elapsed \in BOOLEAN, NEW records,
           records = check_retransmission(elapsed)
    PROVE  /\ records.sent \in Seq(SeqNumbers) /\ Len(records.sent) <= 2
           /\ records.sent = <<>> => acked = sentUpTo
           /\ records.sent # <<>> =>
                 /\ records.sent[Len(records.sent)] = swndTail
                 /\ \E u \in acked .. sentUpTo : records.sent[1] = Wire(u)
<1>0. Sizes /\ TypeOK /\ PositionsInv /\ RecordsInv BY Numbers DEF Inv
<1>1. sent \in Seq(SeqNumbers) /\ Len(sent) <= 2 /\ Len(sent) \in Nat BY <1>0 DEF TypeOK
<1>2. CASE sent = <<>>
  <2>1. records.sent = <<>> BY <1>2 DEF check_retransmission
  <2>2. Wire(acked) = Wire(sentUpTo)
    BY <1>0, <1>2 DEF RecordsInv, OutstandingIsRecorded, PositionsInv
  <2>3. acked = sentUpTo BY <1>0, <2>2, WireUnique DEF Sizes, OrderInv
  <2> QED BY <2>1, <2>3
<1>3. CASE sent # <<>>
  <2>1. PICK u \in 0 .. sentUpTo : sent[1] = Wire(u) /\ sentUpTo <= u + MAXMESSAGE
    BY <1>0, <1>3 DEF RecordsInv
  <2>2. swndTail = Wire(sentUpTo) /\ sent[Len(sent)] = swndTail /\ swndTail \in SeqNumbers
    BY <1>0, <1>3 DEF RecordsInv, OutstandingIsRecorded, PositionsInv, TypeOK
  <2>3. inwndw(LastSent, swndHead, swndTail) <=> acked <= u - 1 /\ u - 1 < sentUpTo
    <3>1. PICK x \in Int : x = u - 1 /\ u \in Int BY <1>0, <2>1 DEF Sizes
    <3>2. LastSent = Wire(x) BY <2>1, <3>1, WireFacts DEF LastSent
    <3>3. /\ acked \in Int /\ sentUpTo \in Int /\ acked <= sentUpTo
          /\ sentUpTo < acked + SEQNUM
          /\ sentUpTo - SEQNUM <= x /\ x < acked + SEQNUM
      BY <1>0, <2>1, <3>1 DEF Sizes, OrderInv
    <3>4. inwndw(Wire(x), Wire(acked), Wire(sentUpTo)) <=> acked <= x /\ x < sentUpTo
      BY <3>1, <3>3, InWindow
    <3>5. inwndw(LastSent, swndHead, swndTail) <=> acked <= x /\ x < sentUpTo
      BY <1>0, <3>2, <3>4 DEF PositionsInv
    <3> QED BY <3>1, <3>5
  <2>4. CASE ~inwndw(LastSent, swndHead, swndTail)
    <3>0. records.sent = Tail(sent) BY <1>3, <2>4 DEF check_retransmission
    <3>1. CASE Len(sent) = 1
      <4>1. records.sent = <<>> BY <1>1, <3>0, <3>1
      <4>2. Wire(u) = Wire(sentUpTo) BY <2>1, <2>2, <3>1
      <4>3. u = sentUpTo BY <1>0, <2>1, <4>2, WireUnique DEF Sizes
      <4> QED BY <1>0, <2>3, <2>4, <4>1, <4>3 DEF Sizes, OrderInv
    <3>2. CASE Len(sent) = 2
      <4>1. /\ Tail(sent) \in Seq(SeqNumbers) /\ Len(Tail(sent)) = 1
            /\ Tail(sent)[1] = sent[2]
        BY <1>1, <3>2, TailOfTwo
      <4>2. Tail(sent)[1] = swndTail /\ Tail(sent) # <<>>
        <5>1. Len(Tail(sent)) # 0 BY <4>1
        <5>2. Tail(sent) # <<>> BY <5>1, EmptySeq, Zenon
        <5>3. sent[2] = swndTail BY <2>2, <3>2, Zenon
        <5> QED BY <4>1, <5>2, <5>3, Zenon
      <4>3. sentUpTo \in acked .. sentUpTo BY <1>0 DEF Sizes, OrderInv
      <4> QED BY <2>2, <3>0, <4>1, <4>2, <4>3
    <3>3. Len(sent) = 1 \/ Len(sent) = 2
      <4>1. PICK l : l = Len(sent) OBVIOUS
      <4>2. l \in Nat \ {0} BY <1>1, <1>3, <4>1, EmptySeq, Zenon
      <4>3. l <= 2 BY <1>1, <4>1
      <4>4. l = 1 \/ l = 2 BY <4>2, <4>3
      <4> QED BY <4>1, <4>4
    <3> QED BY <3>1, <3>2, <3>3
  <2>5. CASE inwndw(LastSent, swndHead, swndTail) /\ elapsed
    <3>1. records.sent = <<swndTail>> BY <1>3, <2>2, <2>5 DEF check_retransmission
    <3>2. sentUpTo \in acked .. sentUpTo BY <1>0 DEF Sizes, OrderInv
    <3> QED BY <2>2, <3>1, <3>2
  <2>6. CASE inwndw(LastSent, swndHead, swndTail) /\ ~elapsed
    <3>1. records.sent = sent BY <1>3, <2>6 DEF check_retransmission
    <3>2. u \in acked .. sentUpTo BY <1>0, <2>1, <2>3, <2>6 DEF Sizes
    <3> QED BY <1>1, <1>3, <2>1, <2>2, <3>1, <3>2
  <2> QED BY <2>4, <2>5, <2>6
<1> QED BY <1>2, <1>3

\* The steps of the S thread share all but the new records and datagrams.
LEMMA SThreadStepInv ==
    ASSUME Inv, SlotsAgree, NEW k \in 0 .. MAXMESSAGE, Joining(k),
           NEW b \in acked .. sentUpTo, NEW u \in acked .. (sentUpTo + k),
           dataNet' \subseteq dataNet \cup Segment(Wire(b), k),
           sentUpTo' = sentUpTo + k, swndTail' = (swndTail + k) % SEQNUM,
           sent' \in Seq(SeqNumbers), Len(sent') <= 2, sent' # <<>>,
           sent'[1] = Wire(u), sent'[Len(sent')] = swndTail',
           UNCHANGED <<sendBufVars, swndHead, swndSize, accepted, acked,
                       receiverVars, ackNet, hung>>
    PROVE  Inv'
<1>0. Sizes /\ TypeOK /\ PositionsInv /\ NetInv BY Numbers DEF Inv
<1>1. /\ UNCHANGED <<sendBuf, sendIter, sendFilled, swndHead, swndSize>>
      /\ UNCHANGED <<accepted, acked, recvBuf, recvIter, recvFilled>>
      /\ UNCHANGED <<rwndHead, rwndTail, lastAcked, nospace, arrived, delivered>>
      /\ UNCHANGED <<ackNet, hung>>
  BY DEF sendBufVars, receiverVars, recvBufVars, rwndVars
<1>2. Read' = Read BY <1>1 DEF Read
<1>3. PICK t \in Nat : t = sentUpTo + k BY <1>0 DEF Sizes
<1>4. /\ sentUpTo' = t /\ sentUpTo <= t /\ t <= accepted /\ t <= Read + MAXMESSAGE
      /\ swndTail' = Wire(t) /\ swndTail' \in SeqNumbers
  BY <1>0, <1>3, JoiningFacts, WireFacts DEF Sizes
<1>5. ASSUME NEW packet \in dataNet'
      PROVE  /\ packet \in [n : Nat, seq : SeqNumbers, data : {Zeros} \cup Nat]
             /\ packet.n < t /\ packet.seq = Wire(packet.n) /\ packet.data = packet.n
  <2>1. CASE packet \in Segment(Wire(b), k)
    <3>1. b \in Int /\ acked <= b /\ b <= sentUpTo BY <1>0 DEF Sizes
    <3> QED BY <1>3, <2>1, <3>1, SegmentFacts
  <2>2. CASE packet \in dataNet
    <3>1. /\ packet \in [n : Nat, seq : SeqNumbers, data : {Zeros} \cup Nat]
          /\ packet.n < sentUpTo /\ packet.seq = Wire(packet.n) /\ packet.data = packet.n
      BY <1>0, <2>2 DEF TypeOK, NetInv
    <3>2. packet.n \in Nat BY <3>1
    <3> QED BY <1>0, <1>4, <3>1, <3>2 DEF Sizes
  <2> QED BY <2>1, <2>2
<1>6. TypeOK'
  <2>1. dataNet' \subseteq [n : Nat, seq : SeqNumbers, data : {Zeros} \cup Nat] BY <1>5
  <2> QED BY <1>0, <1>1, <1>4, <2>1 DEF TypeOK
<1>7. PositionsInv' BY <1>0, <1>1, <1>2, <1>4 DEF PositionsInv
<1>8. OrderInv' BY <1>0, <1>1, <1>2, <1>4 DEF Sizes, OrderInv
<1>9. SendBufInv' BY <1>1 DEF Inv, SendBufInv
<1>10. RecvBufInv'
  <2>1. ASSUME NEW s \in Slots, recvBuf[s] # Free
        PROVE  /\ recvBuf[s] \in (Read + 1) .. (t - 1)
               /\ recvBuf[s] # arrived + 1 /\ Slot(recvBuf[s] - 1) = s
    <3>1. /\ recvBuf[s] \in (Read + 1) .. (sentUpTo - 1)
          /\ recvBuf[s] # arrived + 1 /\ Slot(recvBuf[s] - 1) = s
      BY <2>1 DEF Inv, RecvBufInv
    <3> QED BY <1>0, <1>4, <3>1 DEF Sizes
  <2>2. \A n \in Read .. (arrived - 1) : recvBuf[Slot(n)] = n + 1 BY DEF Inv, RecvBufInv
  <2> QED BY <1>1, <1>2, <1>4, <2>1, <2>2 DEF RecvBufInv
<1>11. RecordsInv'
  <2>1. u \in 0 .. t /\ t <= u + MAXMESSAGE BY <1>0, <1>3, <1>4 DEF Sizes, OrderInv
  <2> QED BY <1>4, <2>1 DEF RecordsInv, OutstandingIsRecorded
<1>12. NetInv' BY <1>0, <1>1, <1>2, <1>4, <1>5 DEF NetInv
<1>13. InOrderAfterFirst' /\ ~nospace' /\ ~hung' BY <1>1 DEF Inv, InOrderAfterFirst
<1> QED BY <1>6, <1>7, <1>8, <1>9, <1>10, <1>11, <1>12, <1>13 DEF Inv

LEMMA SThreadInv ==
    ASSUME Inv, SlotsAgree, NEW elapsed \in BOOLEAN, SThread(elapsed) PROVE Inv'
<1>0. Sizes /\ TypeOK /\ PositionsInv BY Numbers DEF Inv
<1>1. PICK records : records = check_retransmission(elapsed) OBVIOUS
<1>2. PICK k \in 0 .. MAXMESSAGE :
        /\ Joining(k)
        /\ swndTail' = (swndTail + k) % SEQNUM
        /\ sentUpTo' = sentUpTo + k
        /\ \/ /\ k = 0 /\ ~records.again
              /\ sent' = records.sent
              /\ UNCHANGED dataNet
           \/ /\ records.again \/ (k > 0 /\ records.sent = <<>>)
              /\ sent' = <<swndTail'>>
              /\ dataNet' = dataNet \cup Segment(swndHead, k)
           \/ /\ k > 0 /\ ~records.again /\ records.sent # <<>>
              /\ sent' = <<records.sent[1], swndTail'>>
              /\ dataNet' = dataNet \cup Segment(records.sent[1], k)
  BY <1>1 DEF SThread
<1>3. UNCHANGED <<sendBufVars, swndHead, swndSize, accepted, acked,
                  receiverVars, ackNet, hung>>
  BY DEF SThread
<1>4. /\ records.sent \in Seq(SeqNumbers) /\ Len(records.sent) <= 2
      /\ records.sent = <<>> => acked = sentUpTo
      /\ records.sent # <<>> =>
            /\ records.sent[Len(records.sent)] = swndTail
            /\ \E u \in acked .. sentUpTo : records.sent[1] = Wire(u)
  BY <1>1, RecordsFacts
<1>5. swndHead = Wire(acked) /\ acked \in acked .. sentUpTo
  BY <1>0 DEF PositionsInv, Sizes, OrderInv
<1>6. /\ swndTail' = Wire(sentUpTo + k) /\ swndTail' \in SeqNumbers
      /\ sentUpTo + k \in acked .. (sentUpTo + k)
  <2>1. sentUpTo + k \in Int BY <1>0 DEF Sizes
  <2>2. swndTail' = Wire(sentUpTo + k) BY <1>2, JoiningFacts
  <2> QED BY <1>0, <2>1, <2>2, WireFacts DEF Sizes, OrderInv
<1>7. CASE k = 0 /\ ~records.again /\ sent' = records.sent /\ UNCHANGED dataNet
  <2>1. swndTail' = swndTail /\ sentUpTo' = sentUpTo
    <3>1. sentUpTo + k = sentUpTo BY <1>0, <1>7 DEF Sizes
    <3> QED BY <1>0, <1>2, <1>6, <3>1 DEF PositionsInv
  <2>2. CASE records.sent = <<>>
    <3>1. swndHead = swndTail BY <1>0, <1>4, <2>2 DEF PositionsInv
    <3>2. /\ sent' = <<>> /\ dataNet' = dataNet /\ swndHead' = swndTail'
          /\ UNCHANGED <<sendBuf, sendIter, sendFilled, swndHead, swndTail, swndSize>>
          /\ UNCHANGED <<accepted, acked, sentUpTo, recvBuf, recvIter, recvFilled>>
          /\ UNCHANGED <<rwndHead, rwndTail, lastAcked, nospace, arrived, delivered>>
          /\ UNCHANGED <<ackNet, hung>>
      BY <1>3, <1>7, <2>1, <2>2, <3>1
         DEF sendBufVars, receiverVars, recvBufVars, rwndVars
    <3>3. Read' = Read BY <3>2 DEF Read
    <3>4. TypeOK'
      <4>1. sent' \in Seq(SeqNumbers) /\ Len(sent') <= 2 BY <1>4, <1>7
      <4> QED BY <1>0, <3>2, <4>1 DEF TypeOK
    <3>5. RecordsInv' BY <3>2 DEF RecordsInv, OutstandingIsRecorded
    <3>6. PositionsInv' /\ OrderInv' /\ SendBufInv' /\ RecvBufInv' /\ NetInv'
      BY <3>2, <3>3 DEF Inv, PositionsInv, OrderInv, SendBufInv, RecvBufInv, NetInv
    <3>7. InOrderAfterFirst' /\ ~nospace' /\ ~hung' BY <3>2 DEF Inv, InOrderAfterFirst
    <3> QED BY <3>4, <3>5, <3>6, <3>7 DEF Inv
  <2>3. CASE records.sent # <<>>
    <3>1. PICK u \in acked .. sentUpTo : records.sent[1] = Wire(u) BY <1>4, <2>3
    <3>2. u \in acked .. (sentUpTo + k) BY <1>0, <1>7 DEF Sizes
    <3>3. dataNet' \subseteq dataNet \cup Segment(Wire(acked), k) BY <1>7
    <3>4. /\ sent' \in Seq(SeqNumbers) /\ Len(sent') <= 2 /\ sent' # <<>>
          /\ sent'[1] = Wire(u) /\ sent'[Len(sent')] = swndTail'
      BY <1>4, <1>7, <2>1, <2>3, <3>1
    <3> QED BY <1>2, <1>3, <1>5, <3>2, <3>3, <3>4, SThreadStepInv
  <2> QED BY <2>2, <2>3
<1>8. CASE /\ records.again \/ (k > 0 /\ records.sent = <<>>)
           /\ sent' = <<swndTail'>>
           /\ dataNet' = dataNet \cup Segment(swndHead, k)
  <2>1. dataNet' \subseteq dataNet \cup Segment(Wire(acked), k) BY <1>5, <1>8
  <2>2. PICK tail \in SeqNumbers : tail = swndTail' BY <1>6
  <2>3. sent' = <<tail>> BY <1>8, <2>2
  <2>4. /\ sent' \in Seq(SeqNumbers) /\ Len(sent') <= 2 /\ sent' # <<>>
        /\ sent'[1] = Wire(sentUpTo + k) /\ sent'[Len(sent')] = swndTail'
    BY <1>6, <2>2, <2>3
  <2> QED BY <1>2, <1>3, <1>5, <1>6, <2>1, <2>4, SThreadStepInv
<1>9. CASE /\ k > 0 /\ ~records.again /\ records.sent # <<>>
           /\ sent' = <<records.sent[1], swndTail'>>
           /\ dataNet' = dataNet \cup Segment(records.sent[1], k)
  <2>1. PICK u \in acked .. sentUpTo : records.sent[1] = Wire(u) BY <1>4, <1>9
  <2>2. u \in acked .. (sentUpTo + k) /\ u \in Int BY <1>0 DEF Sizes
  <2>3. dataNet' \subseteq dataNet \cup Segment(Wire(u), k) BY <1>9, <2>1
  <2>4. PICK tail \in SeqNumbers : tail = swndTail' BY <1>6
  <2>5. PICK first \in SeqNumbers : first = Wire(u) BY <2>2, WireFacts
  <2>6. sent' = <<first, tail>> BY <1>9, <2>1, <2>4, <2>5
  <2>7. /\ sent' \in Seq(SeqNumbers) /\ Len(sent') <= 2 /\ sent' # <<>>
        /\ sent'[1] = Wire(u) /\ sent'[Len(sent')] = swndTail'
    BY <2>4, <2>5, <2>6
  <2> QED BY <1>2, <1>3, <2>1, <2>2, <2>3, <2>7, SThreadStepInv
<1> QED BY <1>2, <1>7, <1>8, <1>9

-----------------------------------------------------------------------------
(* What holds for every file, whether or not the slots agree.              *)

\* One slot more, or one less, of a buffer.
LEMMA OneSlot ==
    ASSUME NEW buf \in [Slots -> {Free, Zeros} \cup Nat], NEW s \in Slots,
           NEW value \in {Free, Zeros} \cup Nat, (buf[s] = Free) # (value = Free)
    PROVE  /\ IsFiniteSet(NonEmpty(buf))
           /\ Cardinality(NonEmpty(buf)) \in Nat
           /\ Cardinality(NonEmpty([buf EXCEPT ![s] = value])) =
                 Cardinality(NonEmpty(buf)) + IF value = Free THEN -1 ELSE 1
<1>1. IsFiniteSet(Slots)
  <2>1. MAXMESSAGE - 1 \in Int BY WindowAssumption
  <2> QED BY <2>1, FS_Interval DEF Slots
<1>2. NonEmpty(buf) \in SUBSET Slots BY DEF NonEmpty
<1>3. IsFiniteSet(NonEmpty(buf)) BY <1>1, <1>2, FS_Subset
<1>4. Cardinality(NonEmpty(buf)) \in Nat BY <1>3, FS_CardinalityType
<1>5. CASE value = Free
  <2>1. NonEmpty([buf EXCEPT ![s] = value]) = NonEmpty(buf) \ {s} /\ s \in NonEmpty(buf)
    BY <1>5 DEF NonEmpty
  <2>2. Cardinality(NonEmpty(buf) \ {s}) = Cardinality(NonEmpty(buf)) - 1
    BY <1>3, <2>1, FS_RemoveElement
  <2> QED BY <1>3, <1>4, <1>5, <2>1, <2>2
<1>6. CASE value # Free
  <2>1. NonEmpty([buf EXCEPT ![s] = value]) = NonEmpty(buf) \cup {s} /\ s \notin NonEmpty(buf)
    BY <1>6 DEF NonEmpty
  <2>2. Cardinality(NonEmpty(buf) \cup {s}) = Cardinality(NonEmpty(buf)) + 1
    BY <1>3, <2>1, FS_AddElement
  <2> QED BY <1>3, <1>4, <1>6, <2>1, <2>2
<1> QED BY <1>5, <1>6

\* A remainder of a sequence number is a slot.
LEMMA IndexIsSlot == ASSUME NEW seq \in Int PROVE BufferIndex(seq) \in Slots
<1>1. MAXMESSAGE \in Nat \ {0} BY WindowAssumption
<1> QED BY <1>1, DivMod DEF BufferIndex, Slots

LEMMA NumberIsWire == ASSUME NEW n \in Int PROVE n % SEQNUM \in SeqNumbers
BY WireFacts DEF Wire

\* A window that has an end has its last number in it.
LEMMA LastIsInside ==
    ASSUME NEW head \in SeqNumbers, NEW tail \in SeqNumbers, head # tail
    PROVE  inwndw(SeqPred(tail), head, tail)
<1>1. SEQNUM \in Nat /\ 1 < SEQNUM BY WindowAssumption
<1>2. head \in Int /\ tail \in Int /\ 0 <= head /\ 0 <= tail /\ head < SEQNUM /\ tail < SEQNUM
  BY <1>1 DEF SeqNumbers
<1>3. CASE tail = 0
  <2>1. (SEQNUM * 0 + (SEQNUM - 1)) % SEQNUM = SEQNUM - 1 BY <1>1, Remainder
  <2>2. SeqPred(tail) = SEQNUM - 1 BY <1>1, <1>3, <2>1 DEF SeqPred
  <2> QED BY <1>1, <1>2, <1>3, <2>2 DEF inwndw, SeqNumbers
<1>4. CASE tail # 0
  <2>1. tail - 1 \in 0 .. (SEQNUM - 1) BY <1>1, <1>2, <1>4
  <2>2. (SEQNUM * 1 + (tail - 1)) % SEQNUM = tail - 1 BY <1>1, <2>1, Remainder
  <2>3. SeqPred(tail) = tail - 1
    <3>1. tail - 1 + SEQNUM = SEQNUM * 1 + (tail - 1) BY <1>1, <1>2
    <3> QED BY <2>2, <3>1 DEF SeqPred
  <2> QED BY <1>1, <1>2, <1>4, <2>3 DEF inwndw, SeqNumbers
<1> QED BY <1>3, <1>4

\* What check_retransmission leaves is empty only when the window is, and else
\* still reaches to swnd.tail.
LEMMA LapRecords ==
    ASSUME LapSender, NEW elapsed, NEW records, records = check_retransmission(elapsed)
    PROVE  /\ records.sent \in Seq(SeqNumbers) /\ Len(records.sent) <= 2
           /\ records.sent = <<>> => swndHead = swndTail
           /\ records.sent # <<>> => records.sent[Len(records.sent)] = swndTail
<1>1. /\ sent \in Seq(SeqNumbers) /\ Len(sent) <= 2 /\ Len(sent) \in Nat
      /\ swndHead \in SeqNumbers /\ swndTail \in SeqNumbers
      /\ sent = <<>> => swndHead = swndTail
      /\ sent # <<>> => sent[Len(sent)] = swndTail
  BY DEF LapSender, OutstandingIsRecorded
<1>2. CASE sent = <<>>
  <2>1. records.sent = <<>> BY <1>2 DEF check_retransmission
  <2> QED BY <1>1, <1>2, <2>1
<1>3. CASE sent # <<>>
  <2>1. Len(sent) = 1 \/ Len(sent) = 2
    <3>1. PICK l : l = Len(sent) OBVIOUS
    <3>2. l \in Nat \ {0} BY <1>1, <1>3, <3>1, EmptySeq, Zenon
    <3>3. l <= 2 BY <1>1, <3>1
    <3>4. l = 1 \/ l = 2 BY <3>2, <3>3
    <3> QED BY <3>1, <3>4
  <2>2. CASE ~inwndw(LastSent, swndHead, swndTail)
    <3>0. records.sent = Tail(sent) BY <1>3, <2>2 DEF check_retransmission
    <3>1. CASE Len(sent) = 1
      <4>1. records.sent = <<>> BY <1>1, <3>0, <3>1
      <4>2. sent[1] = swndTail BY <1>1, <1>3, <3>1
      <4>3. swndHead = swndTail BY <1>1, <2>2, <4>2, LastIsInside DEF LastSent
      <4> QED BY <1>1, <4>1, <4>3
    <3>2. CASE Len(sent) = 2
      <4>1. /\ Tail(sent) \in Seq(SeqNumbers) /\ Len(Tail(sent)) = 1
            /\ Tail(sent)[1] = sent[2]
        BY <1>1, <3>2, TailOfTwo
      <4>2. Tail(sent)[1] = swndTail /\ Tail(sent) # <<>>
        <5>1. Len(Tail(sent)) # 0 BY <4>1
        <5>2. Tail(sent) # <<>> BY <5>1, EmptySeq, Zenon
        <5>3. sent[2] = swndTail BY <1>1, <1>3, <3>2, Zenon
        <5> QED BY <4>1, <5>2, <5>3, Zenon
      <4> QED BY <3>0, <4>1, <4>2
    <3> QED BY <2>1, <3>1, <3>2
  <2>3. CASE inwndw(LastSent, swndHead, swndTail) /\ elapsed
    <3>1. sent[Len(sent)] = swndTail BY <1>1, <1>3
    <3>2. records.sent = <<swndTail>> BY <1>3, <2>3, <3>1 DEF check_retransmission
    <3> QED BY <1>1, <3>2
  <2>4. CASE inwndw(LastSent, swndHead, swndTail) /\ ~elapsed
    <3>1. records.sent = sent BY <1>3, <2>4 DEF check_retransmission
    <3> QED BY <1>1, <1>3, <3>1
  <2> QED BY <2>2, <2>3, <2>4
<1> QED BY <1>2, <1>3

\* What transmit_segment sends has the number and the content of some slot.
LEMMA LapSegment ==
    ASSUME LapSender, NEW begin \in SeqNumbers, NEW k \in 0 .. MAXMESSAGE
    PROVE  \A packet \in Segment(begin, k) :
              packet.seq \in SeqNumbers /\ packet.data \in {Zeros} \cup Nat
<1>1. SEQNUM \in Nat /\ MAXMESSAGE \in Nat BY WindowAssumption
<1>2. SeqNumbers \subseteq Nat BY <1>1 DEF SeqNumbers
<1>3. ASSUME NEW seq \in SeqNumbers PROVE Content(BufferIndex(seq)) \in {Zeros} \cup Nat
  <2>1. BufferIndex(seq) \in Slots BY <1>2, IndexIsSlot
  <2> QED BY <2>1 DEF LapSender, Content
<1>4. PICK tail \in SeqNumbers : tail = (swndTail + k) % SEQNUM
  <2>1. swndTail + k \in Int BY <1>1, <1>2 DEF LapSender
  <2> QED BY <2>1, NumberIsWire
<1>5. wndwsize(begin, tail) \in Int BY <1>1, <1>2 DEF wndwsize
<1>6. ASSUME NEW i \in 0 .. (wndwsize(begin, tail) - 1) PROVE (begin + i) % SEQNUM \in SeqNumbers
  <2>1. begin + i \in Int BY <1>2, <1>5
  <2> QED BY <2>1, NumberIsWire
<1> SUFFICES ASSUME NEW packet \in Segment(begin, k)
             PROVE  packet.seq \in SeqNumbers /\ packet.data \in {Zeros} \cup Nat
  OBVIOUS
<1>7. PICK i \in 0 .. (wndwsize(begin, tail) - 1) :
        \E n : packet = createDATApacket(n, (begin + i) % SEQNUM,
                                          Content(BufferIndex((begin + i) % SEQNUM)))
  BY <1>4 DEF Segment
<1>8. /\ packet.seq = (begin + i) % SEQNUM
      /\ packet.data = Content(BufferIndex((begin + i) % SEQNUM))
  BY <1>7 DEF createDATApacket
<1> QED BY <1>3, <1>6, <1>8

LEMMA LapSThread ==
    ASSUME LapInv, NEW elapsed, SThread(elapsed) PROVE LapInv'
<1>1. PICK records : records = check_retransmission(elapsed) OBVIOUS
<1>2. PICK k \in 0 .. MAXMESSAGE :
        /\ swndTail' = (swndTail + k) % SEQNUM
        /\ \/ /\ k = 0 /\ ~records.again
              /\ sent' = records.sent
              /\ UNCHANGED dataNet
           \/ /\ records.again \/ (k > 0 /\ records.sent = <<>>)
              /\ sent' = <<swndTail'>>
              /\ dataNet' = dataNet \cup Segment(swndHead, k)
           \/ /\ k > 0 /\ ~records.again /\ records.sent # <<>>
              /\ sent' = <<records.sent[1], swndTail'>>
              /\ dataNet' = dataNet \cup Segment(records.sent[1], k)
  BY <1>1 DEF SThread
<1>3. /\ UNCHANGED <<sendBuf, accepted, swndHead, recvBuf, recvIter, recvFilled>>
      /\ UNCHANGED <<rwndHead, rwndTail, nospace, arrived, delivered>>
  BY DEF SThread, sendBufVars, receiverVars, recvBufVars, rwndVars
<1>4. /\ records.sent \in Seq(SeqNumbers) /\ Len(records.sent) <= 2
      /\ records.sent = <<>> => swndHead = swndTail
      /\ records.sent # <<>> => records.sent[Len(records.sent)] = swndTail
  BY <1>1, LapRecords DEF LapInv
<1>5. /\ sendBuf \in [Slots -> {Free} \cup Nat] /\ accepted \in Nat
      /\ swndHead \in SeqNumbers /\ swndTail \in SeqNumbers
  BY DEF LapInv, LapSender
<1>6. swndTail' \in SeqNumbers
  <2>1. swndTail + k \in Int BY <1>5, WindowAssumption DEF SeqNumbers
  <2> QED BY <1>2, <2>1, NumberIsWire
<1>7. LapReceiver' BY <1>3 DEF LapInv, LapReceiver, Read, NonEmpty
<1>8. records.sent # <<>> => records.sent[1] \in SeqNumbers
  <2>1. ASSUME records.sent # <<>> PROVE 1 \in 1 .. Len(records.sent)
    <3>1. Len(records.sent) \in Nat /\ Len(records.sent) # 0 BY <1>4, <2>1, EmptySeq, Zenon
    <3> QED BY <3>1
  <2> QED BY <1>4, <2>1
<1>9. LapData'
  <2>1. ASSUME NEW begin \in SeqNumbers, dataNet' = dataNet \cup Segment(begin, k)
        PROVE  LapData'
    BY <2>1, LapSegment DEF LapInv, LapData
  <2>2. CASE UNCHANGED dataNet BY <2>2 DEF LapInv, LapData
  <2> QED BY <1>2, <1>5, <1>8, <2>1, <2>2
<1>10. /\ sent' \in Seq(SeqNumbers) /\ Len(sent') <= 2
       /\ sent' = <<>> => swndHead = swndTail'
       /\ sent' # <<>> => sent'[Len(sent')] = swndTail'
  <2>1. CASE k = 0 /\ sent' = records.sent
    <3>1. swndTail' = swndTail
      <4>1. swndTail \in Int /\ swndTail \in 0 .. (SEQNUM - 1) /\ SEQNUM \in Nat \ {0}
        BY <1>5, WindowAssumption DEF SeqNumbers
      <4>2. (SEQNUM * 0 + swndTail) % SEQNUM = swndTail BY <4>1, Remainder
      <4>3. SEQNUM * 0 + swndTail = swndTail + k BY <2>1, <4>1
      <4> QED BY <1>2, <4>2, <4>3
    <3> QED BY <1>4, <2>1, <3>1
  <2>2. PICK tail \in SeqNumbers : tail = swndTail' BY <1>6
  <2>3. CASE sent' = <<swndTail'>>
    <3>1. sent' = <<tail>> BY <2>2, <2>3
    <3> QED BY <2>2, <3>1
  <2>4. CASE records.sent # <<>> /\ sent' = <<records.sent[1], swndTail'>>
    <3>1. PICK first \in SeqNumbers : first = records.sent[1] BY <1>8, <2>4
    <3>2. sent' = <<first, tail>> BY <2>2, <2>4, <3>1
    <3> QED BY <2>2, <3>2
  <2> QED BY <1>2, <2>1, <2>3, <2>4
<1>11. LapSender' BY <1>3, <1>5, <1>6, <1>10 DEF LapSender, OutstandingIsRecorded
<1> QED BY <1>7, <1>9, <1>11 DEF LapInv

\* The packet goes into an empty slot of the buffer.
LEMMA LapStored ==
    ASSUME LapInv, NEW packet, TakesData(packet), Fits(packet),
           recvBuf' = Stored(packet), recvFilled' = recvFilled + 1
    PROVE  /\ recvBuf' \in [Slots -> {Free, Zeros} \cup Nat]
           /\ recvFilled' = Cardinality(NonEmpty(recvBuf'))
<1> DEFINE s == BufferIndex(open_packet(packet.seq))
<1>1. /\ packet \in dataNet /\ recvBuf[s] = Free
      /\ recvBuf' = [recvBuf EXCEPT ![s] = packet.data]
      /\ recvBuf \in [Slots -> {Free, Zeros} \cup Nat]
      /\ recvFilled = Cardinality(NonEmpty(recvBuf))
  BY DEF TakesData, Fits, Stored, LapInv, LapReceiver
<1>2. packet.seq \in SeqNumbers /\ packet.data \in {Zeros} \cup Nat /\ packet.data # Free
  BY <1>1 DEF LapInv, LapData, Zeros, Free
<1>3. s \in Slots
  <2>1. packet.seq - 1 + SEQNUM \in Int BY <1>2, WindowAssumption DEF SeqNumbers
  <2>2. open_packet(packet.seq) \in SeqNumbers BY <2>1, NumberIsWire DEF open_packet
  <2>3. open_packet(packet.seq) \in Int BY <2>2, WindowAssumption DEF SeqNumbers
  <2> QED BY <2>3, IndexIsSlot
<1> HIDE DEF s
<1>4. PICK value \in {Free, Zeros} \cup Nat : value = packet.data /\ value # Free BY <1>2
<1>5. NonEmpty(recvBuf') = NonEmpty([recvBuf EXCEPT ![s] = value]) BY <1>1, <1>4 DEF NonEmpty
<1>6. Cardinality(NonEmpty([recvBuf EXCEPT ![s] = value])) = Cardinality(NonEmpty(recvBuf)) + 1
  <2>1. (recvBuf[s] = Free) # (value = Free) BY <1>1, <1>4
  <2> QED BY <1>1, <1>3, <1>4, <2>1, OneSlot
<1>7. recvFilled' = Cardinality(NonEmpty([recvBuf EXCEPT ![s] = value])) BY ONLY <1>1, <1>6, recvFilled' = recvFilled + 1
<1>8. recvFilled' = Cardinality(NonEmpty(recvBuf')) BY ONLY <1>5, <1>7, Zenon
<1>9. recvBuf' \in [Slots -> {Free, Zeros} \cup Nat] BY <1>1, <1>2
<1> QED BY <1>8, <1>9

LEMMA LapAdvance ==
    ASSUME LapReceiver, NEW buf, NEW k, Advance(buf, k)
    PROVE  k \in Nat /\ arrived + k <= Read + MAXMESSAGE
<1>1. /\ arrived \in Nat /\ Read \in Nat /\ arrived <= Read + MAXMESSAGE /\ MAXMESSAGE \in Nat
      /\ rwndHead = Wire(arrived) /\ rwndTail = Wire(Read + MAXMESSAGE)
  BY WindowAssumption DEF LapReceiver, Read
<1>2. k \in Nat BY WindowAssumption DEF Advance
<1>3. SUFFICES ASSUME Read + MAXMESSAGE < arrived + k PROVE FALSE BY <1>1, <1>2
<1>4. PICK j \in 0 .. (k - 1) : j = Read + MAXMESSAGE - arrived BY <1>1, <1>2, <1>3
<1>5. Contiguous(buf, j) BY <1>4 DEF Advance
<1>6. (rwndHead + j) % SEQNUM = rwndTail
  <2>1. arrived \in Int /\ j \in Int /\ arrived + j = Read + MAXMESSAGE BY <1>1, <1>2, <1>4
  <2>2. (Wire(arrived) + j) % SEQNUM = Wire(arrived + j) BY <2>1, WireFacts
  <2> QED BY <1>1, <2>1, <2>2
<1>7. inwndw(rwndTail, rwndHead, rwndTail) BY <1>5, <1>6 DEF Contiguous
<1>8. rwndTail \in SeqNumbers /\ rwndHead \in SeqNumbers
  <2>1. arrived \in Int /\ Read + MAXMESSAGE \in Int BY <1>1
  <2> QED BY <1>1, <2>1, WireFacts
<1> QED BY <1>7, <1>8, WindowAssumption DEF inwndw, SeqNumbers

\* The steps that leave the receiver alone, but perhaps set nospace.
LEMMA LapRest ==
    ASSUME LapInv, dataNet' \subseteq dataNet, nospace' \in BOOLEAN,
           rwndHead = rwndTail /\ nospace => nospace',
           UNCHANGED <<recvBufVars, rwndHead, rwndTail, arrived, delivered>>
    PROVE  LapReceiver' /\ LapData'
<1>1. LapData' BY DEF LapInv, LapData
<1>2. /\ UNCHANGED <<recvBuf, recvIter, recvFilled, rwndHead, rwndTail, arrived, delivered>>
      /\ Read' = Read
  BY DEF recvBufVars, Read
<1>3. LapReceiver' BY <1>2 DEF LapInv, LapReceiver, NonEmpty
<1> QED BY <1>1, <1>3

LEMMA LapReceives ==
    ASSUME LapInv, NEW packet, HandleData(packet) \/ DropData(packet)
    PROVE  LapReceiver' /\ LapData'
<1>1. dataNet' \subseteq dataNet BY TakenData DEF HandleData, DuplicateInWindow, StoreOutOfOrder,
        StoreInOrder, RefuseOnZeroWindow, AckAgain, IgnoreData, DropData
<1>2. LapReceiver /\ LapData BY DEF LapInv
<1>3. InReceiveWindow(packet) => rwndHead # rwndTail BY DEF InReceiveWindow, inwndw
<1>4. CASE DuplicateInWindow(packet)
  BY <1>1, <1>3, <1>4, LapRest DEF DuplicateInWindow
<1>5. CASE RefuseOnZeroWindow(packet) BY <1>1, <1>5, LapRest DEF RefuseOnZeroWindow
<1>6. CASE AckAgain(packet) \/ IgnoreData(packet) \/ DropData(packet)
  <2>1. UNCHANGED <<recvBufVars, rwndHead, rwndTail, arrived, delivered, nospace>>
    BY <1>6 DEF AckAgain, IgnoreData, DropData, receiverVars, rwndVars
  <2>2. LapData' BY <1>1 DEF LapInv, LapData
  <2>3. LapReceiver' BY <1>2, <2>1 DEF LapReceiver, Read, NonEmpty, recvBufVars
  <2> QED BY <2>2, <2>3
<1>7. CASE StoreOutOfOrder(packet)
  <2>1. recvBuf' \in [Slots -> {Free, Zeros} \cup Nat] /\ recvFilled' = Cardinality(NonEmpty(recvBuf'))
    BY <1>7, LapStored DEF StoreOutOfOrder
  <2>2. UNCHANGED <<recvIter, rwndHead, rwndTail, arrived, delivered>> /\ Read' = Read
    BY <1>7 DEF StoreOutOfOrder, Read
  <2>3. arrived # Read + MAXMESSAGE BY <1>2, <1>3, <1>7 DEF StoreOutOfOrder, Fits, LapReceiver
  <2>4. LapReceiver' BY <1>2, <2>1, <2>2, <2>3 DEF LapReceiver, NonEmpty
  <2> QED BY <1>1, <2>4 DEF LapInv, LapData
<1>8. CASE StoreInOrder(packet)
  <2>1. recvBuf' \in [Slots -> {Free, Zeros} \cup Nat] /\ recvFilled' = Cardinality(NonEmpty(recvBuf'))
    BY <1>8, LapStored DEF StoreInOrder
  <2>2. UNCHANGED <<recvIter, rwndTail, delivered>> /\ Read' = Read
    BY <1>8 DEF StoreInOrder, Read
  <2>3. PICK k \in 0 .. SEQNUM :
          /\ Advance(Stored(packet), k)
          /\ rwndHead' = (rwndHead + k) % SEQNUM /\ arrived' = arrived + k
          /\ nospace' = (wndwsize((rwndHead + k) % SEQNUM, rwndTail) = 0)
    BY <1>8 DEF StoreInOrder
  <2>4. k \in Nat /\ arrived + k <= Read + MAXMESSAGE BY <1>2, <2>3, LapAdvance
  <2>5. arrived \in Nat /\ rwndHead = Wire(arrived) /\ rwndTail = Wire(Read + MAXMESSAGE)
    BY <1>2 DEF LapReceiver
  <2>6. rwndHead' = Wire(arrived')
    <3>1. arrived \in Int /\ k \in Int BY <2>4, <2>5
    <3>2. (Wire(arrived) + k) % SEQNUM = Wire(arrived + k) BY <3>1, WireFacts
    <3> QED BY <2>3, <2>5, <3>2
  <2>7. arrived' = Read + MAXMESSAGE => nospace'
    <3>1. SUFFICES ASSUME arrived' = Read + MAXMESSAGE PROVE nospace' OBVIOUS
    <3>2. rwndHead' = rwndTail /\ rwndTail \in Int
      <4>1. arrived' \in Int BY <2>3, <2>4, <2>5
      <4>2. Wire(arrived') \in SeqNumbers BY <4>1, WireFacts
      <4> QED BY <2>5, <2>6, <3>1, <4>2, WindowAssumption DEF SeqNumbers
    <3>3. wndwsize(rwndHead', rwndTail) = 0 BY <3>2 DEF wndwsize
    <3> QED BY <2>3, <3>3
  <2>8. arrived' \in Nat /\ arrived' <= Read + MAXMESSAGE BY <2>3, <2>4, <2>5
  <2>9. LapReceiver' BY <1>2, <2>1, <2>2, <2>6, <2>7, <2>8 DEF LapReceiver, NonEmpty
  <2> QED BY <1>1, <2>9 DEF LapInv, LapData
<1> QED BY <1>4, <1>5, <1>6, <1>7, <1>8 DEF HandleData

LEMMA LapReads == ASSUME LapInv, k_recvfrom PROVE LapReceiver'
<1>1. LapReceiver BY DEF LapInv
<1>2. /\ recvBuf \in [Slots -> {Free, Zeros} \cup Nat] /\ recvIter \in Slots
      /\ recvBuf[recvIter] # Free
      /\ recvBuf' = [recvBuf EXCEPT ![recvIter] = Free] /\ recvFilled' = recvFilled - 1
      /\ delivered' = Append(delivered, recvBuf[recvIter])
      /\ rwndTail' = SeqSucc(rwndTail) /\ UNCHANGED <<rwndHead, arrived, nospace>>
  BY <1>1 DEF LapReceiver, k_recvfrom
<1>3. /\ arrived \in Nat /\ delivered \in Seq({Zeros} \cup Nat) /\ Read \in Nat
      /\ MAXMESSAGE \in Nat /\ arrived <= Read + MAXMESSAGE
  BY <1>1, WindowAssumption DEF LapReceiver, Read
<1>4. delivered' \in Seq({Zeros} \cup Nat) /\ Read' = Read + 1
  <2>1. recvBuf[recvIter] \in {Zeros} \cup Nat BY <1>2
  <2> QED BY <1>2, <1>3, <2>1, AppendProperties DEF Read
<1>5. recvIter' \in Slots
  <2>1. recvIter + 1 \in Int BY <1>2, WindowAssumption DEF Slots
  <2>2. recvIter' = (recvIter + 1) % MAXMESSAGE BY DEF k_recvfrom
  <2> QED BY <2>1, <2>2, IndexIsSlot DEF BufferIndex
<1>6. rwndTail' = Wire(Read' + MAXMESSAGE)
  <2>1. Read + MAXMESSAGE \in Int /\ Read' + MAXMESSAGE = Read + MAXMESSAGE + 1
    BY <1>3, <1>4
  <2>2. SeqSucc(Wire(Read + MAXMESSAGE)) = Wire(Read + MAXMESSAGE + 1) BY <2>1, WireFacts
  <2> QED BY <1>1, <1>2, <2>1, <2>2 DEF LapReceiver
<1>7. recvBuf' \in [Slots -> {Free, Zeros} \cup Nat] /\ recvFilled' = Cardinality(NonEmpty(recvBuf'))
  <2>1. /\ Cardinality(NonEmpty([recvBuf EXCEPT ![recvIter] = Free])) = Cardinality(NonEmpty(recvBuf)) + -1
        /\ Cardinality(NonEmpty(recvBuf)) \in Nat
    BY <1>2, OneSlot
  <2> QED BY <1>1, <1>2, <2>1 DEF LapReceiver
<1>8. arrived' <= Read' + MAXMESSAGE /\ arrived' # Read' + MAXMESSAGE BY <1>2, <1>3, <1>4
<1>9. arrived' \in Nat /\ rwndHead' = Wire(arrived') BY <1>1, <1>2 DEF LapReceiver
<1> QED BY <1>4, <1>5, <1>6, <1>7, <1>8, <1>9 DEF LapReceiver, NonEmpty, Read

LEMMA LapAcks == ASSUME LapInv, NEW packet, AckOutside(packet) \/ AckInside(packet) PROVE LapSender'
<1>1. /\ sendBuf \in [Slots -> {Free} \cup Nat] /\ accepted \in Nat
      /\ swndHead \in SeqNumbers /\ swndTail \in SeqNumbers
      /\ sent \in Seq(SeqNumbers) /\ Len(sent) <= 2
      /\ OutstandingIsRecorded
  BY DEF LapInv, LapSender
<1>2. CASE AckOutside(packet)
  BY <1>1, <1>2 DEF AckOutside, LapSender, OutstandingIsRecorded, sendBufVars
<1>3. CASE AckInside(packet)
  <2>1. sendBuf' \in [Slots -> {Free} \cup Nat]
    <3>1. PICK g : sendBuf' = [s \in Slots |->
                     IF \E i \in 0 .. (g - 1) : HeadSlot(i) = s THEN Free ELSE sendBuf[s]]
      BY <1>3 DEF AckInside
    <3> QED BY <1>1, <3>1
  <2>2. PICK g \in 0 .. SEQNUM : swndHead' = (swndHead + g) % SEQNUM BY <1>3 DEF AckInside
  <2>3. swndHead' \in SeqNumbers
    <3>1. swndHead + g \in Int BY <1>1, WindowAssumption DEF SeqNumbers
    <3> QED BY <2>2, <3>1, NumberIsWire
  <2>4. swndHead # swndTail BY <1>3 DEF AckInside, inwndw
  <2>5. sent # <<>> BY <1>1, <2>4 DEF OutstandingIsRecorded
  <2>6. UNCHANGED <<accepted, swndTail, sent>> BY <1>3 DEF AckInside
  <2> QED BY <1>1, <2>1, <2>3, <2>5, <2>6 DEF LapSender, OutstandingIsRecorded
<1> QED BY <1>2, <1>3

LEMMA LapStep == ASSUME LapInv, [Next]_vars PROVE LapInv'
<1>1. ASSUME UNCHANGED senderVars PROVE LapSender'
  BY <1>1 DEF LapInv, LapSender, OutstandingIsRecorded, senderVars, sendBufVars, swndVars
<1>2. ASSUME UNCHANGED receiverVars PROVE LapReceiver'
  BY <1>2 DEF LapInv, LapReceiver, Read, NonEmpty, receiverVars, recvBufVars, rwndVars
<1>3. ASSUME UNCHANGED dataNet PROVE LapData' BY <1>3 DEF LapInv, LapData
<1>4. CASE k_sendto
  <2>1. LapSender'
    <3>1. /\ sendBuf \in [Slots -> {Free} \cup Nat] /\ accepted \in Nat
          /\ swndHead \in SeqNumbers /\ swndTail \in SeqNumbers
          /\ sent \in Seq(SeqNumbers) /\ Len(sent) <= 2 /\ OutstandingIsRecorded
      BY DEF LapInv, LapSender
    <3>2. UNCHANGED <<swndHead, swndTail, sent>> BY <1>4 DEF k_sendto, swndVars
    <3>3. sendBuf' \in [Slots -> {Free} \cup Nat] /\ accepted' \in Nat
      <4>1. sendBuf' = [sendBuf EXCEPT ![sendIter] = accepted] BY <1>4 DEF k_sendto
      <4>2. accepted' = accepted + 1 BY <1>4 DEF k_sendto
      <4>3. \A s \in Slots : sendBuf'[s] = sendBuf[s] \/ sendBuf'[s] = accepted BY <3>1, <4>1
      <4>4. \A s \in Slots : sendBuf'[s] \in {Free} \cup Nat BY <3>1, <4>3
      <4>5. DOMAIN sendBuf' = Slots /\ sendBuf' = [s \in DOMAIN sendBuf' |-> sendBuf'[s]]
        BY <3>1, <4>1
      <4>6. sendBuf' \in [Slots -> {Free} \cup Nat] BY <4>4, <4>5
      <4> QED BY <3>1, <4>2, <4>6
    <3>4. OutstandingIsRecorded' BY <3>1, <3>2 DEF OutstandingIsRecorded
    <3> QED BY <3>1, <3>2, <3>3, <3>4 DEF LapSender
  <2> QED BY <1>2, <1>3, <1>4, <2>1 DEF k_sendto, netVars, LapInv
<1>5. CASE k_recvfrom
  BY <1>1, <1>3, <1>5, LapReads DEF k_recvfrom, netVars, LapInv
<1>6. CASE \E packet : HandleData(packet) \/ DropData(packet)
  <2>1. UNCHANGED senderVars
    BY <1>6 DEF HandleData, DuplicateInWindow, StoreOutOfOrder, StoreInOrder, RefuseOnZeroWindow,
                AckAgain, IgnoreData, DropData
  <2> QED BY <1>1, <1>6, <2>1, LapReceives DEF LapInv
<1>7. CASE \E packet : HandleAck(packet)
  <2>1. UNCHANGED <<receiverVars, dataNet>> BY <1>7 DEF HandleAck, AckOutside, AckInside
  <2> QED BY <1>2, <1>3, <1>7, <2>1, LapAcks DEF LapInv, HandleAck
<1>8. CASE (\E packet : DropAck(packet)) \/ WindowUpdate \/ UNCHANGED vars
  BY <1>1, <1>2, <1>3, <1>8 DEF DropAck, WindowUpdate, vars, netVars, LapInv
<1>9. CASE \E elapsed \in BOOLEAN : SThread(elapsed) BY <1>9, LapSThread
<1> QED BY <1>4, <1>5, <1>6, <1>7, <1>8, <1>9 DEF Next

LEMMA LapInit == Init => LapInv
<1> SUFFICES ASSUME Init PROVE LapInv OBVIOUS
<1>1. Inv BY InitInv
<1>2. LapSender BY <1>1, ConnectionAssumption DEF Inv, TypeOK, RecordsInv, LapSender
<1>3. NonEmpty(recvBuf) = {} /\ recvFilled = 0 BY DEF Init, NonEmpty
<1>4. arrived = 0 /\ delivered = <<>> BY DEF Init
<1>5. LapReceiver
  BY <1>1, <1>3, <1>4, FS_EmptySet, WindowAssumption
     DEF Inv, TypeOK, PositionsInv, OrderInv, Read, LapReceiver
<1>6. LapData BY DEF Init, LapData
<1> QED BY <1>2, <1>5, <1>6 DEF LapInv

(* For every file and all sizes, also where 10 does not divide 256: the    *)
(* ends of the receive window and the counter of its buffer stay right,    *)
(* and so do the S thread's records (all handlers of initksocket).         *)
THEOREM LapInvariantHolds == Spec => []LapInv
<1>1. Init => LapInv BY LapInit
<1>2. LapInv /\ [Next]_vars => LapInv' BY LapStep
<1> QED BY <1>1, <1>2, PTL DEF Spec

(* A receive window that closes is remembered in nospace, as long as the   *)
(* reader has not overtaken rwnd.head (handle_socket_data, k_recvfrom).    *)
THEOREM ClosedIsRemembered == Spec => []ClosedWindowIsRemembered
<1>1. LapInv => ClosedWindowIsRemembered
  <2> SUFFICES ASSUME LapInv, rwndHead = rwndTail, Len(delivered) <= arrived PROVE nospace
    BY DEF ClosedWindowIsRemembered
  <2>1. /\ arrived \in Nat /\ Read \in Nat /\ Read <= arrived /\ arrived <= Read + MAXMESSAGE
        /\ rwndHead = Wire(arrived) /\ rwndTail = Wire(Read + MAXMESSAGE)
        /\ arrived = Read + MAXMESSAGE => nospace
    BY DEF LapInv, LapReceiver, Read
  <2>2. PICK t \in Int : t = Read + MAXMESSAGE BY <2>1, WindowAssumption
  <2>3. arrived \in Int /\ arrived <= t /\ t < arrived + SEQNUM /\ Wire(arrived) = Wire(t)
    <3>1. arrived <= t /\ t < arrived + SEQNUM BY <2>1, <2>2, WindowAssumption
    <3>2. Wire(arrived) = Wire(t) BY <2>1, <2>2
    <3> QED BY <2>1, <3>1, <3>2
  <2>4. arrived = t BY <2>3, WireUnique
  <2> QED BY <2>1, <2>2, <2>4
<1> QED BY <1>1, LapInvariantHolds, PTL

(* The S thread's records reach to swnd.tail while anything is             *)
(* unacknowledged, so no message is left out of the retransmissions.       *)
THEOREM Recorded == Spec => []OutstandingIsRecorded
<1>1. LapInv => OutstandingIsRecorded BY DEF LapInv, LapSender
<1> QED BY <1>1, LapInvariantHolds, PTL

-----------------------------------------------------------------------------
(* The theorems.                                                           *)

LEMMA NextInv == ASSUME Inv, SlotsAgree, [Next]_vars PROVE Inv'
<1>1. CASE Next
  <2>1. CASE k_sendto BY <2>1, SendtoInv
  <2>2. CASE k_recvfrom BY <2>2, RecvfromInv
  <2>3. CASE \E elapsed \in BOOLEAN : SThread(elapsed) BY <2>3, SThreadInv
  <2>4. CASE \E packet \in dataNet : HandleData(packet) \/ DropData(packet)
    <3>1. PICK packet \in dataNet : HandleData(packet) \/ DropData(packet) BY <2>4
    <3> QED BY <3>1, DuplicateInWindowInv, StoreOutOfOrderInv, StoreInOrderInv,
               NoZeroWindow, AckAgainInv, IgnoreDataInv DEF HandleData
  <2>5. CASE \E packet \in ackNet : HandleAck(packet) \/ DropAck(packet)
    <3>1. PICK packet \in ackNet : HandleAck(packet) \/ DropAck(packet) BY <2>5
    <3> QED BY <3>1, AckOutsideInv, AckInsideInv, IgnoreDataInv DEF HandleAck
  <2>6. CASE WindowUpdate BY <2>6, NoZeroWindow
  <2> QED BY <1>1, <2>1, <2>2, <2>3, <2>4, <2>5, <2>6 DEF Next
<1>2. CASE UNCHANGED vars
  <2>1. UNCHANGED <<senderVars, receiverVars, hung>> /\ dataNet' = dataNet /\ ackNet' = ackNet
    BY <1>2 DEF vars, netVars
  <2> QED BY <2>1, FewerDatagrams
<1> QED BY <1>1, <1>2

(* Whatever the network does and however the four threads interleave, the  *)
(* wrapped sequence numbers, the slots and the datagrams stay what the     *)
(* positions of sender and receiver say (all handlers of initksocket).     *)
THEOREM InvariantHolds == ASSUME SlotsAgree PROVE Spec => []Inv
<1>1. Init => Inv BY InitInv
<1>2. Inv /\ [Next]_vars => Inv' BY NextInv
<1> QED BY <1>1, <1>2, PTL DEF Spec

(* The hypothesis holds for every file shorter than the sequence numbers,  *)
(* of whatever MAXMESSAGE: fewer than 256 messages in this build.          *)
LEMMA ShortFilesAgree == FileLength < SEQNUM => SlotsAgree
<1> SUFFICES ASSUME FileLength < SEQNUM, NEW n \in 0 .. FileLength
             PROVE  BufferIndex(Wire(n)) = Slot(n)
  BY DEF SlotsAgree
<1>1. n \in 0 .. (SEQNUM - 1) BY WindowAssumption, ConnectionAssumption
<1>2. (SEQNUM * 0 + n) % SEQNUM = n BY <1>1, WindowAssumption, Remainder
<1>3. Wire(n) = n BY <1>1, <1>2, WindowAssumption DEF Wire
<1> QED BY <1>3 DEF BufferIndex, Slot

(* And for every file, if the buffer's size divides the sequence numbers.  *)
LEMMA DividingSizesAgree ==
    ASSUME NEW q \in Nat, SEQNUM = MAXMESSAGE * q PROVE SlotsAgree
<1> SUFFICES ASSUME NEW n \in 0 .. FileLength PROVE BufferIndex(Wire(n)) = Slot(n)
  BY DEF SlotsAgree
<1> USE WindowAssumption
<1>1. n \in Int BY ConnectionAssumption
<1>2. PICK d \in Int, m \in 0 .. (SEQNUM - 1) : n = SEQNUM * d + m /\ n % SEQNUM = m
  BY <1>1, DivMod
<1>3. PICK e \in Int, r \in 0 .. (MAXMESSAGE - 1) :
         m = MAXMESSAGE * e + r /\ m % MAXMESSAGE = r
  <2>1. m \in Int /\ MAXMESSAGE \in Nat \ {0} OBVIOUS
  <2> QED BY <2>1, DivMod
<1>4. n = MAXMESSAGE * (q * d + e) + r
  <2>1. (MAXMESSAGE * q) * d = MAXMESSAGE * (q * d) OBVIOUS
  <2>2. MAXMESSAGE * (q * d + e) = MAXMESSAGE * (q * d) + MAXMESSAGE * e OBVIOUS
  <2> QED BY <1>2, <1>3, <2>1, <2>2
<1>5. n % MAXMESSAGE = r
  <2>1. q * d + e \in Int OBVIOUS
  <2> QED BY <1>4, <2>1, Remainder
<1> QED BY <1>2, <1>3, <1>5 DEF BufferIndex, Wire, Slot

(* k_recvfrom returns the messages after the first in order, none skipped  *)
(* and none twice.                                                         *)
THEOREM Ordered == ASSUME SlotsAgree PROVE Spec => []InOrderAfterFirst
<1>1. Inv => InOrderAfterFirst BY DEF Inv
<1> QED BY <1>1, InvariantHolds, PTL

(* The ACK handler frees only messages that arrived, and the S thread      *)
(* transmits only what the receiver has a slot for.                        *)
THEOREM FreedArrived == ASSUME SlotsAgree PROVE Spec => []FreedOnlyWhenArrived
<1>1. Inv => FreedOnlyWhenArrived BY DEF Inv, OrderInv, FreedOnlyWhenArrived
<1> QED BY <1>1, InvariantHolds, PTL

(* The sender never overruns the slots of the receiver (SThread's test of  *)
(* swnd.size, and the size every ACK brings).                              *)
THEOREM FlowControlled == ASSUME SlotsAgree PROVE Spec => []FlowControl
<1>1. Inv => FlowControl BY DEF Inv, OrderInv, FlowControl, Read
<1> QED BY <1>1, InvariantHolds, PTL

(* The while (1) of the ACK handler ends.                                  *)
THEOREM AckLoopTerminates == ASSUME SlotsAgree PROVE Spec => []AckLoopEnds
<1>1. Inv => AckLoopEnds BY DEF Inv, AckLoopEnds
<1> QED BY <1>1, InvariantHolds, PTL

(* Neither the receive window closes nor nospace is set: the zero-window   *)
(* code of the R thread is never used.                                     *)
THEOREM WindowStaysOpen == ASSUME SlotsAgree PROVE Spec => []WindowNeverCloses
<1>1. Inv => WindowNeverCloses
  <2> SUFFICES ASSUME Inv PROVE WindowNeverCloses OBVIOUS
  <2>1. Sizes /\ PositionsInv /\ ~nospace BY Numbers DEF Inv
  <2>2. PICK t \in Int : t = Read + MAXMESSAGE /\ arrived < t /\ t < arrived + SEQNUM
    BY <2>1 DEF Sizes, OrderInv
  <2>3. arrived \in Int BY <2>1 DEF Sizes
  <2>4. Wire(arrived) # Wire(t)
    <3>1. ASSUME Wire(arrived) = Wire(t) PROVE arrived = t
      BY <2>2, <2>3, <3>1, WireUnique
    <3> QED BY <2>2, <2>3, <3>1
  <2> QED BY <2>1, <2>2, <2>4 DEF WindowNeverCloses, PositionsInv
<1> QED BY <1>1, InvariantHolds, PTL

-----------------------------------------------------------------------------
(* The counters.                                                           *)

\* The send buffer is the image of acked .. accepted-1 under Slot.
LEMMA SendCounted == ASSUME Inv PROVE sendFilled = Cardinality(NonEmpty(sendBuf))
<1>0. Sizes /\ PositionsInv /\ SendBufInv BY Numbers DEF Inv
<1> DEFINE N == acked .. (accepted - 1)
           f == [n \in N |-> Slot(n)]
<1>1. NonEmpty(sendBuf) = {Slot(n) : n \in N}
  <2>1. ASSUME NEW n \in N PROVE Slot(n) \in NonEmpty(sendBuf)
    <3>1. n \in Int /\ n >= 0 BY <1>0 DEF Sizes
    <3>2. sendBuf[Slot(n)] = n BY <1>0 DEF SendBufInv
    <3> QED BY <3>1, <3>2, SlotFacts DEF NonEmpty, Free
  <2>2. ASSUME NEW s \in NonEmpty(sendBuf) PROVE sendBuf[s] \in N /\ Slot(sendBuf[s]) = s
    BY <1>0 DEF SendBufInv, NonEmpty
  <2> QED BY <2>1, <2>2
<1>2. f \in Bijection(N, NonEmpty(sendBuf))
  <2>1. f \in [N -> NonEmpty(sendBuf)] BY <1>1
  <2>2. ASSUME NEW m \in N, NEW n \in N, f[m] = f[n] PROVE m = n
    <3>1. /\ m \in Int /\ n \in Int
          /\ m < n + MAXMESSAGE /\ n < m + MAXMESSAGE
      BY <1>0 DEF Sizes, OrderInv
    <3> QED BY <2>2, <3>1, SlotUnique
  <2>3. \A s \in NonEmpty(sendBuf) : \E n \in N : f[n] = s BY <1>1
  <2> HIDE DEF N, f
  <2> QED BY <2>1, <2>2, <2>3 DEF Bijection, Injection, Surjection, IsInjective
<1>3. IsFiniteSet(N) /\ Cardinality(N) = accepted - acked
  <2>1. acked \in Int /\ accepted \in Int /\ accepted - 1 \in Int /\ acked <= accepted
    BY <1>0 DEF Sizes, OrderInv
  <2>2. /\ IsFiniteSet(acked .. (accepted - 1))
        /\ Cardinality(acked .. (accepted - 1)) =
              IF acked > accepted - 1 THEN 0 ELSE accepted - 1 - acked + 1
    BY <2>1, FS_Interval
  <2> QED BY <2>1, <2>2
<1>4. Cardinality(NonEmpty(sendBuf)) = Cardinality(N)
  <2> HIDE DEF N, f
  <2> QED BY <1>2, <1>3, FS_Bijection DEF ExistsBijection
<1> QED BY <1>0, <1>3, <1>4 DEF PositionsInv

(* filled, on which k_sendto and k_recvfrom refuse, is the number of slots *)
(* in use, on both sides.                                                  *)
THEOREM FilledCounted == ASSUME SlotsAgree PROVE Spec => []FilledCountsSlots
<1>1. Inv /\ LapInv => FilledCountsSlots
  BY SendCounted DEF FilledCountsSlots, LapInv, LapReceiver
<1> QED BY <1>1, InvariantHolds, LapInvariantHolds, PTL

(* The variables of library and threads keep their types.                  *)
THEOREM TypesHold == ASSUME SlotsAgree PROVE Spec => []TypeOK
<1>1. Inv => TypeOK BY DEF Inv
<1> QED BY <1>1, InvariantHolds, PTL

-----------------------------------------------------------------------------
(* The connection implements KTPStream.                                    *)

LEMMA StreamStep ==
    ASSUME Inv, [Next]_vars
    PROVE  [Stream!Next]_<<accepted, delivered>>
<1>0. Sizes BY Numbers
<1>1. CASE k_sendto
  <2>1. accepted < acked + MAXMESSAGE /\ accepted < FileLength
    BY <1>0, <1>1 DEF k_sendto, Inv, PositionsInv, Sizes, OrderInv
  <2>2. accepted < Read + (2 * MAXMESSAGE - 1) BY <1>0, <2>1 DEF Sizes, OrderInv
  <2>3. accepted' = accepted + 1 /\ delivered' = delivered
    BY <1>1 DEF k_sendto, receiverVars
  <2> QED BY <2>1, <2>2, <2>3 DEF Stream!Next, Stream!Accept, Read
<1>2. CASE k_recvfrom
  <2>1. Read + 1 < accepted /\ delivered' = Append(delivered, Read + 1)
    BY <1>0, <1>2, NextMessage DEF Sizes, OrderInv
  <2>2. accepted' = accepted BY <1>2 DEF k_recvfrom, senderVars
  <2> QED BY <2>1, <2>2 DEF Stream!Next, Stream!Deliver, Read
<1>3. CASE ~k_sendto /\ ~k_recvfrom
  <2>1. accepted' = accepted /\ delivered' = delivered
    BY <1>3 DEF Next, vars, senderVars, receiverVars, SThread, HandleData, HandleAck,
                DuplicateInWindow, StoreOutOfOrder, StoreInOrder, RefuseOnZeroWindow,
                AckAgain, IgnoreData, DropData, WindowUpdate, AckOutside, AckInside,
                DropAck
  <2> QED BY <2>1
<1> QED BY <1>1, <1>2, <1>3

(* What k_sendto accepts comes out of k_recvfrom as out of a first-in      *)
(* first-out channel of 2 * MAXMESSAGE - 1 places that loses message 0.    *)
THEOREM Implementation == ASSUME SlotsAgree PROVE Spec => ImplementsStream
<1>1. Init => Stream!Init BY DEF Init, Stream!Init
<1>2. Inv /\ [Next]_vars => [Stream!Next]_<<accepted, delivered>> BY StreamStep
<1> QED BY <1>1, <1>2, InvariantHolds, PTL DEF Spec, ImplementsStream, Stream!Spec

-----------------------------------------------------------------------------
(* The right edge of the send window.                                      *)

\* Every new ACK acknowledges all that arrived, with the largest edge of all.
LEMMA NewAck ==
    ASSUME Inv, SlotsAgree, NEW packet, StoreInOrder(packet) \/ AckAgain(packet)
    PROVE  /\ UNCHANGED <<acked, swndSize, sentUpTo>>
           /\ sentUpTo > 0
           /\ \E a : /\ ackNet' = ackNet \cup {a}
                     /\ a.n \in Int /\ a.win \in Int /\ arrived - 1 <= a.n
                     /\ Edge(a) = Read + MAXMESSAGE
<1>0. Sizes /\ PositionsInv BY Numbers DEF Inv
<1>1. packet \in dataNet /\ DataIsFresh(packet)
  BY TakenData DEF StoreInOrder, AckAgain
<1>2. UNCHANGED <<acked, swndSize, sentUpTo>>
  BY DEF StoreInOrder, AckAgain, senderVars, swndVars
<1>3. sentUpTo > 0 BY <1>0, <1>1, DataFacts DEF Sizes
<1>4. CASE StoreInOrder(packet)
  <2>1. PICK k, head, size :
           /\ k \in 0 .. SEQNUM
           /\ head = (rwndHead + k) % SEQNUM
           /\ size = wndwsize(head, rwndTail)
           /\ Advance(Stored(packet), k)
           /\ ackNet' = ackNet \cup
                 {createACKpacket(arrived + k - 1, SeqPred(head), size)}
    BY <1>4 DEF StoreInOrder
  <2>k. k \in 0 .. SEQNUM BY <2>1
  <2>2. Fits(packet) /\ open_packet(packet.seq) = rwndHead BY <1>4 DEF StoreInOrder
  <2>3. arrived + k <= sentUpTo - 1 BY <1>1, <2>1, <2>2, AdvanceFacts
  <2>4. PICK a, t \in Int : a = arrived + k /\ t = Read + MAXMESSAGE
    BY <1>0, <2>k DEF Sizes
  <2>5. a <= t /\ t < a + SEQNUM BY <1>0, <2>3, <2>4, <2>k DEF Sizes, OrderInv
  <2>6. head = Wire(a) BY <1>0, <2>1, <2>4, <2>k, WireFacts DEF PositionsInv, Sizes
  <2>7. size = t - a
    <3>1. wndwsize(Wire(a), Wire(t)) = t - a BY <2>5, WindowSize
    <3> QED BY <1>0, <2>1, <2>4, <2>6, <3>1 DEF PositionsInv
  <2>8. PICK ack : ack = createACKpacket(arrived + k - 1, SeqPred(head), size) OBVIOUS
  <2>9. ack.n = arrived + k - 1 /\ ack.win = size BY <2>8 DEF createACKpacket
  <2>10. /\ ack.n \in Int /\ ack.win \in Int /\ arrived - 1 <= ack.n
         /\ Edge(ack) = Read + MAXMESSAGE
    BY <1>0, <2>4, <2>k, <2>7, <2>9 DEF Sizes, Edge
  <2> QED BY <1>2, <1>3, <2>1, <2>8, <2>10
<1>5. CASE AckAgain(packet)
  <2>1. PICK seq : ackNet' = ackNet \cup {createACKpacket(arrived - 1, seq, ReceiveWindow)}
    BY <1>5 DEF AckAgain
  <2>2. ReceiveWindow = Read + MAXMESSAGE - arrived BY <1>1, DataFacts
  <2>3. PICK ack : ack = createACKpacket(arrived - 1, seq, ReceiveWindow) OBVIOUS
  <2>4. ack.n = arrived - 1 /\ ack.win = Read + MAXMESSAGE - arrived
    BY <2>2, <2>3 DEF createACKpacket
  <2>5. /\ ack.n \in Int /\ ack.win \in Int /\ arrived - 1 <= ack.n
        /\ Edge(ack) = Read + MAXMESSAGE
    BY <1>0, <2>4 DEF Sizes, Edge
  <2> QED BY <1>2, <1>3, <2>1, <2>3, <2>5
<1> QED BY <1>4, <1>5

\* What an ACK inside swnd does to the window's edge.
LEMMA TakenEdge ==
    ASSUME Inv, SlotsAgree, NEW packet, AckInside(packet)
    PROVE  /\ packet \in ackNet /\ acked <= packet.n
           /\ acked' = packet.n + 1 /\ acked' + swndSize' = Edge(packet)
<1>0. Sizes /\ TypeOK BY Numbers DEF Inv
<1>1. packet \in ackNet /\ AckIsFresh(packet) /\ inwndw(packet.ack, swndHead, swndTail)
  BY TakenAck DEF AckInside
<1>2. /\ packet.n \in Int /\ packet.ack = Wire(packet.n)
      /\ packet.win \in 0 .. MAXMESSAGE
      /\ acked <= packet.n /\ packet.n < sentUpTo
  BY <1>1, AckFacts
<1>3. PICK length : length = wndwsize(swndHead, SeqSucc(packet.ack)) OBVIOUS
<1>4. PICK g \in 0 .. SEQNUM :
         /\ acked' = acked + g
         /\ swndSize' = IF g = length THEN packet.win ELSE swndSize
         /\ hung' = (g # length)
  BY <1>3 DEF AckInside
<1>5. ~hung' BY AckInsideInv DEF Inv
<1>6. g = length BY <1>4, <1>5
<1>7. length = packet.n + 1 - acked
  <2>1. PICK m \in Int : m = packet.n + 1 BY <1>2
  <2>2. SeqSucc(packet.ack) = Wire(m) BY <1>2, <2>1, WireFacts
  <2>3. acked \in Int /\ acked <= m /\ m < acked + SEQNUM
    BY <1>0, <1>2, <2>1 DEF Sizes, OrderInv
  <2>4. wndwsize(Wire(acked), Wire(m)) = m - acked BY <2>3, WindowSize
  <2>5. swndHead = Wire(acked) BY DEF Inv, PositionsInv
  <2>6. length = m - acked BY <1>3, <2>2, <2>4, <2>5
  <2> QED BY <1>2, <2>1, <2>3, <2>6
<1>8. acked' = packet.n + 1 /\ swndSize' = packet.win
  BY <1>0, <1>2, <1>4, <1>6, <1>7 DEF Sizes
<1> QED BY <1>1, <1>2, <1>8 DEF Edge

LEMMA EdgeStep ==
    ASSUME Inv, EdgeInv, SlotsAgree, [Next]_vars
    PROVE  EdgeInv' /\ acked' + swndSize' >= acked + swndSize
<1>0. Sizes /\ TypeOK /\ NetInv BY Numbers DEF Inv
<1>1. /\ acked \in Int /\ swndSize \in Int /\ acked + swndSize <= Read + MAXMESSAGE
      /\ \A p \in ackNet : /\ p.n \in Int /\ p.win \in Int /\ p.n < arrived
                          /\ Edge(p) <= Read + MAXMESSAGE
  BY <1>0 DEF Sizes, OrderInv, TypeOK, NetInv, Edge
<1>2. CASE \E packet : StoreInOrder(packet) \/ AckAgain(packet)
  <2>1. PICK packet : StoreInOrder(packet) \/ AckAgain(packet) BY <1>2
  <2>2. /\ acked' = acked /\ swndSize' = swndSize /\ sentUpTo' = sentUpTo
        /\ sentUpTo > 0
    BY <2>1, NewAck
  <2>3. PICK a : /\ ackNet' = ackNet \cup {a}
                 /\ a.n \in Int /\ a.win \in Int /\ arrived - 1 <= a.n
                 /\ Edge(a) = Read + MAXMESSAGE
    BY <2>1, NewAck
  <2>4. \A p, q \in ackNet' : p.n < q.n => Edge(p) <= Edge(q)
    <3>1. ASSUME NEW p \in ackNet', NEW q \in ackNet', p.n < q.n PROVE Edge(p) <= Edge(q)
      <4>1. CASE p = a
        <5>1. q # a BY <1>0, <2>3, <3>1, <4>1
        <5>2. q \in ackNet /\ q.n < arrived BY <1>1, <2>3, <5>1
        <5> QED BY <1>0, <1>1, <2>3, <3>1, <4>1, <5>2 DEF Sizes
      <4>2. CASE p # a /\ q = a BY <1>1, <2>3, <4>2
      <4>3. CASE p # a /\ q # a BY <2>3, <3>1, <4>3 DEF EdgeInv
      <4> QED BY <4>1, <4>2, <4>3
    <3> QED BY <3>1
  <2>5. \A p \in ackNet' : acked <= p.n => acked + swndSize <= Edge(p)
    BY <1>1, <2>3 DEF EdgeInv
  <2>6. EdgeInv' BY <1>0, <2>2, <2>4, <2>5 DEF EdgeInv, Edge, Sizes
  <2> QED BY <1>1, <2>2, <2>6
<1>3. CASE \E packet : AckInside(packet)
  <2>1. PICK packet : AckInside(packet) BY <1>3
  <2>2. ackNet' \subseteq ackNet /\ sentUpTo' = sentUpTo BY <2>1, TakenAck DEF AckInside
  <2>3. /\ packet \in ackNet /\ acked <= packet.n
        /\ acked' = packet.n + 1 /\ acked' + swndSize' = Edge(packet)
    BY <2>1, TakenEdge
  <2>4. \A p \in ackNet' : acked' <= p.n => acked' + swndSize' <= Edge(p)
    <3>1. ASSUME NEW p \in ackNet', acked' <= p.n PROVE Edge(packet) <= Edge(p)
      <4>1. p \in ackNet /\ packet.n < p.n BY <1>1, <2>2, <2>3, <3>1
      <4> QED BY <2>3, <4>1 DEF EdgeInv
    <3> QED BY <2>3, <3>1
  <2>5. EdgeInv' BY <2>2, <2>4 DEF EdgeInv, Edge
  <2>6. acked + swndSize <= Edge(packet) BY <2>3 DEF EdgeInv
  <2> QED BY <1>1, <2>3, <2>5, <2>6 DEF Edge
<1>4. CASE \E packet : AckOutside(packet)
  <2>1. PICK packet : AckOutside(packet) BY <1>4
  <2>2. packet \in ackNet /\ AckIsFresh(packet) /\ ackNet' \subseteq ackNet
    BY <2>1, TakenAck DEF AckOutside
  <2>3. acked' = acked /\ sentUpTo' = sentUpTo BY <2>1 DEF AckOutside
  <2>4. swndSize' = swndSize
    <3>1. SUFFICES ASSUME swndSize' # swndSize PROVE FALSE OBVIOUS
    <3>2. wndwsize(swndHead, swndTail) = 0 BY <2>1, <3>1 DEF AckOutside
    <3>3. acked = sentUpTo BY <1>0, <2>2, <3>2, AckFacts DEF Sizes
    <3>4. sentUpTo = 0 BY <1>0, <3>3 DEF Sizes, OrderInv
    <3> QED BY <2>2, <3>4 DEF EdgeInv
  <2>5. EdgeInv' BY <2>2, <2>3, <2>4 DEF EdgeInv, Edge
  <2> QED BY <1>1, <2>3, <2>4, <2>5
<1>5. CASE \E elapsed \in BOOLEAN : SThread(elapsed)
  <2>1. PICK k \in 0 .. MAXMESSAGE : sentUpTo' = sentUpTo + k BY <1>5 DEF SThread
  <2>2. acked' = acked /\ swndSize' = swndSize /\ ackNet' = ackNet BY <1>5 DEF SThread
  <2>3. sentUpTo' = 0 => sentUpTo = 0 BY <1>0, <2>1 DEF Sizes
  <2>4. EdgeInv' BY <2>2, <2>3 DEF EdgeInv, Edge
  <2> QED BY <1>1, <2>2, <2>4
<1>6. CASE \/ k_sendto \/ k_recvfrom \/ UNCHANGED vars
           \/ \E packet : \/ DuplicateInWindow(packet) \/ StoreOutOfOrder(packet)
                         \/ IgnoreData(packet) \/ DropData(packet) \/ DropAck(packet)
  <2>1. /\ acked' = acked /\ swndSize' = swndSize /\ sentUpTo' = sentUpTo
        /\ ackNet' \subseteq ackNet
    BY <1>6 DEF k_sendto, k_recvfrom, vars, DuplicateInWindow, StoreOutOfOrder,
                IgnoreData, DropData, DropAck, senderVars, swndVars, netVars
  <2>2. EdgeInv' BY <2>1 DEF EdgeInv, Edge
  <2> QED BY <1>1, <2>1, <2>2
<1> QED
  BY <1>2, <1>3, <1>4, <1>5, <1>6, NoZeroWindow DEF Next, HandleData, HandleAck

(* The ACKs never take back what an earlier one allowed: the inductive     *)
(* invariant with the order of the ACKs' edges.                            *)
THEOREM EdgesHold == ASSUME SlotsAgree PROVE Spec => []IInv
<1>1. Init => IInv
  <2>1. Init => EdgeInv BY DEF Init, EdgeInv
  <2> QED BY <2>1, InitInv DEF IInv
<1>2. IInv /\ [Next]_vars => IInv' BY NextInv, EdgeStep DEF IInv
<1> QED BY <1>1, <1>2, PTL DEF Spec

(* The right edge of swnd never moves back, however the ACKs are reordered *)
(* (the ACK handler's swnd.head and swnd.size).                            *)
THEOREM EdgeNeverRetracts == ASSUME SlotsAgree PROVE Spec => WindowEdgeNeverRetracts
<1>1. IInv /\ [Next]_vars => [acked' + swndSize' >= acked + swndSize]_vars
  BY EdgeStep DEF IInv
<1> QED BY <1>1, EdgesHold, PTL DEF Spec, WindowEdgeNeverRetracts
=============================================================================
