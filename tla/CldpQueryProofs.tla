-------------------------- MODULE CldpQueryProofs --------------------------
(* Proofs about the rounds of a CLDP client, for any servers and any       *)
(* number of transaction ids that packets do not outlive.                  *)
EXTENDS CldpQuery, TLAPS

-----------------------------------------------------------------------------
(* The transaction ids.                                                    *)

LEMMA SmallRemainder ==
    ASSUME NEW N \in Nat \ {0}, NEW a \in 0 .. N - 1
    PROVE  a % N = a
  <1> DEFINE d == a \div N
             m == a % N
  <1>1. d \in Int /\ m \in 0 .. N - 1 /\ a = N * d + m
    OBVIOUS
  <1> HIDE DEF d, m
  <1>2. CASE d >= 1
    <2>1. N * d >= N
      BY <1>1, <1>2
    <2> QED
      BY <1>1, <2>1
  <1>3. CASE d <= -1
    <2>1. N * d <= -N
      BY <1>1, <1>3
    <2> QED
      BY <1>1, <2>1
  <1>4. CASE d = 0
    BY <1>1, <1>4 DEF m
  <1> QED
    BY <1>1, <1>2, <1>3, <1>4

LEMMA WholeRemainder ==
    ASSUME NEW N \in Nat \ {0}
    PROVE  N % N = 0
  <1> DEFINE d == N \div N
             m == N % N
  <1>1. d \in Int /\ m \in 0 .. N - 1 /\ N = N * d + m
    OBVIOUS
  <1> HIDE DEF d, m
  <1>2. CASE d >= 2
    <2>1. N * d >= N + N
      BY <1>1, <1>2
    <2> QED
      BY <1>1, <2>1
  <1>3. CASE d <= 0
    <2>1. N * d <= 0
      BY <1>1, <1>3
    <2> QED
      BY <1>1, <2>1
  <1>4. CASE d = 1
    BY <1>1, <1>4 DEF m
  <1> QED
    BY <1>1, <1>2, <1>3, <1>4

\* The id a round later is one further on the circle.
LEMMA NextTid ==
    ASSUME transaction_id \in 0 .. Tids - 1
    PROVE  (transaction_id + 1) % Tids =
             IF transaction_id = Tids - 1 THEN 0 ELSE transaction_id + 1
  <1>1. CASE transaction_id = Tids - 1
    BY <1>1, WholeRemainder, QueryAssumption
  <1>2. CASE transaction_id # Tids - 1
    <2>1. transaction_id + 1 \in 0 .. Tids - 1
      BY <1>2, QueryAssumption
    <2>2. (transaction_id + 1) % Tids = transaction_id + 1
      BY <2>1, SmallRemainder, QueryAssumption
    <2> QED
      BY <1>2, <2>2
  <1> QED
    BY <1>1, <1>2

\* Rounds that packets can remember have different ids.
LEMMA OwnTid ==
    ASSUME transaction_id \in 0 .. Tids - 1, NEW age \in 0 .. Lifetime
    PROVE  TidBefore(age) = transaction_id <=> age = 0
  BY QueryAssumption DEF TidBefore

-----------------------------------------------------------------------------
(* The invariant.                                                          *)

LEMMA InitInvariant == Init => IInv
  BY QueryAssumption DEF Init, IInv, TypeOK, AnswersAreOfThisRound

\* What the parts of the invariant say of one packet.
LEMMA PacketFacts ==
    ASSUME IInv, NEW p \in network
    PROVE  /\ p \in Packets /\ p.tid = TidBefore(p.age) /\ (p.age = 0 => p.server \in asked)
           /\ p.age \in 0 .. Lifetime /\ p.server \in Servers /\ p.tid \in 0 .. Tids - 1
           /\ transaction_id \in 0 .. Tids - 1
           /\ (p.tid = transaction_id <=> p.age = 0)
  <1>1. p \in Packets /\ transaction_id \in 0 .. Tids - 1
    BY DEF IInv, TypeOK
  <1>2. p.tid = TidBefore(p.age) /\ (p.age = 0 => p.server \in asked)
    BY DEF IInv
  <1>3. p.age \in 0 .. Lifetime /\ p.server \in Servers /\ p.tid \in 0 .. Tids - 1
    BY <1>1 DEF Packets
  <1> QED
    BY <1>1, <1>2, <1>3, OwnTid

\* Steps that leave the round alone and bring no new packet.
LEMMA NoNewPacket ==
    ASSUME IInv, UNCHANGED <<transaction_id, answers, ignored, asked>>, network' \subseteq network,
           server_list' \subseteq Servers, servers_cpy' \subseteq Servers,
           qpc' \in {"window", "copy", "ask"}
    PROVE  IInv'
  BY DEF IInv, TypeOK, AnswersAreOfThisRound, TidBefore, Packets

LEMMA ReceiveStep ==
    ASSUME IInv, NEW p \in network, Receive(p)
    PROVE  IInv'
  <1>1. network' \subseteq network
    BY DEF Receive
  <1>2. UNCHANGED <<server_list, qpc, transaction_id, servers_cpy, asked>>
    BY DEF Receive
  <1>3. CASE p.tid = transaction_id
    <2>1. answers' = answers \cup {p} /\ UNCHANGED ignored
      BY <1>3 DEF Receive
    <2>2. p.age = 0
      BY <1>3, PacketFacts
    <2> QED
      BY <1>1, <1>2, <2>1, <2>2, PacketFacts
      DEF IInv, TypeOK, AnswersAreOfThisRound, TidBefore
  <1>4. CASE p.tid # transaction_id
    <2>1. ignored' = ignored \cup {p} /\ UNCHANGED answers
      BY <1>4 DEF Receive
    <2>2. p.age # 0
      BY <1>4, PacketFacts
    <2> QED
      BY <1>1, <1>2, <2>1, <2>2, PacketFacts
      DEF IInv, TypeOK, AnswersAreOfThisRound, TidBefore
  <1> QED
    BY <1>3, <1>4

LEMMA CopyStep ==
    ASSUME IInv, CopyList
    PROVE  IInv'
  <1>1. /\ transaction_id \in 0 .. Tids - 1 /\ server_list \subseteq Servers
        /\ Tids \in Nat \ {0} /\ Lifetime \in Nat /\ Lifetime < Tids
    BY QueryAssumption DEF IInv, TypeOK
  <1>2. transaction_id' = IF transaction_id = Tids - 1 THEN 0 ELSE transaction_id + 1
    BY <1>1, NextTid DEF CopyList
  <1>3. transaction_id' \in 0 .. Tids - 1
    BY <1>1, <1>2
  <1>4. ASSUME NEW q \in network'
        PROVE  q \in Packets /\ q.age # 0 /\ q.tid = TidBefore(q.age)'
    <2>1. PICK p \in network : p.age < Lifetime /\ q = [p EXCEPT !.age = @ + 1]
      BY DEF CopyList, Aged
    <2>2. p \in Packets /\ p.tid = TidBefore(p.age) /\ p.age \in 0 .. Lifetime
      BY PacketFacts
    <2>3. q \in Packets /\ q.age = p.age + 1 /\ q.tid = p.tid
      BY <1>1, <2>1, <2>2 DEF Packets
    <2>4. TidBefore(p.age) = TidBefore(p.age + 1)'
      BY <1>1, <1>2, <2>1, <2>2 DEF TidBefore
    <2>5. TidBefore(q.age)' = TidBefore(p.age + 1)'
      BY <2>3 DEF TidBefore
    <2> QED
      BY <2>2, <2>3, <2>4, <2>5
  <1>5. network' \subseteq Packets
    BY <1>4
  <1>6. TypeOK'
    BY <1>1, <1>3, <1>5 DEF TypeOK, CopyList
  <1>7. answers' = {} /\ ignored' = {}
    BY DEF CopyList
  <1> QED
    BY <1>4, <1>6, <1>7 DEF IInv, AnswersAreOfThisRound

LEMMA AskStep ==
    ASSUME IInv, NEW s \in Servers, Ask(s)
    PROVE  IInv'
  <1> DEFINE query == Packet("QUERY", s, transaction_id, 0)
  <1>1. /\ transaction_id \in 0 .. Tids - 1 /\ Tids \in Nat \ {0} /\ Lifetime \in Nat
        /\ servers_cpy \subseteq Servers /\ asked \subseteq Servers
    BY QueryAssumption DEF IInv, TypeOK
  <1>2. query \in Packets /\ query.tid = TidBefore(query.age) /\ query.server = s
    BY <1>1 DEF Packet, Packets, TidBefore
  <1>3. network' \subseteq network \cup {query}
    BY DEF Ask
  <1>4. UNCHANGED <<server_list, qpc, transaction_id, answers, ignored>>
        /\ servers_cpy' = servers_cpy \ {s} /\ asked' = asked \cup {s}
    BY DEF Ask
  <1> HIDE DEF query
  <1>5. TypeOK'
    BY <1>1, <1>2, <1>3, <1>4 DEF IInv, TypeOK
  <1> QED
    BY <1>2, <1>3, <1>4, <1>5 DEF IInv, AnswersAreOfThisRound, TidBefore

LEMMA RespondStep ==
    ASSUME IInv, NEW p \in network, Respond(p)
    PROVE  IInv'
  <1> DEFINE response == Packet("RESPONSE", p.server, p.tid, p.age)
  <1>1. response \in Packets
    BY PacketFacts DEF Packet, Packets
  <1>2. response.tid = p.tid /\ response.age = p.age /\ response.server = p.server
    BY DEF Packet
  <1>3. network' \subseteq network \cup {response}
    BY DEF Respond
  <1>4. UNCHANGED <<server_list, queryVars>>
    BY DEF Respond
  <1> HIDE DEF response
  <1>5. TypeOK'
    BY <1>1, <1>3, <1>4 DEF IInv, TypeOK, queryVars
  <1> QED
    BY <1>2, <1>3, <1>4, <1>5, PacketFacts
    DEF IInv, AnswersAreOfThisRound, TidBefore, queryVars

LEMMA InvariantStep == IInv /\ [Next]_vars => IInv'
  <1> SUFFICES ASSUME IInv, [Next]_vars PROVE IInv'
    OBVIOUS
  <1>a. server_list \subseteq Servers /\ servers_cpy \subseteq Servers
        /\ qpc \in {"window", "copy", "ask"}
    BY DEF IInv, TypeOK
  <1>1. CASE ListChanges
    BY <1>1, <1>a, NoNewPacket DEF ListChanges, queryVars
  <1>2. CASE CloseWindow \/ NobodyToAsk \/ EndRound
    BY <1>2, <1>a, NoNewPacket DEF CloseWindow, NobodyToAsk, EndRound
  <1>3. ASSUME NEW p \in network, Lose(p) PROVE IInv'
    BY <1>3, <1>a, NoNewPacket DEF Lose, queryVars
  <1>4. CASE UNCHANGED vars
    BY <1>4, <1>a, NoNewPacket DEF vars, queryVars
  <1> QED
    BY <1>1, <1>2, <1>3, <1>4, ReceiveStep, CopyStep, AskStep, RespondStep DEF Next

-----------------------------------------------------------------------------
(* The theorems.                                                           *)

(* The inductive invariant: the transaction id of a packet is the one of   *)
(* the round it is as old as (cldp_client.c, query_thread_handler).        *)
THEOREM Invariant == Spec => []IInv
  <1>1. Init => IInv
    BY InitInvariant
  <1>2. IInv /\ [Next]_vars => IInv'
    BY InvariantStep
  <1> QED
    BY <1>1, <1>2, PTL DEF Spec

(* A client prints the answers to the QUERYs of this round and no others,  *)
(* as long as no packet outlives as many rounds as there are ids.          *)
THEOREM AnswersMatch == Spec => []AnswersAreOfThisRound
  <1>1. IInv => AnswersAreOfThisRound
    BY DEF IInv
  <1> QED
    BY <1>1, Invariant, PTL
=============================================================================
