------------------------- MODULE CldpMembersProofs -------------------------
(* Proofs about the server list of a CLDP client, for any servers, any     *)
(* intervals, and any bound on how late threads and packets are.           *)
EXTENDS CldpMembers, TLAPS

\* What TypeOK and the assumption say of each variable.
LEMMA Types ==
    ASSUME TypeOK
    PROVE  /\ server_list \subseteq Packets /\ air \subseteq Packets
           /\ heard \in Packets \cup {None}
           /\ check \in Int /\ check >= - Late /\ check <= TIMEOUT_CHECK_INTERVAL
           /\ up \in [Servers -> BOOLEAN] /\ rest \in [Servers -> Int]
           /\ downFor \in [Servers -> 0 .. Detection + 1]
           /\ calm \in [Servers -> 0 .. Steady]
           /\ INTERVAL \in Nat /\ SERVER_TIMEOUT \in Nat /\ TIMEOUT_CHECK_INTERVAL \in Nat
           /\ Late \in Nat /\ Late <= SERVER_TIMEOUT
           /\ Detection \in Nat /\ Steady \in Nat
  BY CldpAssumption DEF TypeOK, Detection, Steady

LEMMA PacketFields ==
    ASSUME NEW p \in Packets
    PROVE  p.address \in Servers /\ p.age \in Nat
  BY DEF Packets

LEMMA StampedType ==
    ASSUME NEW s \in Servers, NEW n \in Nat
    PROVE  Stamped(s, n) \in Packets /\ Stamped(s, n).address = s /\ Stamped(s, n).age = n
  BY DEF Stamped, Packets

LEMMA OlderType ==
    ASSUME NEW p \in Packets
    PROVE  Older(p) \in Packets /\ Older(p).address = p.address /\ Older(p).age = p.age + 1
  BY DEF Older, Packets

LEMMA InitInvariant == Init => IInv
  <1> SUFFICES ASSUME Init PROVE IInv
    OBVIOUS
  <1>1. Detection \in Nat /\ Steady \in Nat
    BY CldpAssumption DEF Detection, Steady
  <1>2. TypeOK
    BY <1>1, CldpAssumption DEF Init, TypeOK
  <1> QED
    BY <1>2 DEF Init, IInv, OneEntryPerServer

-----------------------------------------------------------------------------
(* One lemma per step.                                                     *)

LEMMA StartStep ==
    ASSUME IInv, NEW s \in Servers, Start(s)
    PROVE  IInv'
  <1>a. TypeOK
    BY DEF IInv
  <1>1. downFor' = [downFor EXCEPT ![s] = 0] /\ up' = [up EXCEPT ![s] = TRUE]
        /\ UNCHANGED <<server_list, heard, check, air, calm>>
    BY DEF Start, clientVars
  <1>2. TypeOK'
    BY <1>a, <1>1, Types DEF TypeOK, Start
  <1>3. \A x \in Servers : downFor'[x] = 0 \/ (downFor'[x] = downFor[x] /\ up'[x] = up[x])
    BY <1>a, <1>1, Types
  <1>4. \A p \in Packets, slack \in Nat : Recent(p, slack) => Recent(p, slack)'
    <2> SUFFICES ASSUME NEW p \in Packets, NEW slack \in Nat, Recent(p, slack)
                 PROVE  downFor'[p.address] <= p.age + slack
      BY DEF Recent
    <2> QED
      BY <1>3, PacketFields DEF Recent
  <1>5. \A x \in Servers : up'[x] => downFor'[x] = 0
    BY <1>3 DEF IInv
  <1> QED
    BY <1>a, <1>1, <1>2, <1>4, <1>5, Types DEF IInv, OneEntryPerServer

LEMMA CrashStep ==
    ASSUME IInv, NEW s \in Servers, Crash(s)
    PROVE  IInv'
  <1>a. TypeOK
    BY DEF IInv
  <1>1. UNCHANGED <<server_list, heard, check, air, downFor>> /\ up' = [up EXCEPT ![s] = FALSE]
    BY DEF Crash, clientVars
  <1>2. TypeOK'
    BY <1>a, <1>1, Types DEF TypeOK, Crash
  <1>3. \A x \in Servers : up'[x] => downFor'[x] = 0
    BY <1>a, <1>1, Types DEF IInv
  <1> QED
    BY <1>1, <1>2, <1>3 DEF IInv, OneEntryPerServer, Recent

LEMMA BroadcastStep ==
    ASSUME IInv, NEW s \in Servers, Broadcast(s)
    PROVE  IInv'
  <1>a. TypeOK
    BY DEF IInv
  <1>1. UNCHANGED <<server_list, heard, check, up, downFor, calm>>
        /\ air' = air \cup {Stamped(s, 0)} /\ up[s]
    BY DEF Broadcast, clientVars
  <1>2. Stamped(s, 0) \in Packets /\ Stamped(s, 0).address = s /\ Stamped(s, 0).age = 0
    BY StampedType
  <1>3. TypeOK'
    BY <1>a, <1>1, <1>2, Types DEF TypeOK, Broadcast
  <1>4. downFor[s] = 0
    BY <1>1 DEF IInv
  <1>5. Stamped(s, 0).age <= Late /\ Recent(Stamped(s, 0), 0)
    BY <1>a, <1>2, <1>4, Types DEF Recent
  <1> HIDE DEF Stamped
  <1>6. \A hello \in air' : hello.age <= Late /\ Recent(hello, 0)
    BY <1>1, <1>5 DEF IInv
  <1> QED
    BY <1>1, <1>3, <1>6 DEF IInv, OneEntryPerServer, Recent

LEMMA LoseStep ==
    ASSUME IInv, NEW hello \in air, Lose(hello)
    PROVE  IInv'
  <1>a. TypeOK
    BY DEF IInv
  <1>1. UNCHANGED <<server_list, heard, check, up, rest, downFor>> /\ air' \subseteq air
    BY DEF Lose, clientVars
  <1>2. TypeOK'
    <2>1. 0 \in 0 .. Steady /\ calm \in [Servers -> 0 .. Steady]
      BY <1>a, Types
    <2>2. calm' \in [Servers -> 0 .. Steady]
      BY <2>1 DEF Lose
    <2> QED
      BY <1>a, <1>1, <2>2, Types DEF TypeOK
  <1> QED
    BY <1>1, <1>2 DEF IInv, OneEntryPerServer, Recent

LEMMA HearStep ==
    ASSUME IInv, NEW hello \in air, Hear(hello)
    PROVE  IInv'
  <1> DEFINE s == hello.address
  <1>a. TypeOK
    BY DEF IInv
  <1>1. UNCHANGED <<server_list, check, up, rest, downFor, calm>> /\ air' \subseteq air
        /\ heard' = Stamped(s, 0)
    BY DEF Hear
  <1>2. s \in Servers /\ hello.age \in Nat
    BY <1>a, Types, PacketFields
  <1>3. heard' \in Packets /\ heard'.address = s /\ heard'.age = 0
    BY <1>1, <1>2, StampedType
  <1>4. TypeOK'
    BY <1>a, <1>1, <1>3, Types DEF TypeOK
  <1>5. downFor[s] \in Nat /\ downFor[s] <= Late
    BY <1>a, <1>2, Types DEF IInv, Recent
  <1>6. heard'.age <= Late /\ downFor'[heard'.address] <= heard'.age + Late
    BY <1>a, <1>1, <1>3, <1>5, Types
  <1> QED
    BY <1>1, <1>4, <1>6 DEF IInv, OneEntryPerServer, Recent

LEMMA RestartStep ==
    ASSUME IInv, Restart
    PROVE  IInv'
  <1>a. TypeOK
    BY DEF IInv
  <1>1. TypeOK'
    BY <1>a, Types DEF TypeOK, Restart
  <1> QED
    BY <1>1 DEF IInv, OneEntryPerServer, Recent, Restart

LEMMA UpdateStep ==
    ASSUME IInv, Update
    PROVE  IInv'
  <1>a. TypeOK /\ OneEntryPerServer
    BY DEF IInv
  <1>b. heard \in Packets /\ heard.age <= Late /\ Recent(heard, Late)
    BY <1>a, Types DEF Update, IInv
  <1>c. UNCHANGED <<check, up, rest, air, downFor, calm>> /\ heard' = None
    BY DEF Update
  <1>1. \A node \in server_list' : node = heard \/ (node \in server_list /\ node.address # heard.address)
    BY DEF Update, Known, Listed
  <1>2. server_list' \subseteq Packets
    BY <1>a, <1>b, <1>1, Types
  <1>3. TypeOK'
    BY <1>a, <1>c, <1>2, Types DEF TypeOK
  <1>4. heard.age <= SERVER_TIMEOUT + (TIMEOUT_CHECK_INTERVAL - check)
    <2>1. heard.age \in Nat
      BY <1>b, PacketFields
    <2> QED
      BY <1>a, <1>b, <2>1, Types
  <1>5. \A node \in server_list' :
            node.age <= SERVER_TIMEOUT + (TIMEOUT_CHECK_INTERVAL - check) /\ Recent(node, Late)
    BY <1>b, <1>1, <1>4 DEF IInv
  <1>6. OneEntryPerServer'
    BY <1>a, <1>1 DEF OneEntryPerServer
  <1> QED
    BY <1>c, <1>3, <1>5, <1>6 DEF IInv, Recent

LEMMA TimeoutStep ==
    ASSUME IInv, TimeoutCheck
    PROVE  IInv'
  <1>a. TypeOK
    BY DEF IInv
  <1>1. UNCHANGED <<heard, up, rest, air, downFor, calm>> /\ check' = TIMEOUT_CHECK_INTERVAL
    BY DEF TimeoutCheck
  <1>2. \A node \in server_list' : node \in server_list /\ ~ (node.age > SERVER_TIMEOUT)
    BY DEF TimeoutCheck, TimedOut
  <1>3. TypeOK'
    BY <1>a, <1>1, <1>2, Types DEF TypeOK
  <1>4. \A node \in server_list' :
            node.age <= SERVER_TIMEOUT + (TIMEOUT_CHECK_INTERVAL - check')
    <2> SUFFICES ASSUME NEW node \in server_list'
                 PROVE  node.age <= SERVER_TIMEOUT + (TIMEOUT_CHECK_INTERVAL - check')
      OBVIOUS
    <2>1. node.age \in Nat
      BY <1>a, <1>2, Types, PacketFields
    <2> QED
      BY <1>a, <1>1, <1>2, <2>1, Types
  <1> QED
    BY <1>1, <1>2, <1>3, <1>4 DEF IInv, OneEntryPerServer, Recent

LEMMA TickStep ==
    ASSUME IInv, Tick
    PROVE  IInv'
  <1>a. TypeOK /\ OneEntryPerServer
    BY DEF IInv
  <1>1. /\ check > - Late /\ check' = check - 1
        /\ server_list' = {Older(node) : node \in server_list}
        /\ air' = {Older(hello) : hello \in air}
        /\ \A hello \in air : hello.age < Late
        /\ heard' = IF heard = None THEN None ELSE Older(heard)
        /\ heard # None => heard.age < Late
        /\ UNCHANGED up
    BY DEF Tick
  <1>2. \A s \in Servers : /\ downFor'[s] \in 0 .. Detection + 1
                           /\ downFor'[s] <= downFor[s] + 1
                           /\ up[s] => downFor'[s] = downFor[s]
    BY <1>a, Types DEF Tick
  <1>b. \A p \in Packets, slack \in Nat :
            Recent(p, slack) => downFor'[Older(p).address] <= Older(p).age + slack
    <2> SUFFICES ASSUME NEW p \in Packets, NEW slack \in Nat, Recent(p, slack)
                 PROVE  downFor'[Older(p).address] <= Older(p).age + slack
      OBVIOUS
    <2>1. p.address \in Servers /\ p.age \in Nat
      BY PacketFields
    <2>2. downFor[p.address] \in Nat /\ downFor'[p.address] \in Nat
      BY <1>a, <1>2, <2>1, Types
    <2> QED
      BY <1>2, <2>1, <2>2, OlderType DEF Recent
  <1>3. \A p \in Packets, slack \in Nat : Recent(p, slack) => Recent(Older(p), slack)'
    BY <1>b DEF Recent, Older
  <1>4. TypeOK'
    <2>1. server_list' \subseteq Packets /\ air' \subseteq Packets
      BY <1>a, <1>1, Types, OlderType
    <2>2. heard' \in Packets \cup {None}
      BY <1>a, <1>1, Types, OlderType
    <2>3. check' \in - Late .. TIMEOUT_CHECK_INTERVAL
      BY <1>a, <1>1, Types
    <2>4. downFor' \in [Servers -> 0 .. Detection + 1]
      BY <1>2 DEF Tick
    <2>5. rest' \in [Servers -> Int]
      BY <1>a, Types DEF Tick
    <2>6. calm' \in [Servers -> 0 .. Steady]
      BY <1>a, Types DEF Tick
    <2> QED
      BY <1>a, <1>1, <2>1, <2>2, <2>3, <2>4, <2>5, <2>6 DEF TypeOK
  <1>5. \A s \in Servers : up'[s] => downFor'[s] = 0
    BY <1>1, <1>2 DEF IInv
  <1>6. \A hello \in air' : hello.age <= Late /\ Recent(hello, 0)'
    <2> SUFFICES ASSUME NEW p \in air
                 PROVE  Older(p).age <= Late /\ Recent(Older(p), 0)'
      BY <1>1 DEF Recent
    <2>1. p \in Packets /\ p.age < Late /\ Recent(p, 0)
      BY <1>a, <1>1, Types DEF IInv
    <2>2. p.age \in Nat /\ Late \in Nat
      BY <1>a, <2>1, Types, PacketFields
    <2> QED
      BY <1>3, <2>1, <2>2, OlderType
  <1>7. heard' # None => heard'.age <= Late /\ Recent(heard, Late)'
    <2> SUFFICES ASSUME heard' # None
                 PROVE  heard'.age <= Late /\ Recent(heard, Late)'
      OBVIOUS
    <2>a. heard # None /\ heard' = Older(heard)
      BY <1>1
    <2>1. heard \in Packets /\ heard.age < Late /\ Recent(heard, Late)
      BY <1>a, <1>1, <2>a, Types DEF IInv
    <2>2. heard.age \in Nat /\ Late \in Nat
      BY <1>a, <2>1, Types, PacketFields
    <2>3. Older(heard).age = heard.age + 1
      BY <2>1, OlderType
    <2>4. downFor'[heard'.address] <= heard'.age + Late
      BY <1>b, <2>a, <2>1, <2>2
    <2> QED
      BY <2>a, <2>1, <2>2, <2>3, <2>4 DEF Recent
  <1>8. \A node \in server_list' :
            /\ node.age <= SERVER_TIMEOUT + (TIMEOUT_CHECK_INTERVAL - check')
            /\ Recent(node, Late)'
    <2> SUFFICES ASSUME NEW p \in server_list
                 PROVE  /\ Older(p).age <= SERVER_TIMEOUT + (TIMEOUT_CHECK_INTERVAL - check')
                        /\ Recent(Older(p), Late)'
      BY <1>1 DEF Recent
    <2>1. p \in Packets /\ p.age <= SERVER_TIMEOUT + (TIMEOUT_CHECK_INTERVAL - check)
          /\ Recent(p, Late)
      BY <1>a, Types DEF IInv
    <2>2. p.age \in Nat /\ Late \in Nat
      BY <1>a, <2>1, Types, PacketFields
    <2>3. Older(p).age = p.age + 1
      BY <2>1, OlderType
    <2>4. Older(p).age <= SERVER_TIMEOUT + (TIMEOUT_CHECK_INTERVAL - check')
      BY <1>a, <1>1, <2>1, <2>2, <2>3, Types
    <2> QED
      BY <1>3, <2>1, <2>2, <2>4
  <1>9. OneEntryPerServer'
    <2> SUFFICES ASSUME NEW p \in server_list, NEW q \in server_list,
                        Older(p).address = Older(q).address
                 PROVE  Older(p) = Older(q)
      BY <1>1 DEF OneEntryPerServer
    <2>1. p \in Packets /\ q \in Packets
      BY <1>a, Types
    <2> QED
      BY <1>a, <2>1, OlderType DEF OneEntryPerServer
  <1> QED
    BY <1>4, <1>5, <1>6, <1>7, <1>8, <1>9 DEF IInv

LEMMA InvariantStep == IInv /\ [Next]_vars => IInv'
  <1> SUFFICES ASSUME IInv, [Next]_vars PROVE IInv'
    OBVIOUS
  <1>1. CASE UNCHANGED vars
    BY <1>1 DEF IInv, TypeOK, OneEntryPerServer, Recent, vars, clientVars
  <1> QED
    BY <1>1, StartStep, CrashStep, BroadcastStep, LoseStep, HearStep, RestartStep, UpdateStep,
       TimeoutStep, TickStep DEF Next, Arrives

-----------------------------------------------------------------------------
(* The theorems.                                                           *)

(* The inductive invariant: how old what the client knows can be, by the   *)
(* time since the last check (cldp_client.c, timeout_thread_handler).      *)
THEOREM Invariant == Spec => []IInv
  <1>1. Init => IInv
    BY InitInvariant
  <1>2. IInv /\ [Next]_vars => IInv'
    BY InvariantStep
  <1> QED
    BY <1>1, <1>2, PTL DEF Spec

(* Every variable holds a value of its C type.                             *)
THEOREM TypeCorrect == Spec => []TypeOK
  <1>1. IInv => TypeOK
    BY DEF IInv
  <1> QED
    BY <1>1, Invariant, PTL

LEMMA ListedAreRecent ==
    ASSUME IInv, NEW s \in Listed
    PROVE  s \in Servers /\ downFor[s] \in Nat /\ downFor[s] <= Detection
  <1>1. PICK node \in server_list : s = node.address
    BY DEF Listed
  <1>2. /\ node \in Packets /\ Recent(node, Late)
        /\ node.age <= SERVER_TIMEOUT + (TIMEOUT_CHECK_INTERVAL - check)
    BY Types DEF IInv
  <1>3. s \in Servers /\ node.age \in Nat
    BY <1>1, <1>2, PacketFields
  <1>4. downFor[s] \in Nat /\ downFor[s] <= node.age + Late
    BY <1>1, <1>2, <1>3, Types DEF IInv, Recent
  <1> QED
    BY <1>2, <1>3, <1>4, Types DEF IInv, Detection

AllRecent == \A s \in Listed : downFor[s] <= Detection

LEMMA AllListedAreRecent == IInv => AllRecent
  BY ListedAreRecent DEF AllRecent

(* A server that stopped has left the list after SERVER_TIMEOUT, a check,  *)
(* and twice the time that threads and packets may be late.                *)
THEOREM DeadServersLeaveInTime == Spec => []DeadServersAreGone
  <1>1. IInv => DeadServersAreGone
    <2> SUFFICES ASSUME IInv, NEW s \in Servers, downFor[s] > Detection, s \in Listed
                 PROVE  FALSE
      BY DEF DeadServersAreGone
    <2> QED
      BY ListedAreRecent, Types DEF IInv
  <1> QED
    BY <1>1, Invariant, PTL

-----------------------------------------------------------------------------
(* The failure detector.                                                   *)

LEMMA InitMaps == Init => Detector!Init
  BY DEF Init, Detector!Init, Listed

LEMMA StepMaps == IInv /\ AllRecent' /\ [Next]_vars => [Detector!Next]_(Detector!vars)
  <1> SUFFICES ASSUME IInv, AllRecent', [Next]_vars
               PROVE  Detector!Next \/ UNCHANGED Detector!vars
    OBVIOUS
  <1>a. TypeOK
    BY DEF IInv
  <1>b. ASSUME UNCHANGED <<server_list, up, downFor>> PROVE UNCHANGED Detector!vars
    BY <1>b DEF Detector!vars, Listed
  <1>1. ASSUME NEW s \in Servers, Start(s) PROVE Detector!Next
    <2>1. Detector!Start(s)
      BY <1>1 DEF Start, Detector!Start, clientVars, Listed
    <2> QED
      BY <2>1 DEF Detector!Next
  <1>2. ASSUME NEW s \in Servers, Crash(s) PROVE Detector!Next
    <2>1. Detector!Stop(s)
      BY <1>2 DEF Crash, Detector!Stop, clientVars, Listed
    <2> QED
      BY <2>1 DEF Detector!Next
  <1>3. ASSUME NEW s \in Servers, Broadcast(s) PROVE UNCHANGED Detector!vars
    BY <1>3, <1>b DEF Broadcast, clientVars
  <1>4. ASSUME NEW hello \in air, Arrives(hello) PROVE UNCHANGED Detector!vars
    BY <1>4, <1>b DEF Arrives, Lose, Hear, clientVars
  <1>c. ASSUME NEW gone \in SUBSET Servers, Listed' = Listed \ gone, UNCHANGED <<up, downFor>>
        PROVE  Detector!Next
    BY <1>c DEF Detector!Next, Detector!Forget
  <1>d. Listed \subseteq Servers
    BY <1>a, Types, PacketFields DEF Listed
  <1>5. CASE Restart
    <2>1. Listed' = Listed \ Listed
      BY <1>5 DEF Restart, Listed
    <2> QED
      BY <1>5, <1>c, <1>d, <2>1 DEF Restart
  <1>6. CASE TimeoutCheck
    <2>1. server_list' \subseteq server_list
      BY <1>6 DEF TimeoutCheck
    <2>2. Listed' = Listed \ (Listed \ Listed')
      BY <2>1 DEF Listed
    <2>3. Listed \ Listed' \in SUBSET Servers
      BY <1>d
    <2> QED
      BY <1>6, <1>c, <2>2, <2>3 DEF TimeoutCheck
  <1>7. CASE Update
    <2>1. UNCHANGED <<up, downFor>> /\ heard # None
      BY <1>7 DEF Update
    <2>2. heard \in Packets /\ heard.age <= Late /\ Recent(heard, Late)
      BY <1>a, <2>1, Types DEF IInv
    <2>3. heard.address \in Servers /\ heard.age \in Nat
      BY <2>2, PacketFields
    <2>4. CASE Known(heard.address)
      <3>1. server_list' = {IF node.address = heard.address THEN heard ELSE node
                               : node \in server_list}
        BY <1>7, <2>4 DEF Update
      <3>2. Listed' = Listed
        BY <2>4, <3>1 DEF Listed, Known
      <3> QED
        BY <2>1, <3>2 DEF Detector!vars
    <2>5. CASE ~ Known(heard.address)
      <3>1. Listed' = Listed \cup {heard.address}
        BY <1>7, <2>5 DEF Update, Listed
      <3>2. downFor[heard.address] \in Nat
        BY <1>a, <2>3, Types
      <3>3. downFor[heard.address] <= 2 * Late
        BY <1>a, <2>2, <2>3, <3>2, Types DEF Recent
      <3>4. Detector!Learn(heard.address)
        BY <2>1, <3>1, <3>3 DEF Detector!Learn
      <3> QED
        BY <2>3, <3>4 DEF Detector!Next
    <2> QED
      BY <2>4, <2>5
  <1>8. CASE Tick
    <2>1. downFor' = Detector!AfterASecond /\ UNCHANGED up
      BY <1>8 DEF Tick, Detector!AfterASecond
    <2>2. Listed' = Listed
      <3>1. \A node \in server_list : Older(node).address = node.address
        BY <1>a, Types, OlderType
      <3> QED
        BY <1>8, <3>1 DEF Tick, Listed
    <2>3. \A s \in Listed' : downFor'[s] <= Detection
      BY DEF AllRecent
    <2> QED
      BY <2>1, <2>2, <2>3 DEF Detector!Next, Detector!Tick
  <1>9. CASE UNCHANGED vars
    BY <1>9, <1>b DEF vars, clientVars
  <1> QED
    BY <1>1, <1>2, <1>3, <1>4, <1>5, <1>6, <1>7, <1>8, <1>9 DEF Next

(* The list is a failure detector that is complete in Detection seconds:   *)
(* a server gets on it only while it runs or just after, and leaves it.    *)
THEOREM DetectorImplemented == Spec => ImplementsDetector
  <1>1. Init => Detector!Init
    BY InitMaps
  <1>2. IInv /\ AllRecent' /\ [Next]_vars => [Detector!Next]_(Detector!vars)
    BY StepMaps
  <1>3. IInv => AllRecent
    BY AllListedAreRecent
  <1> QED
    BY <1>1, <1>2, <1>3, Invariant, PTL DEF Spec, ImplementsDetector, Detector!Spec

-----------------------------------------------------------------------------
(* Servers whose HELLOs come through.                                      *)

\* The list knows of a HELLO of s that is to seconds old or newer, or will from
\* one under way that is from .. to seconds old; or it knows nothing of s.
Traced(list, packet, inAir, s, from, to) ==
    \/ packet.address # s /\ \A node \in list : node.address # s
    \/ packet.address = s /\ packet.age <= to
    \/ \E node \in list : node.address = s /\ node.age <= to
    \/ \E hello \in inAir : hello.address = s /\ from <= hello.age /\ hello.age <= to

\* A server sends in time, or is down.
PaceInv ==
    \A s \in Servers : /\ rest[s] <= INTERVAL
                       /\ up[s] => rest[s] >= - Late
                       /\ ~ up[s] => calm[s] = 0 /\ rest[s] = 0

\* The last HELLO of a server is traced.
LastInv ==
    \A s \in Servers :
        calm[s] > INTERVAL - rest[s] =>
            Traced(server_list, heard, air, s, INTERVAL - rest[s], INTERVAL - rest[s])

\* However far one looks back, so is one of an INTERVAL before that.
EachInv ==
    \A s \in Servers, back \in Nat :
        calm[s] > back + INTERVAL + Late =>
            Traced(server_list, heard, air, s, back + 1, back + INTERVAL + Late)

\* While the HELLO thread waits for the mutex, the node is not much older.
WaitInv ==
    \A node \in server_list :
        node.address = heard.address =>
            /\ heard.age <= node.age
            /\ calm[node.address] > INTERVAL + 2 * Late + heard.age =>
                  node.age <= INTERVAL + 2 * Late + heard.age

\* The inductive invariant of SteadyServersStay.
SteadyInv == IInv /\ PaceInv /\ LastInv /\ EachInv /\ WaitInv

LEMMA InitSteady == Init => SteadyInv
  <1> SUFFICES ASSUME Init PROVE SteadyInv
    OBVIOUS
  <1>1. IInv
    BY InitInvariant
  <1>2. INTERVAL \in Nat /\ Late \in Nat
    BY CldpAssumption
  <1>3. \A s \in Servers : calm[s] = 0 /\ rest[s] = 0 /\ ~ up[s]
    BY DEF Init
  <1>4. server_list = {}
    BY DEF Init
  <1> QED
    BY <1>1, <1>2, <1>3, <1>4 DEF SteadyInv, PaceInv, LastInv, EachInv, WaitInv

\* What is traced stays traced by a step in which no time passes.
LEMMA TraceKept ==
    ASSUME SteadyInv, PaceInv', TypeOK',
           \A s \in Servers :
               \/ calm'[s] = 0
               \/ /\ calm'[s] = calm[s] /\ rest'[s] = rest[s]
                  /\ \A from, to \in Nat :
                        Traced(server_list, heard, air, s, from, to) =>
                            Traced(server_list', heard', air', s, from, to)
    PROVE  LastInv' /\ EachInv'
  <1>a. TypeOK /\ INTERVAL \in Nat /\ Late \in Nat
    BY CldpAssumption DEF SteadyInv, IInv
  <1>b. \A s \in Servers : /\ rest[s] \in Int /\ rest'[s] \in Int
                           /\ rest[s] <= INTERVAL /\ rest'[s] <= INTERVAL
    BY <1>a DEF SteadyInv, PaceInv, TypeOK
  <1>1. ASSUME NEW s \in Servers, calm'[s] > INTERVAL - rest'[s]
        PROVE  Traced(server_list', heard', air', s, INTERVAL - rest'[s], INTERVAL - rest'[s])
    <2>1. INTERVAL - rest'[s] \in Nat
      BY <1>a, <1>b
    <2>2. calm'[s] = calm[s] /\ rest'[s] = rest[s]
      BY <1>1, <1>a, <2>1
    <2>3. Traced(server_list, heard, air, s, INTERVAL - rest'[s], INTERVAL - rest'[s])
      BY <1>1, <2>2 DEF SteadyInv, LastInv
    <2>4. calm'[s] # 0
      BY <1>1, <2>1
    <2> HIDE DEF Traced
    <2> QED
      BY <2>1, <2>3, <2>4
  <1>2. ASSUME NEW s \in Servers, NEW back \in Nat, calm'[s] > back + INTERVAL + Late
        PROVE  Traced(server_list', heard', air', s, back + 1, back + INTERVAL + Late)
    <2>1. calm'[s] # 0 /\ back + 1 \in Nat /\ back + INTERVAL + Late \in Nat
      BY <1>2, <1>a
    <2>2. calm'[s] = calm[s]
      BY <2>1
    <2>3. Traced(server_list, heard, air, s, back + 1, back + INTERVAL + Late)
      BY <1>2, <2>2 DEF SteadyInv, EachInv
    <2> QED
      BY <2>1, <2>3
  <1> QED
    BY <1>1, <1>2 DEF LastInv, EachInv

LEMMA StartSteady ==
    ASSUME SteadyInv, NEW s \in Servers, Start(s)
    PROVE  SteadyInv'
  <1>1. IInv'
    BY StartStep DEF SteadyInv
  <1>a. TypeOK /\ TypeOK' /\ INTERVAL \in Nat
    BY <1>1, CldpAssumption DEF SteadyInv, IInv
  <1>2. UNCHANGED <<server_list, heard, air, calm>> /\ ~ up[s]
        /\ up' = [up EXCEPT ![s] = TRUE] /\ rest' = [rest EXCEPT ![s] = 0]
    BY DEF Start, clientVars
  <1>3. \A x \in Servers : calm'[x] = 0 \/ (calm'[x] = calm[x] /\ rest'[x] = rest[x])
    BY <1>a, <1>2 DEF SteadyInv, PaceInv, TypeOK
  <1>4. PaceInv'
    BY <1>a, <1>2, CldpAssumption DEF SteadyInv, PaceInv, TypeOK
  <1>5. LastInv' /\ EachInv'
    BY <1>a, <1>2, <1>3, <1>4, TraceKept
  <1>6. WaitInv'
    BY <1>2 DEF SteadyInv, WaitInv
  <1> QED
    BY <1>1, <1>4, <1>5, <1>6 DEF SteadyInv

LEMMA CrashSteady ==
    ASSUME SteadyInv, NEW s \in Servers, Crash(s)
    PROVE  SteadyInv'
  <1>1. IInv'
    BY CrashStep DEF SteadyInv
  <1>a. TypeOK /\ TypeOK' /\ INTERVAL \in Nat /\ Late \in Nat
    BY <1>1, CldpAssumption DEF SteadyInv, IInv
  <1>2. UNCHANGED <<server_list, heard, air>> /\ calm' = [calm EXCEPT ![s] = 0]
        /\ up' = [up EXCEPT ![s] = FALSE] /\ rest' = [rest EXCEPT ![s] = 0]
    BY DEF Crash, clientVars
  <1>3. \A x \in Servers : calm'[x] = 0 \/ (calm'[x] = calm[x] /\ rest'[x] = rest[x])
    BY <1>a, <1>2 DEF TypeOK
  <1>4. PaceInv'
    BY <1>a, <1>2 DEF SteadyInv, PaceInv, TypeOK
  <1>5. LastInv' /\ EachInv'
    BY <1>a, <1>2, <1>3, <1>4, TraceKept
  <1>6. WaitInv'
    <2> SUFFICES ASSUME NEW node \in server_list, node.address = heard.address
                 PROVE  /\ heard.age <= node.age
                        /\ calm'[node.address] > INTERVAL + 2 * Late + heard.age =>
                              node.age <= INTERVAL + 2 * Late + heard.age
      BY <1>2 DEF WaitInv
    <2>1. node.address \in Servers /\ heard.age \in Nat
      BY <1>a, Types, PacketFields DEF None
    <2>2. calm'[node.address] = 0 \/ calm'[node.address] = calm[node.address]
      BY <1>3, <2>1
    <2> QED
      BY <1>a, <2>1, <2>2 DEF SteadyInv, WaitInv
  <1> QED
    BY <1>1, <1>4, <1>5, <1>6 DEF SteadyInv

LEMMA BroadcastSteady ==
    ASSUME SteadyInv, NEW s \in Servers, Broadcast(s)
    PROVE  SteadyInv'
  <1>1. IInv'
    BY BroadcastStep DEF SteadyInv
  <1>a. TypeOK /\ TypeOK' /\ INTERVAL \in Nat /\ Late \in Nat
    BY <1>1, CldpAssumption DEF SteadyInv, IInv
  <1>2. UNCHANGED <<server_list, heard, up, calm>> /\ up[s]
        /\ air' = air \cup {Stamped(s, 0)} /\ rest' = [rest EXCEPT ![s] = INTERVAL]
    BY DEF Broadcast, clientVars
  <1>b. rest \in [Servers -> Int] /\ calm \in [Servers -> Nat]
    BY <1>a, Types
  <1>3. PaceInv'
    BY <1>a, <1>b, <1>2 DEF SteadyInv, PaceInv
  <1>4. \A x \in Servers, from, to \in Nat :
            Traced(server_list, heard, air, x, from, to) =>
                Traced(server_list', heard', air', x, from, to)
    BY <1>2 DEF Traced
  <1>5. ASSUME NEW x \in Servers, calm'[x] > INTERVAL - rest'[x]
        PROVE  Traced(server_list', heard', air', x, INTERVAL - rest'[x], INTERVAL - rest'[x])
    <2>1. CASE x = s
      <3>1. INTERVAL - rest'[x] = 0
        BY <1>a, <1>b, <1>2, <2>1
      <3>2. Stamped(s, 0).address = x /\ Stamped(s, 0).age = 0 /\ Stamped(s, 0) \in air'
        BY <1>2, <2>1, StampedType
      <3> QED
        BY <3>1, <3>2 DEF Traced
    <2>2. CASE x # s
      <3>1. rest'[x] = rest[x] /\ rest[x] \in Int /\ rest[x] <= INTERVAL
        BY <1>b, <1>2, <2>2 DEF SteadyInv, PaceInv
      <3>2. INTERVAL - rest[x] \in Nat
        BY <1>a, <3>1
      <3>3. Traced(server_list, heard, air, x, INTERVAL - rest[x], INTERVAL - rest[x])
        BY <1>2, <1>5, <3>1 DEF SteadyInv, LastInv
      <3> QED
        BY <1>4, <3>1, <3>2, <3>3
    <2> QED
      BY <2>1, <2>2
  <1>6. EachInv'
    <2> SUFFICES ASSUME NEW x \in Servers, NEW back \in Nat, calm[x] > back + INTERVAL + Late
                 PROVE  Traced(server_list', heard', air', x, back + 1, back + INTERVAL + Late)
      BY <1>2 DEF EachInv
    <2>1. back + 1 \in Nat /\ back + INTERVAL + Late \in Nat
      BY <1>a
    <2>2. Traced(server_list, heard, air, x, back + 1, back + INTERVAL + Late)
      BY DEF SteadyInv, EachInv
    <2> QED
      BY <1>4, <2>1, <2>2
  <1>7. LastInv' /\ WaitInv'
    BY <1>2, <1>5 DEF SteadyInv, LastInv, WaitInv
  <1> QED
    BY <1>1, <1>3, <1>6, <1>7 DEF SteadyInv

LEMMA LoseSteady ==
    ASSUME SteadyInv, NEW hello \in air, Lose(hello)
    PROVE  SteadyInv'
  <1>1. IInv'
    BY LoseStep DEF SteadyInv
  <1>a. TypeOK /\ TypeOK' /\ INTERVAL \in Nat /\ Late \in Nat
    BY <1>1, CldpAssumption DEF SteadyInv, IInv
  <1>2. UNCHANGED <<server_list, heard, up, rest>> /\ air' = air \ {hello}
        /\ calm' = [calm EXCEPT ![hello.address] = 0]
    BY DEF Lose, clientVars
  <1>3. \A x \in Servers : IF x = hello.address THEN calm'[x] = 0 ELSE calm'[x] = calm[x]
    BY <1>a, <1>2 DEF TypeOK
  <1>4. \A x \in Servers :
            \/ calm'[x] = 0
            \/ /\ calm'[x] = calm[x] /\ rest'[x] = rest[x]
               /\ \A from, to \in Nat :
                     Traced(server_list, heard, air, x, from, to) =>
                         Traced(server_list', heard', air', x, from, to)
    BY <1>2, <1>3 DEF Traced
  <1>5. PaceInv'
    BY <1>2, <1>3 DEF SteadyInv, PaceInv
  <1>6. LastInv' /\ EachInv'
    BY <1>a, <1>4, <1>5, TraceKept
  <1>7. WaitInv'
    <2> SUFFICES ASSUME NEW node \in server_list, node.address = heard.address
                 PROVE  /\ heard.age <= node.age
                        /\ calm'[node.address] > INTERVAL + 2 * Late + heard.age =>
                              node.age <= INTERVAL + 2 * Late + heard.age
      BY <1>2 DEF WaitInv
    <2>1. node.address \in Servers /\ heard.age \in Nat
      BY <1>a, Types, PacketFields DEF None
    <2>2. calm'[node.address] = 0 \/ calm'[node.address] = calm[node.address]
      BY <1>3, <2>1
    <2> QED
      BY <1>a, <2>1, <2>2 DEF SteadyInv, WaitInv
  <1> QED
    BY <1>1, <1>5, <1>6, <1>7 DEF SteadyInv

LEMMA HearSteady ==
    ASSUME SteadyInv, NEW hello \in air, Hear(hello)
    PROVE  SteadyInv'
  <1> DEFINE s == hello.address
  <1>1. IInv'
    BY HearStep DEF SteadyInv
  <1>a. TypeOK /\ TypeOK' /\ OneEntryPerServer /\ INTERVAL \in Nat /\ Late \in Nat
    BY <1>1, CldpAssumption DEF SteadyInv, IInv
  <1>2. UNCHANGED <<server_list, up, rest, calm>> /\ air' = air \ {hello}
        /\ heard = None /\ heard' = Stamped(s, 0)
    BY DEF Hear
  <1>3. s \in Servers /\ heard'.address = s /\ heard'.age = 0
    BY <1>a, <1>2, Types, PacketFields, StampedType
  <1>b. heard.address \notin Servers
    BY <1>2, CldpAssumption DEF None
  <1>4. \A x \in Servers, from, to \in Nat :
            Traced(server_list, heard, air, x, from, to) =>
                Traced(server_list', heard', air', x, from, to)
    <2> SUFFICES ASSUME NEW x \in Servers, NEW from \in Nat, NEW to \in Nat,
                        Traced(server_list, heard, air, x, from, to)
                 PROVE  Traced(server_list', heard', air', x, from, to)
      OBVIOUS
    <2>1. CASE x = s
      BY <1>3, <2>1 DEF Traced
    <2>2. CASE x # s
      BY <1>2, <1>3, <1>b, <2>2 DEF Traced
    <2> QED
      BY <2>1, <2>2
  <1>5. PaceInv'
    BY <1>2 DEF SteadyInv, PaceInv
  <1>6. LastInv' /\ EachInv'
    BY <1>a, <1>2, <1>4, <1>5, TraceKept
  <1>7. WaitInv'
    <2> SUFFICES ASSUME NEW node \in server_list, node.address = s
                 PROVE  /\ 0 <= node.age
                        /\ calm[s] > INTERVAL + 2 * Late => node.age <= INTERVAL + 2 * Late
      BY <1>a, <1>2, <1>3 DEF WaitInv
    <2>1. node.age \in Nat
      BY <1>a, Types, PacketFields
    <2>2. ASSUME calm[s] > INTERVAL + 2 * Late PROVE node.age <= INTERVAL + 2 * Late
      <3>1. Late + INTERVAL + Late = INTERVAL + 2 * Late
        BY <1>a
      <3>2. Traced(server_list, heard, air, s, Late + 1, INTERVAL + 2 * Late)
        BY <1>a, <1>3, <2>2, <3>1 DEF SteadyInv, EachInv
      <3>3. ~ \E packet \in air : packet.address = s /\ Late + 1 <= packet.age
        <4> SUFFICES ASSUME NEW packet \in air PROVE ~ (Late + 1 <= packet.age)
          OBVIOUS
        <4>1. packet.age \in Nat /\ packet.age <= Late
          BY <1>a, Types, PacketFields DEF SteadyInv, IInv
        <4> QED
          BY <1>a, <4>1
      <3>4. PICK other \in server_list : other.address = s /\ other.age <= INTERVAL + 2 * Late
        BY <1>b, <1>3, <3>2, <3>3 DEF Traced
      <3> QED
        BY <1>a, <3>4 DEF OneEntryPerServer
    <2> QED
      BY <2>1, <2>2
  <1> QED
    BY <1>1, <1>5, <1>6, <1>7 DEF SteadyInv

LEMMA RestartSteady ==
    ASSUME SteadyInv, Restart
    PROVE  SteadyInv'
  <1>1. IInv'
    BY RestartStep DEF SteadyInv
  <1>a. TypeOK'
    BY <1>1 DEF IInv
  <1>2. server_list' = {} /\ heard' = None /\ UNCHANGED <<up, rest, air, calm>>
    BY DEF Restart
  <1>3. PaceInv' /\ WaitInv'
    BY <1>2 DEF SteadyInv, PaceInv, WaitInv
  <1>4. \A x \in Servers, from, to \in Nat : Traced(server_list', heard', air', x, from, to)
    BY <1>2, CldpAssumption DEF Traced, None
  <1>5. LastInv' /\ EachInv'
    BY <1>a, <1>2, <1>3, <1>4, TraceKept
  <1> QED
    BY <1>1, <1>3, <1>5 DEF SteadyInv

LEMMA UpdateSteady ==
    ASSUME SteadyInv, Update
    PROVE  SteadyInv'
  <1>1. IInv'
    BY UpdateStep DEF SteadyInv
  <1>a. TypeOK /\ TypeOK' /\ INTERVAL \in Nat /\ Late \in Nat
    BY <1>1, CldpAssumption DEF SteadyInv, IInv
  <1>2. UNCHANGED <<up, rest, air, calm>> /\ heard # None /\ heard' = None
    BY DEF Update
  <1>b. heard'.address \notin Servers
    BY <1>2, CldpAssumption DEF None
  <1>3. /\ heard \in server_list'
        /\ \A node \in server_list : node.address # heard.address => node \in server_list'
        /\ \A node \in server_list' : node # heard => node \in server_list
    BY DEF Update, Known, Listed
  <1>4. \A x \in Servers, from, to \in Nat :
            Traced(server_list, heard, air, x, from, to) =>
                Traced(server_list', heard', air', x, from, to)
    <2> SUFFICES ASSUME NEW x \in Servers, NEW from \in Nat, NEW to \in Nat,
                        Traced(server_list, heard, air, x, from, to)
                 PROVE  Traced(server_list', heard', air', x, from, to)
      OBVIOUS
    <2>1. CASE heard.address = x /\ heard.age <= to
      BY <1>3, <2>1 DEF Traced
    <2>2. CASE \E node \in server_list : node.address = x /\ node.age <= to
      <3>1. PICK node \in server_list : node.address = x /\ node.age <= to
        BY <2>2
      <3>2. CASE node.address # heard.address
        BY <1>3, <3>1, <3>2 DEF Traced
      <3>3. CASE node.address = heard.address
        <4>1. heard.age \in Nat /\ node.age \in Nat
          BY <1>a, <1>2, Types, PacketFields
        <4>2. heard.age <= to
          BY <3>1, <3>3, <4>1 DEF SteadyInv, WaitInv
        <4> QED
          BY <1>3, <3>1, <3>3, <4>2 DEF Traced
      <3> QED
        BY <3>2, <3>3
    <2>3. CASE \E hello \in air : hello.address = x /\ from <= hello.age /\ hello.age <= to
      BY <1>2, <2>3 DEF Traced
    <2>4. CASE heard.address # x /\ \A node \in server_list : node.address # x
      BY <1>b, <1>3, <2>4 DEF Traced
    <2> QED
      BY <2>1, <2>2, <2>3, <2>4 DEF Traced
  <1>5. PaceInv'
    BY <1>2 DEF SteadyInv, PaceInv
  <1>6. LastInv' /\ EachInv'
    BY <1>a, <1>2, <1>4, <1>5, TraceKept
  <1>7. \A node \in server_list' : node.address \in Servers
    BY <1>a, Types, PacketFields DEF TypeOK
  <1>8. WaitInv'
    BY <1>b, <1>7 DEF WaitInv
  <1> QED
    BY <1>1, <1>5, <1>6, <1>8 DEF SteadyInv

LEMMA TimeoutSteady ==
    ASSUME SteadyInv, TimeoutCheck
    PROVE  SteadyInv'
  <1>1. IInv'
    BY TimeoutStep DEF SteadyInv
  <1>a. TypeOK /\ TypeOK' /\ SERVER_TIMEOUT \in Nat /\ Late \in Nat /\ Late <= SERVER_TIMEOUT
    BY <1>1, CldpAssumption DEF SteadyInv, IInv
  <1>2. UNCHANGED <<heard, up, rest, air, calm>>
        /\ server_list' = {node \in server_list : ~ (node.age > SERVER_TIMEOUT)}
    BY DEF TimeoutCheck, TimedOut
  <1>3. \A x \in Servers, from, to \in Nat :
            Traced(server_list, heard, air, x, from, to) =>
                Traced(server_list', heard', air', x, from, to)
    <2> SUFFICES ASSUME NEW x \in Servers, NEW from \in Nat, NEW to \in Nat,
                        Traced(server_list, heard, air, x, from, to)
                 PROVE  Traced(server_list', heard', air', x, from, to)
      OBVIOUS
    <2>1. CASE \E node \in server_list : node.address = x /\ node.age <= to
      <3>1. PICK node \in server_list : node.address = x /\ node.age <= to
        BY <2>1
      <3>2. node.age \in Nat
        BY <1>a, <3>1, Types, PacketFields
      <3>3. CASE ~ (node.age > SERVER_TIMEOUT)
        BY <1>2, <3>1, <3>3 DEF Traced
      <3>4. CASE node.age > SERVER_TIMEOUT
        <4>1. heard # None => heard.age \in Nat /\ heard.age <= Late
          BY <1>a, Types, PacketFields DEF SteadyInv, IInv
        <4>2. heard.address = x => heard.age <= to
          BY <1>a, <3>1, <3>2, <3>4, <4>1, CldpAssumption DEF None
        <4>3. \A other \in server_list' : other.address # x
          BY <1>2, <3>1, <3>4 DEF SteadyInv, IInv, OneEntryPerServer
        <4> QED
          BY <1>2, <4>2, <4>3 DEF Traced
      <3> QED
        BY <3>3, <3>4
    <2>2. CASE ~ \E node \in server_list : node.address = x /\ node.age <= to
      BY <1>2, <2>2 DEF Traced
    <2> QED
      BY <2>1, <2>2
  <1>4. PaceInv' /\ WaitInv'
    BY <1>2 DEF SteadyInv, PaceInv, WaitInv
  <1>5. LastInv' /\ EachInv'
    BY <1>a, <1>2, <1>3, <1>4, TraceKept
  <1> QED
    BY <1>1, <1>4, <1>5 DEF SteadyInv

LEMMA TickSteady ==
    ASSUME SteadyInv, Tick
    PROVE  SteadyInv'
  <1>1. IInv'
    BY TickStep DEF SteadyInv
  <1>a. TypeOK /\ INTERVAL \in Nat /\ Late \in Nat
    BY CldpAssumption DEF SteadyInv, IInv
  <1>b. \A x \in Servers : rest[x] \in Int /\ calm[x] \in Nat /\ calm'[x] \in Nat
    BY <1>1, <1>a, Types DEF IInv, TypeOK
  <1>2. /\ server_list' = {Older(node) : node \in server_list}
        /\ air' = {Older(hello) : hello \in air}
        /\ heard' = IF heard = None THEN None ELSE Older(heard)
        /\ UNCHANGED up
    BY DEF Tick
  <1>3. \A x \in Servers : /\ rest'[x] = IF up[x] THEN rest[x] - 1 ELSE 0
                           /\ up[x] => rest[x] > - Late
                           /\ calm'[x] <= calm[x] + 1
                           /\ ~ up[x] => calm'[x] = calm[x]
    BY <1>b DEF Tick
  <1>c. /\ \A node \in server_list : node \in Packets
        /\ \A hello \in air : hello \in Packets
        /\ heard.address \in Servers => heard \in Packets /\ heard # None
    BY <1>a, Types, CldpAssumption DEF None
  <1>4. /\ heard'.address = heard.address
        /\ heard.address \in Servers => heard'.age = heard.age + 1 /\ heard.age \in Nat
    BY <1>a, <1>2, <1>c, Types, OlderType, PacketFields
  <1>5. \A x \in Servers, from, to \in Int :
            Traced(server_list, heard, air, x, from, to) =>
                Traced(server_list', heard', air', x, from + 1, to + 1)
    <2> SUFFICES ASSUME NEW x \in Servers, NEW from \in Int, NEW to \in Int,
                        Traced(server_list, heard, air, x, from, to)
                 PROVE  Traced(server_list', heard', air', x, from + 1, to + 1)
      OBVIOUS
    <2>1. CASE \E hello \in air : hello.address = x /\ from <= hello.age /\ hello.age <= to
      <3>1. PICK hello \in air : hello.address = x /\ from <= hello.age /\ hello.age <= to
        BY <2>1
      <3>2. hello \in Packets /\ hello.age \in Nat
        BY <1>c, PacketFields
      <3>3. /\ Older(hello).address = x
            /\ from + 1 <= Older(hello).age /\ Older(hello).age <= to + 1
        BY <3>1, <3>2, OlderType
      <3> QED
        BY <1>2, <3>3 DEF Traced
    <2>2. CASE \E node \in server_list : node.address = x /\ node.age <= to
      <3>1. PICK node \in server_list : node.address = x /\ node.age <= to
        BY <2>2
      <3>2. node \in Packets /\ node.age \in Nat
        BY <1>c, PacketFields
      <3>3. Older(node).address = x /\ Older(node).age <= to + 1
        BY <3>1, <3>2, OlderType
      <3> QED
        BY <1>2, <3>3 DEF Traced
    <2>3. CASE heard.address = x /\ heard.age <= to
      BY <1>4, <2>3 DEF Traced
    <2>4. CASE heard.address # x /\ \A node \in server_list : node.address # x
      <3>1. \A node \in server_list : Older(node).address # x
        BY <1>c, <2>4, OlderType
      <3> QED
        BY <1>2, <1>4, <2>4, <3>1 DEF Traced
    <2> QED
      BY <2>1, <2>2, <2>3, <2>4 DEF Traced
  <1>6. PaceInv'
    BY <1>a, <1>b, <1>2, <1>3 DEF SteadyInv, PaceInv
  <1>7. ASSUME NEW x \in Servers, calm[x] > INTERVAL - rest[x]
        PROVE  Traced(server_list', heard', air', x,
                      INTERVAL - rest[x] + 1, INTERVAL - rest[x] + 1)
    <2>1. INTERVAL - rest[x] \in Int
      BY <1>a, <1>b
    <2>2. Traced(server_list, heard, air, x, INTERVAL - rest[x], INTERVAL - rest[x])
      BY <1>7 DEF SteadyInv, LastInv
    <2> QED
      BY <1>5, <2>1, <2>2
  <1>8. LastInv'
    <2> SUFFICES ASSUME NEW x \in Servers, calm'[x] > INTERVAL - rest'[x]
                 PROVE  Traced(server_list', heard', air', x,
                               INTERVAL - rest'[x], INTERVAL - rest'[x])
      BY DEF LastInv
    <2>1. up[x]
      BY <1>a, <1>3 DEF SteadyInv, PaceInv
    <2>2. INTERVAL - rest'[x] = INTERVAL - rest[x] + 1 /\ calm[x] > INTERVAL - rest[x]
      BY <1>a, <1>b, <1>3, <2>1
    <2> QED
      BY <1>7, <2>2
  <1>9. EachInv'
    <2> SUFFICES ASSUME NEW x \in Servers, NEW back \in Nat, calm'[x] > back + INTERVAL + Late
                 PROVE  Traced(server_list', heard', air', x, back + 1, back + INTERVAL + Late)
      BY DEF EachInv
    <2>1. up[x]
      BY <1>a, <1>3 DEF SteadyInv, PaceInv
    <2>2. CASE back = 0
      <3> DEFINE since == INTERVAL - rest[x] + 1
      <3>1. calm[x] > INTERVAL - rest[x]
        BY <1>a, <1>b, <1>3, <2>1, <2>2
      <3>2. 1 <= since /\ since <= INTERVAL + Late /\ since \in Int
        BY <1>a, <1>b, <1>3, <2>1 DEF SteadyInv, PaceInv
      <3>3. Traced(server_list', heard', air', x, since, since)
        BY <1>7, <3>1
      <3>4. /\ \A node \in server_list' : node.age \in Nat
            /\ \A hello \in air' : hello.age \in Nat
            /\ heard'.address \in Servers => heard'.age \in Nat
        BY <1>1, <1>4, Types, PacketFields DEF IInv, TypeOK
      <3> HIDE DEF since
      <3>5. \A age \in Nat : age <= since => age <= back + INTERVAL + Late
        BY <1>a, <2>2, <3>2
      <3>6. \A age \in Nat : since <= age => back + 1 <= age
        BY <2>2, <3>2
      <3> QED
        BY <3>3, <3>4, <3>5, <3>6 DEF Traced
    <2>3. CASE back # 0
      <3>1. back - 1 \in Nat /\ calm[x] > back - 1 + INTERVAL + Late
        BY <1>a, <1>b, <1>3, <2>3
      <3>2. Traced(server_list, heard, air, x, back - 1 + 1, back - 1 + INTERVAL + Late)
        BY <3>1 DEF SteadyInv, EachInv
      <3>3. Traced(server_list', heard', air', x, back - 1 + 1 + 1, back - 1 + INTERVAL + Late + 1)
        BY <1>5, <1>a, <3>1, <3>2
      <3>4. back - 1 + 1 + 1 = back + 1
            /\ back - 1 + INTERVAL + Late + 1 = back + INTERVAL + Late
        BY <1>a
      <3> QED
        BY <3>3, <3>4
    <2> QED
      BY <2>2, <2>3
  <1>10. WaitInv'
    <2> SUFFICES ASSUME NEW node \in server_list, Older(node).address = heard'.address
                 PROVE  /\ heard'.age <= Older(node).age
                        /\ calm'[Older(node).address] > INTERVAL + 2 * Late + heard'.age =>
                              Older(node).age <= INTERVAL + 2 * Late + heard'.age
      BY <1>2 DEF WaitInv
    <2>1. node.address \in Servers /\ node.age \in Nat
          /\ Older(node).address = node.address /\ Older(node).age = node.age + 1
      BY <1>c, PacketFields, OlderType
    <2>2. node.address = heard.address /\ heard'.age = heard.age + 1 /\ heard.age \in Nat
      BY <1>4, <2>1
    <2>3. /\ heard.age <= node.age
          /\ calm[node.address] > INTERVAL + 2 * Late + heard.age =>
                node.age <= INTERVAL + 2 * Late + heard.age
      BY <2>2 DEF SteadyInv, WaitInv
    <2> QED
      BY <1>a, <1>b, <1>3, <2>1, <2>2, <2>3
  <1> QED
    BY <1>1, <1>6, <1>8, <1>9, <1>10 DEF SteadyInv

LEMMA SteadyStep == SteadyInv /\ [Next]_vars => SteadyInv'
  <1> SUFFICES ASSUME SteadyInv, [Next]_vars PROVE SteadyInv'
    OBVIOUS
  <1>1. CASE UNCHANGED vars
    <2>1. IInv'
      BY <1>1, InvariantStep DEF SteadyInv
    <2> QED
      BY <1>1, <2>1 DEF SteadyInv, PaceInv, LastInv, EachInv, WaitInv, vars, clientVars
  <1> QED
    BY <1>1, StartSteady, CrashSteady, BroadcastSteady, LoseSteady, HearSteady, RestartSteady,
       UpdateSteady, TimeoutSteady, TickSteady DEF Next, Arrives

(* A check keeps a server that has been up for Steady seconds: its node is *)
(* at most INTERVAL + 3 * Late seconds old.                                *)
LEMMA CheckKeepsSteady ==
    ASSUME INTERVAL + 3 * Late <= SERVER_TIMEOUT,
           SteadyInv, TimeoutCheck, NEW s \in Listed, calm[s] = Steady
    PROVE  s \in Listed'
  <1>a. TypeOK /\ INTERVAL \in Nat /\ Late \in Nat /\ SERVER_TIMEOUT \in Nat
    BY CldpAssumption DEF SteadyInv, IInv
  <1>1. PICK node \in server_list : node.address = s
    BY DEF Listed
  <1>2. s \in Servers /\ node.age \in Nat
    BY <1>a, <1>1, Types, PacketFields
  <1>3. ASSUME NEW other \in server_list, other.address = s, other.age <= SERVER_TIMEOUT
        PROVE  s \in Listed'
    BY <1>a, <1>3, Types, PacketFields DEF TimeoutCheck, TimedOut, Listed
  <1>4. Late + INTERVAL + Late = INTERVAL + 2 * Late /\ calm[s] > INTERVAL + 2 * Late
    BY <1>a DEF Steady
  <1>5. Traced(server_list, heard, air, s, Late + 1, INTERVAL + 2 * Late)
    BY <1>a, <1>2, <1>4 DEF SteadyInv, EachInv
  <1>6. ~ \E packet \in air : packet.address = s /\ Late + 1 <= packet.age
    <2> SUFFICES ASSUME NEW packet \in air PROVE ~ (Late + 1 <= packet.age)
      OBVIOUS
    <2>1. packet.age \in Nat /\ packet.age <= Late
      BY <1>a, Types, PacketFields DEF SteadyInv, IInv
    <2> QED
      BY <1>a, <2>1
  <1>7. CASE heard.address = s
    <2>1. heard.age \in Nat /\ heard.age <= Late
      BY <1>a, <1>2, <1>7, Types, PacketFields, CldpAssumption DEF None, SteadyInv, IInv
    <2>2. calm[s] > INTERVAL + 2 * Late + heard.age
      BY <1>a, <2>1 DEF Steady
    <2>3. node.age <= INTERVAL + 2 * Late + heard.age
      BY <1>1, <1>7, <2>2 DEF SteadyInv, WaitInv
    <2>4. node.age <= SERVER_TIMEOUT
      BY <1>a, <1>2, <2>1, <2>3
    <2> QED
      BY <1>1, <1>3, <2>4
  <1>8. CASE heard.address # s
    <2>1. PICK other \in server_list : other.address = s /\ other.age <= INTERVAL + 2 * Late
      BY <1>1, <1>5, <1>6, <1>8 DEF Traced
    <2>2. other.age <= SERVER_TIMEOUT
      BY <1>a, <2>1, Types, PacketFields
    <2> QED
      BY <1>3, <2>1, <2>2
  <1> QED
    BY <1>7, <1>8

(* A server that has been up long enough, and whose HELLOs have come       *)
(* through, is not removed, if SERVER_TIMEOUT allows for an INTERVAL and   *)
(* for the packet, and the HELLO threads of both sides, being late.        *)
THEOREM SteadyStay ==
    ASSUME INTERVAL + 3 * Late <= SERVER_TIMEOUT
    PROVE  Spec => SteadyServersStay
  <1>1. Init => SteadyInv
    BY InitSteady
  <1>2. SteadyInv /\ [Next]_vars => SteadyInv'
    BY SteadyStep
  <1>3. SteadyInv /\ [Next]_vars =>
            [TimeoutCheck => \A s \in Listed : calm[s] = Steady => s \in Listed']_vars
    BY CheckKeepsSteady
  <1> QED
    BY <1>1, <1>2, <1>3, PTL DEF Spec, SteadyServersStay

=============================================================================
