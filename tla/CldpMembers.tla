---------------------------- MODULE CldpMembers ----------------------------
(* The server list of a CLDP client (Assignment 7), and the HELLOs of the  *)
(* servers that keep it up to date.  Time passes in seconds, as time()     *)
(* counts them.  Of the client, the HELLO thread and the timeout thread    *)
(* are modelled here, and of a server the HELLO thread.                    *)
EXTENDS Naturals, Integers, FiniteSets

CONSTANTS
    Servers,
    INTERVAL,                \* between two HELLOs of a server
    SERVER_TIMEOUT,
    TIMEOUT_CHECK_INTERVAL,
    Late                     \* bound: seconds that a packet, or a thread that can run, takes

VARIABLES
    server_list,    \* the nodes: an address, and the seconds since last_hello
    heard,          \* HELLO thread: the packet it holds, its time() read, the mutex not taken
    check,          \* timeout thread: seconds of sleep left
    up, rest,       \* of a server: whether it runs; seconds left before its next HELLO
    air,            \* the HELLOs under way, with the seconds since they were sent
    downFor,        \* of a server: for how long it has been down
    calm            \* of a server: for how long it has been up with no HELLO lost

clientVars == <<server_list, heard, check>>
vars == <<clientVars, up, rest, air, downFor, calm>>

None == [address |-> "none", age |-> 0]
Stamped(s, seconds) == [address |-> s, age |-> seconds]

\* When every server that stopped has left the list.
Detection == SERVER_TIMEOUT + TIMEOUT_CHECK_INTERVAL + 2 * Late

\* In so many seconds a HELLO is sent, received, and in the list.
Steady == INTERVAL + 3 * Late + 1

ASSUME CldpAssumption ==
    /\ INTERVAL \in Nat /\ SERVER_TIMEOUT \in Nat /\ TIMEOUT_CHECK_INTERVAL \in Nat
    /\ Late \in Nat
    /\ Late <= SERVER_TIMEOUT
    /\ "none" \notin Servers

Listed == {node.address : node \in server_list}

\* Nobody runs but the client.
Init ==
    /\ server_list = {} /\ heard = None /\ check = TIMEOUT_CHECK_INTERVAL
    /\ up = [s \in Servers |-> FALSE]
    /\ rest = [s \in Servers |-> 0]
    /\ air = {}
    /\ downFor = [s \in Servers |-> Detection + 1]
    /\ calm = [s \in Servers |-> 0]

-----------------------------------------------------------------------------
(* A server.                                                               *)

Start(s) ==
    /\ ~ up[s]
    /\ up' = [up EXCEPT ![s] = TRUE]
    /\ rest' = [rest EXCEPT ![s] = 0]
    /\ downFor' = [downFor EXCEPT ![s] = 0]
    /\ UNCHANGED <<clientVars, air, calm>>

Crash(s) ==
    /\ up[s]
    /\ up' = [up EXCEPT ![s] = FALSE]
    /\ rest' = [rest EXCEPT ![s] = 0]
    /\ calm' = [calm EXCEPT ![s] = 0]
    /\ UNCHANGED <<clientVars, air, downFor>>

\* The HELLO thread wakes up, sends, and sleeps again.
Broadcast(s) ==
    /\ up[s] /\ rest[s] <= 0
    /\ air' = air \cup {Stamped(s, 0)}
    /\ rest' = [rest EXCEPT ![s] = INTERVAL]
    /\ UNCHANGED <<clientVars, up, downFor, calm>>

-----------------------------------------------------------------------------
(* The network.                                                            *)

Lose(hello) ==
    /\ air' = air \ {hello}
    /\ calm' = [calm EXCEPT ![hello.address] = 0]
    /\ UNCHANGED <<clientVars, up, rest, downFor>>

-----------------------------------------------------------------------------
(* The client.                                                             *)

\* main, run again: the list starts empty.
Restart ==
    /\ server_list' = {} /\ heard' = None /\ check' = TIMEOUT_CHECK_INTERVAL
    /\ UNCHANGED <<up, rest, air, downFor, calm>>

\* The HELLO thread receives, and reads the time before it has the mutex.
Hear(hello) ==
    /\ heard = None
    /\ heard' = Stamped(hello.address, 0)
    /\ air' = air \ {hello}
    /\ UNCHANGED <<server_list, check, up, rest, downFor, calm>>

Arrives(hello) == hello \in air /\ (Lose(hello) \/ Hear(hello))

Known(address) == address \in Listed

\* Mutant of Update: a node is always added.
UpdateAppends ==
    /\ heard # None
    /\ server_list' = server_list \cup {heard}
    /\ heard' = None
    /\ UNCHANGED <<check, up, rest, air, downFor, calm>>

\* Mutant of Update: the packet is kept, and handled again.
UpdateAgain ==
    /\ heard # None
    /\ server_list' = {node \in server_list : node.address # heard.address} \cup {heard}
    /\ UNCHANGED <<heard, check, up, rest, air, downFor, calm>>

\* With the mutex: the node of the server gets the new time, or one is added.
Update ==
    /\ heard # None
    /\ server_list' = IF Known(heard.address)
                      THEN {IF node.address = heard.address THEN heard ELSE node
                                : node \in server_list}
                      ELSE server_list \cup {heard}
    /\ heard' = None
    /\ UNCHANGED <<check, up, rest, air, downFor, calm>>

\* Mutants of TimedOut: the wrong interval is waited for.
TimedOutTwice(node) == node.age > 2 * SERVER_TIMEOUT
TimedOutSoon(node) == node.age > INTERVAL

TimedOut(node) == node.age > SERVER_TIMEOUT

\* The timeout thread wakes up, and removes every server that timed out.
TimeoutCheck ==
    /\ check <= 0
    /\ server_list' = {node \in server_list : ~ TimedOut(node)}
    /\ check' = TIMEOUT_CHECK_INTERVAL
    /\ UNCHANGED <<heard, up, rest, air, downFor, calm>>

-----------------------------------------------------------------------------

Older(packet) == [packet EXCEPT !.age = @ + 1]

\* A second passes, unless somebody would then be too late.
Tick ==
    /\ check > - Late
    /\ \A s \in Servers : up[s] => rest[s] > - Late
    /\ \A hello \in air : hello.age < Late
    /\ heard # None => heard.age < Late
    /\ server_list' = {Older(node) : node \in server_list}
    /\ heard' = IF heard = None THEN None ELSE Older(heard)
    /\ check' = check - 1
    /\ rest' = [s \in Servers |-> IF up[s] THEN rest[s] - 1 ELSE 0]
    /\ air' = {Older(hello) : hello \in air}
    /\ downFor' = [s \in Servers |-> IF up[s] \/ downFor[s] > Detection THEN downFor[s]
                                     ELSE downFor[s] + 1]
    /\ calm' = [s \in Servers |-> IF up[s] /\ calm[s] < Steady THEN calm[s] + 1 ELSE calm[s]]
    /\ UNCHANGED up

Next ==
    \/ \E s \in Servers : Start(s) \/ Crash(s) \/ Broadcast(s)
    \/ \E hello \in air : Arrives(hello)
    \/ Restart \/ Update \/ TimeoutCheck \/ Tick

Spec == Init /\ [][Next]_vars

\* Time passes, and the threads that can run do.
FairSpec ==
    /\ Spec
    /\ WF_vars(Tick) /\ WF_vars(TimeoutCheck) /\ WF_vars(Update)
    /\ \A s \in Servers :
         WF_vars(Broadcast(s)) /\ \A n \in 0 .. Late : WF_vars(Arrives(Stamped(s, n)))

-----------------------------------------------------------------------------
(* Properties.                                                             *)

Packets == [address : Servers, age : Nat]

\* Every variable holds a value of its C type (type invariant).
TypeOK ==
    /\ server_list \subseteq Packets
    /\ heard \in Packets \cup {None}
    /\ check \in - Late .. TIMEOUT_CHECK_INTERVAL
    /\ up \in [Servers -> BOOLEAN]
    /\ rest \in [Servers -> Int]
    /\ air \subseteq Packets
    /\ downFor \in [Servers -> 0 .. Detection + 1]
    /\ calm \in [Servers -> 0 .. Steady]

(* A server has one node, whoever of the two threads changed the list last *)
(* (cldp_client.c, hello_thread_handler).                                  *)
OneEntryPerServer ==
    \A one, other \in server_list : one.address = other.address => one = other

(* A server that stopped is off the list SERVER_TIMEOUT plus a check later,*)
(* and twice the time anybody may be late: its last HELLO may be under way *)
(* when it stops, or wait for the mutex with an old time.                  *)
DeadServersAreGone ==
    \A s \in Servers : ~ up[s] /\ downFor[s] > Detection => s \notin Listed

\* What a packet's age says of how long its server can have been down.
Recent(packet, slack) == downFor[packet.address] <= packet.age + slack

\* The inductive invariant.
IInv ==
    /\ TypeOK
    /\ \A s \in Servers : up[s] => downFor[s] = 0
    /\ \A hello \in air : hello.age <= Late /\ Recent(hello, 0)
    /\ heard # None => heard.age <= Late /\ Recent(heard, Late)
    /\ \A node \in server_list :
         /\ node.age <= SERVER_TIMEOUT + (TIMEOUT_CHECK_INTERVAL - check)
         /\ Recent(node, Late)
    /\ OneEntryPerServer

(* A server that has been up long enough, and whose HELLOs have all come   *)
(* through, is not removed by the timeout thread, however late the threads *)
(* of both sides are and whatever happened before (cldp_client.c,          *)
(* timeout_thread_handler).                                                *)
SteadyServersStay ==
    [][TimeoutCheck => \A s \in Listed : calm[s] = Steady => s \in Listed']_vars

Detector == INSTANCE FailureDetector WITH listed <- Listed, Grace <- 2 * Late

(* The list is a failure detector that is complete in Detection seconds.   *)
ImplementsDetector == Detector!Spec

(* A server that stays down leaves the list.                               *)
DeadServersLeave == \A s \in Servers : ~ up[s] ~> (up[s] \/ s \notin Listed)
=============================================================================
