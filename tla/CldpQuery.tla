----------------------------- MODULE CldpQuery -----------------------------
(* The query thread of a CLDP client (Assignment 7), and the servers that  *)
(* answer it.  Of time only the rounds of the thread are left; the HELLO   *)
(* and timeout threads of CldpMembers are free to change the list.         *)
EXTENDS Integers, FiniteSets

CONSTANTS
    Servers,
    Tids,        \* the number of transaction ids: 2^16
    Lifetime     \* bound: the rounds a packet can outlive

VARIABLES
    server_list,       \* the addresses in it
    qpc,               \* query thread: in its "window", about to "copy" the list, or to "ask"
    transaction_id,
    servers_cpy,       \* the servers of the copy that are still to be asked
    network,           \* the packets; their age is the rounds since the QUERY
    asked,             \* the servers asked in this round
    answers, ignored   \* the RESPONSEs it received in this round and printed, or did not

queryVars == <<qpc, transaction_id, servers_cpy, asked, answers, ignored>>
vars == <<server_list, queryVars, network>>

ASSUME QueryAssumption == Tids \in Nat \ {0} /\ Lifetime \in Nat /\ Lifetime < Tids

Packet(type, server, tid, age) == [type |-> type, server |-> server, tid |-> tid, age |-> age]

Init ==
    /\ server_list = {}
    /\ qpc = "window" /\ transaction_id = 0 /\ servers_cpy = {}
    /\ network = {}
    /\ asked = {} /\ answers = {} /\ ignored = {}

-----------------------------------------------------------------------------
(* The other threads of the client.                                        *)

ListChanges ==
    /\ server_list' \in {server_list \cup {s} : s \in Servers}
                          \cup {server_list \ gone : gone \in SUBSET server_list}
    /\ UNCHANGED <<queryVars, network>>

-----------------------------------------------------------------------------
(* The query thread.                                                       *)

\* Mutant of Receive: the transaction id is not compared.
ReceiveAny(p) ==
    /\ qpc = "window" /\ p.type = "RESPONSE"
    /\ answers' = answers \cup {p}
    /\ network' \in {network, network \ {p}}
    /\ UNCHANGED <<server_list, qpc, transaction_id, servers_cpy, asked, ignored>>

\* A RESPONSE that is there in the window is printed if it has the transaction
\* id.  The network may deliver it again.
Receive(p) ==
    /\ qpc = "window" /\ p.type = "RESPONSE"
    /\ IF p.tid = transaction_id
       THEN answers' = answers \cup {p} /\ UNCHANGED ignored
       ELSE ignored' = ignored \cup {p} /\ UNCHANGED answers
    /\ network' \in {network, network \ {p}}
    /\ UNCHANGED <<server_list, qpc, transaction_id, servers_cpy, asked>>

CloseWindow ==
    /\ qpc = "window"
    /\ qpc' = "copy"
    /\ UNCHANGED <<server_list, transaction_id, servers_cpy, network, asked, answers, ignored>>

\* No server: back to sleep, and to the window of the same transaction id.
NobodyToAsk ==
    /\ qpc = "copy" /\ server_list = {}
    /\ qpc' = "window"
    /\ UNCHANGED <<server_list, transaction_id, servers_cpy, network, asked, answers, ignored>>

Aged(packets) == {[p EXCEPT !.age = @ + 1] : p \in {x \in packets : x.age < Lifetime}}

\* The list is copied with the mutex, and a new round begins.  When malloc fails
\* the rest of the list is left out.
CopyList ==
    /\ qpc = "copy" /\ server_list # {}
    /\ qpc' = "ask"
    /\ servers_cpy' \in SUBSET server_list
    /\ transaction_id' = (transaction_id + 1) % Tids
    /\ network' = Aged(network)
    /\ asked' = {} /\ answers' = {} /\ ignored' = {}
    /\ UNCHANGED server_list

\* Mutant of Ask: the QUERY has the transaction id of the next round.
AskEarly(s) ==
    /\ qpc = "ask" /\ s \in servers_cpy
    /\ network' \in {network, network \cup {Packet("QUERY", s, (transaction_id + 1) % Tids, 0)}}
    /\ servers_cpy' = servers_cpy \ {s}
    /\ asked' = asked \cup {s}
    /\ UNCHANGED <<server_list, qpc, transaction_id, answers, ignored>>

\* A QUERY is sent, perhaps in vain, to a server that may have left the list.
Ask(s) ==
    /\ qpc = "ask" /\ s \in servers_cpy
    /\ network' \in {network, network \cup {Packet("QUERY", s, transaction_id, 0)}}
    /\ servers_cpy' = servers_cpy \ {s}
    /\ asked' = asked \cup {s}
    /\ UNCHANGED <<server_list, qpc, transaction_id, answers, ignored>>

EndRound ==
    /\ qpc = "ask" /\ servers_cpy = {}
    /\ qpc' = "window"
    /\ UNCHANGED <<server_list, transaction_id, servers_cpy, network, asked, answers, ignored>>

-----------------------------------------------------------------------------
(* The servers and the network.                                            *)

\* main of a server.  The network may deliver the QUERY again.
Respond(p) ==
    /\ p.type = "QUERY"
    /\ network' \in {network \cup {Packet("RESPONSE", p.server, p.tid, p.age)},
                     (network \ {p}) \cup {Packet("RESPONSE", p.server, p.tid, p.age)}}
    /\ UNCHANGED <<server_list, queryVars>>

Lose(p) ==
    /\ network' = network \ {p}
    /\ UNCHANGED <<server_list, queryVars>>

Next ==
    \/ ListChanges
    \/ CloseWindow \/ NobodyToAsk \/ CopyList \/ EndRound
    \/ \E s \in Servers : Ask(s)
    \/ \E p \in network : Receive(p) \/ Respond(p) \/ Lose(p)

Spec == Init /\ [][Next]_vars

-----------------------------------------------------------------------------
(* Properties.                                                             *)

Packets == [type : {"QUERY", "RESPONSE"}, server : Servers, tid : 0 .. Tids - 1,
            age : 0 .. Lifetime]

\* Every variable holds a value of its C type (type invariant).
TypeOK ==
    /\ server_list \subseteq Servers
    /\ qpc \in {"window", "copy", "ask"}
    /\ transaction_id \in 0 .. Tids - 1
    /\ servers_cpy \subseteq Servers /\ asked \subseteq Servers
    /\ network \subseteq Packets /\ answers \subseteq Packets /\ ignored \subseteq Packets

(* What the client prints comes from servers that it asked in this round,  *)
(* and is the answer to this round's QUERY, however late or often packets  *)
(* arrive and although the transaction ids wrap; and no answer to it is    *)
(* ignored (cldp_client.c, query_thread_handler).                          *)
AnswersAreOfThisRound ==
    /\ \A p \in answers : p.age = 0 /\ p.server \in asked
    /\ \A p \in ignored : p.age # 0

\* The transaction id a round had so many rounds ago.
TidBefore(rounds) ==
    IF rounds <= transaction_id THEN transaction_id - rounds ELSE transaction_id - rounds + Tids

\* The inductive invariant.
IInv ==
    /\ TypeOK
    /\ \A p \in network \cup answers \cup ignored : p.tid = TidBefore(p.age)
    /\ \A p \in network \cup answers : p.age = 0 => p.server \in asked
    /\ AnswersAreOfThisRound
=============================================================================
