----------------------------- MODULE MaxRounds -----------------------------
(* The game server of Lab Test 1, set B: in each round every client sends  *)
(* a number, and the server announces the largest.  One thread waits with  *)
(* select for connections and numbers.  A client is one run of client.c    *)
(* with its user.                                                          *)
EXTENDS Integers, Sequences

CONSTANTS
    Clients,
    Patient,        \* the clients whose users type one number for each round they are asked for
    MAX_CLIENTS,
    Numbers,        \* what users type
    Fin,            \* what recv finds at the end of a connection
    Nothing,        \* no number
    MaxRound,       \* bound: nobody types in a later round
    MaxUnread       \* bound: numbers sent and not received, of one client

VARIABLES
    running,        \* the server runs
    clients,        \* clients[0 .. client_count - 1]: a client, or Closed for 0
    numbers,        \* of each position; -1 is no number
    round_number,
    ready,          \* read_fds, as far as the loop has not come to it; 0 is server_fd
    announced,      \* the last result: its round, the maximum, and whose address it names
    backlog,        \* connections to accept
    outbox,         \* what a client has sent and the server not received
    phase,          \* of a client: "outside", "connected", "left"
    asked,          \* the last round the server asked a client for
    joined,         \* history: the round in which it was accepted
    typed,          \* history: what a patient client typed, for each round
    said            \* history: all that another client ever typed

server == <<running, clients, numbers, round_number, ready, announced>>
vars == <<server, backlog, outbox, phase, asked, joined, typed, said>>

Closed == "closed"
Nobody == "nobody"

ASSUME MaxAssumption ==
    /\ MAX_CLIENTS \in Nat \ {0} /\ MaxRound \in Nat \ {0} /\ MaxUnread \in Nat \ {0}
    /\ Numbers \subseteq Int
    /\ Patient \subseteq Clients
    /\ {Closed, Nobody} \cap Clients = {}
    /\ Fin \notin Int /\ Nothing \notin Int

Slots == 1 .. Len(clients)
Open == {i \in Slots : clients[i] # Closed}

Init ==
    /\ running = TRUE
    /\ clients = <<>>
    /\ numbers = [i \in 1 .. MAX_CLIENTS |-> IF i = 1 THEN -1 ELSE 0]
    /\ round_number = 1
    /\ ready = {}
    /\ announced = [round |-> 0, max |-> -1, from |-> Nobody]
    /\ backlog = <<>>
    /\ outbox = [c \in Clients |-> <<>>]
    /\ phase = [c \in Clients |-> "outside"]
    /\ asked = [c \in Clients |-> 0]
    /\ joined = [c \in Clients |-> 0]
    /\ typed = [c \in Patient |-> [r \in 1 .. MaxRound |-> Nothing]]
    /\ said = [c \in Clients \ Patient |-> {}]

-----------------------------------------------------------------------------
(* A client.                                                               *)

Connect(c) ==
    /\ running /\ phase[c] = "outside"
    /\ phase' = [phase EXCEPT ![c] = "connected"]
    /\ backlog' = Append(backlog, c)
    /\ UNCHANGED <<server, outbox, asked, joined, typed, said>>

\* The user types a number; a patient one only when asked, and once.
Type(c, n) ==
    /\ phase[c] = "connected" /\ asked[c] <= MaxRound /\ Len(outbox[c]) < MaxUnread
    /\ c \in Patient => asked[c] > 0 /\ typed[c][asked[c]] = Nothing
    /\ outbox' = [outbox EXCEPT ![c] = Append(@, n)]
    /\ typed' = IF c \in Patient THEN [typed EXCEPT ![c][asked[c]] = n] ELSE typed
    /\ said' = IF c \in Patient THEN said ELSE [said EXCEPT ![c] = @ \cup {n}]
    /\ UNCHANGED <<server, backlog, phase, asked, joined>>

\* The client is killed, or finds its connection closed.
Leave(c) ==
    /\ phase[c] = "connected"
    /\ phase' = [phase EXCEPT ![c] = "left"]
    /\ outbox' = [outbox EXCEPT ![c] = Append(@, Fin)]
    /\ UNCHANGED <<server, backlog, asked, joined, typed, said>>

-----------------------------------------------------------------------------
(* The server.                                                             *)

\* Mutant of Readable: the last position is left out of the set.
ReadableButLast ==
    {i \in Open \ {Len(clients)} : outbox[clients[i]] # <<>>}
        \cup IF backlog = <<>> THEN {} ELSE {0}

Readable == {i \in Open : outbox[clients[i]] # <<>>} \cup IF backlog = <<>> THEN {} ELSE {0}

Select ==
    /\ running /\ ready = {} /\ Readable # {}
    /\ ready' = Readable
    /\ UNCHANGED <<running, clients, numbers, round_number, announced, backlog, outbox, phase,
                   asked, joined, typed, said>>

\* A client for which there is no position left.
Reject(c) ==
    /\ Len(clients) >= MAX_CLIENTS
    /\ phase' = [phase EXCEPT ![c] = "left"]
    /\ UNCHANGED <<clients, numbers, asked, joined>>

Add(c) ==
    /\ Len(clients) < MAX_CLIENTS
    /\ clients' = Append(clients, c)
    /\ numbers' = [numbers EXCEPT ![Len(clients) + 1] = -1]
    /\ asked' = [asked EXCEPT ![c] = round_number]
    /\ joined' = [joined EXCEPT ![c] = round_number]
    /\ UNCHANGED phase

\* handle_new_connection
Accept ==
    /\ running /\ 0 \in ready
    /\ Reject(Head(backlog)) \/ Add(Head(backlog))
    /\ ready' = ready \ {0}
    /\ backlog' = Tail(backlog)
    /\ UNCHANGED <<running, round_number, announced, outbox, typed, said>>

\* The loop comes to the position i.
Reaches(i) == running /\ i \in ready /\ \A j \in ready : i <= j

\* Mutant of Disconnect: the number goes with the client.
DisconnectForgets(i) ==
    /\ Reaches(i) /\ i # 0
    /\ Head(outbox[clients[i]]) = Fin
    /\ clients' = [clients EXCEPT ![i] = Closed]
    /\ numbers' = [numbers EXCEPT ![i] = -1]
    /\ ready' = ready \ {i}
    /\ UNCHANGED <<running, round_number, announced, backlog, outbox, phase, asked, joined,
                   typed, said>>

\* process_client_message, when recv returns 0: the position is not used again.
Disconnect(i) ==
    /\ Reaches(i) /\ i # 0
    /\ Head(outbox[clients[i]]) = Fin
    /\ clients' = [clients EXCEPT ![i] = Closed]
    /\ ready' = ready \ {i}
    /\ UNCHANGED <<running, numbers, round_number, announced, backlog, outbox, phase, asked,
                   joined, typed, said>>

\* recv, and atoi: of the lines that have come together only the first counts.
Receives(i, num) ==
    /\ Reaches(i) /\ i # 0
    /\ \E n \in 1 .. Len(outbox[clients[i]]) :
         /\ \A k \in 1 .. n : outbox[clients[i]][k] # Fin
         /\ outbox' = [outbox EXCEPT ![clients[i]] = SubSeq(@, n + 1, Len(@))]
    /\ num = Head(outbox[clients[i]])
    /\ ready' = ready \ {i}

\* A second number in a round is refused.
Duplicate(i) ==
    /\ \E num \in Numbers : Receives(i, num)
    /\ numbers[i] # -1
    /\ UNCHANGED <<running, clients, numbers, round_number, announced, backlog, phase, asked,
                   joined, typed, said>>

\* The loop over numbers: max_number starts at -1.
MaxNumber(given) ==
    LET values == {given[i] : i \in Slots} \cup {-1}
    IN  CHOOSE max \in values : \A value \in values : value <= max

\* Whose address is announced: of the first maximum, unless it is closed (getpeername
\* fails), or there is none (max_index is still -1).
MaxClient(given) ==
    LET found == {i \in Slots : given[i] = MaxNumber(given) /\ given[i] # -1}
        first == CHOOSE i \in found : \A j \in found : i <= j
    IN  IF found = {} \/ clients[first] = Closed THEN Nobody ELSE clients[first]

\* Mutant of AllReceived: the loop ends one position early.
AllReceivedButLast(given) == \A i \in 1 .. Len(clients) - 1 : given[i] # -1

AllReceived(given) == \A i \in Slots : given[i] # -1

\* The round goes on.
Collect(i, num) ==
    /\ Receives(i, num) /\ numbers[i] = -1
    /\ numbers' = [numbers EXCEPT ![i] = num]
    /\ ~ AllReceived(numbers')
    /\ UNCHANGED <<running, clients, round_number, announced, backlog, phase, asked, joined,
                   typed, said>>

\* Mutant of Announce: the numbers are kept.
AnnounceKeeping(i, num) ==
    /\ Receives(i, num) /\ numbers[i] = -1
    /\ LET given == [numbers EXCEPT ![i] = num]
       IN  /\ AllReceived(given)
           /\ announced' = [round |-> round_number, max |-> MaxNumber(given),
                            from |-> MaxClient(given)]
    /\ round_number' = round_number + 1
    /\ numbers' = [numbers EXCEPT ![i] = num]
    /\ asked' = [c \in Clients |-> IF \E j \in Open : clients[j] = c THEN round_number + 1
                                   ELSE asked[c]]
    /\ UNCHANGED <<running, clients, backlog, phase, joined, typed, said>>

\* All numbers are there: the result goes to everybody, and the next round begins.
Announce(i, num) ==
    /\ Receives(i, num) /\ numbers[i] = -1
    /\ LET given == [numbers EXCEPT ![i] = num]
       IN  /\ AllReceived(given)
           /\ announced' = [round |-> round_number, max |-> MaxNumber(given),
                            from |-> MaxClient(given)]
    /\ round_number' = round_number + 1
    /\ numbers' = [j \in 1 .. MAX_CLIENTS |-> -1]
    /\ asked' = [c \in Clients |-> IF \E j \in Open : clients[j] = c THEN round_number + 1
                                   ELSE asked[c]]
    /\ UNCHANGED <<running, clients, backlog, phase, joined, typed, said>>

\* send to a client that has left, where recv has not yet said so: SIGPIPE.
Killed(i) ==
    /\ \E num \in Numbers :
         /\ Receives(i, num)
         /\ IF numbers[i] # -1 THEN phase[clients[i]] = "left"
            ELSE AllReceived([numbers EXCEPT ![i] = num])
                 /\ \E j \in Open : phase[clients[j]] = "left"
    /\ running' = FALSE
    /\ phase' = [c \in Clients |-> IF phase[c] = "connected" THEN "left" ELSE phase[c]]
    /\ UNCHANGED <<clients, numbers, round_number, announced, backlog, asked, joined, typed,
                   said>>

Handle(i) ==
    \/ Disconnect(i) \/ Duplicate(i) \/ Killed(i)
    \/ \E num \in Numbers : Collect(i, num) \/ Announce(i, num)

Next ==
    \/ \E c \in Clients : Connect(c) \/ Leave(c) \/ \E n \in Numbers : Type(c, n)
    \/ Select \/ Accept
    \/ \E i \in 1 .. MAX_CLIENTS : Handle(i)

Spec == Init /\ [][Next]_vars

\* The server's loop goes on; users owe nothing.
FairSpec ==
    /\ Spec
    /\ WF_vars(Select) /\ WF_vars(Accept)
    /\ \A i \in 1 .. MAX_CLIENTS : WF_vars(Handle(i))

-----------------------------------------------------------------------------
(* Properties.                                                             *)

\* Every variable holds a value of its C type (type invariant).
TypeOK ==
    /\ running \in BOOLEAN
    /\ clients \in Seq(Clients \cup {Closed}) /\ Len(clients) <= MAX_CLIENTS
    /\ numbers \in [1 .. MAX_CLIENTS -> Int]
    /\ round_number \in Nat \ {0}
    /\ ready \subseteq 0 .. MAX_CLIENTS
    /\ announced \in [round : Nat, max : Int, from : Clients \cup {Nobody}]
    /\ backlog \in Seq(Clients)
    /\ outbox \in [Clients -> Seq(Numbers \cup {Fin})]
    /\ phase \in [Clients -> {"outside", "connected", "left"}]
    /\ asked \in [Clients -> Nat] /\ joined \in [Clients -> Nat]
    /\ typed \in [Patient -> [1 .. MaxRound -> Numbers \cup {Nothing}]]
    /\ said \in [Clients \ Patient -> SUBSET Numbers]

\* The positions of patient clients.
Answering == {i \in Open : clients[i] \in Patient}

(* A number that was typed for a round is counted in this round, and in no *)
(* other, or is still on its way: whatever others send twice, whoever      *)
(* joins or leaves, and whichever lines come together (server.c,           *)
(* process_client_message).                                                *)
NumbersAreOfTheirRound ==
    running /\ round_number <= MaxRound =>
        \A i \in Answering :
            LET c == clients[i]
                n == typed[c][round_number]
            IN  IF n # Nothing /\ outbox[c] \in {<<>>, <<Fin>>} THEN numbers[i] = n
                ELSE numbers[i] = -1

\* What a patient client typed for the round r.
Given(c, r) == IF r \in 1 .. MaxRound THEN typed[c][r] ELSE Nothing

\* The client c typed n: a patient one for the round r, another at some time.
Typed(c, r, n) == IF c \in Patient THEN Given(c, r) = n ELSE n \in said[c]

\* The clients that had joined by the round r.
Members(r) == {c \in Clients : joined[c] \in 1 .. r}

(* The result of a round leaves out no number of a patient client that had *)
(* joined, and none is larger; it is a number that one of those who had    *)
(* joined did type, and the client it is said to be from typed it.  Where  *)
(* all numbers are less than -1 the loop's start value is announced        *)
(* (server.c:86), of nobody.                                               *)
LargestIsAnnounced ==
    LET r == announced.round
        max == announced.max
    IN  r > 0 =>
          /\ \A c \in Members(r) \cap Patient : Given(c, r) # Nothing /\ Given(c, r) <= max
          /\ max # -1 => \E c \in Members(r) : Typed(c, r, max)
          /\ announced.from # Nobody =>
               max # -1 /\ announced.from \in Members(r) /\ Typed(announced.from, r, max)

(* A round that has not ended waits for the number of a position.          *)
SomeNumberIsMissing == clients # <<>> => \E i \in Slots : numbers[i] = -1

-----------------------------------------------------------------------------
(* The inductive invariant.                                                *)

\* The position i counts n.
Counts(i, n) == numbers[i] = IF n = Nothing THEN -1 ELSE n

\* The positions that patient clients have left.
Left == {i \in Slots : clients[i] = Closed}

\* A client is at one position, or once in the backlog, or outside.
OnePlace ==
    /\ \A i, j \in Open : clients[i] = clients[j] => i = j
    /\ \A i, j \in 1 .. Len(backlog) : backlog[i] = backlog[j] => i = j
    /\ \A j \in 1 .. Len(backlog) :
         /\ joined[backlog[j]] = 0
         /\ \A i \in Slots : clients[i] # backlog[j]
    /\ \A c \in Clients : phase[c] = "outside" =>
           /\ joined[c] = 0
           /\ \A i \in Slots : clients[i] # c
           /\ \A j \in 1 .. Len(backlog) : backlog[j] # c

\* What select found is still there when the loop comes to it.
ReadyIsThere ==
    /\ ready \ {0} \subseteq {i \in Open : outbox[clients[i]] # <<>>}
    /\ 0 \in ready => backlog # <<>>

\* A connected client's number is counted, or the only thing in its outbox.
InPlace(c, i) ==
    LET n == Given(c, round_number)
    IN  /\ joined[c] > 0 /\ asked[c] = round_number
        /\ \/ outbox[c] \in {<<>>, <<Fin>>} /\ Counts(i, n)
           \/ n # Nothing /\ outbox[c] \in {<<n>>, <<n, Fin>>} /\ numbers[i] = -1

MembersInPlace == \A i \in Answering : InPlace(clients[i], i)

\* Of a client that has left a position still counts what it typed.
LeaversInPlace ==
    \A c \in Patient :
        joined[c] > 0 /\ (\A i \in Slots : clients[i] # c) =>
            phase[c] = "left" /\ \E i \in Left : Counts(i, Given(c, round_number))

\* A number that is on its way, or counted, has been typed; a counted one by the client
\* of the position, or one that has left it.
CountedWereTyped ==
    /\ \A c \in Clients \ Patient : \A k \in 1 .. Len(outbox[c]) : outbox[c][k] \in said[c] \cup {Fin}
    /\ \A i \in Open : clients[i] \in Members(round_number)
    /\ \A i \in Slots : numbers[i] # -1 =>
         \E c \in Members(round_number) :
            Typed(c, round_number, numbers[i]) /\ clients[i] \in {c, Closed}

\* Nobody types before it is asked.
NobodyIsEarly ==
    /\ announced.round < round_number
    /\ \A c \in Clients :
         /\ joined[c] <= asked[c] /\ asked[c] <= round_number
         /\ phase[c] = "connected" => running
    /\ \A c \in Patient :
         /\ \A r \in 1 .. MaxRound : asked[c] < r => typed[c][r] = Nothing
         /\ asked[c] > 0 => joined[c] > 0
         /\ joined[c] = 0 => outbox[c] \in {<<>>, <<Fin>>}
         /\ phase[c] = "outside" => outbox[c] = <<>>
         /\ phase[c] = "connected" => \A k \in 1 .. Len(outbox[c]) : outbox[c][k] # Fin

IInv ==
    /\ TypeOK /\ OnePlace /\ NobodyIsEarly /\ CountedWereTyped
    /\ running => ReadyIsThere /\ MembersInPlace /\ LeaversInPlace
    /\ LargestIsAnnounced
    /\ SomeNumberIsMissing

\* Every position is of a patient client that has typed a number for the round r.
AllTyped(r) ==
    clients # <<>> /\ \A i \in Slots : i \in Answering /\ typed[clients[i]][r] # Nothing

(* When every client has typed its number the round ends, unless one of    *)
(* them leaves, or another joins.                                          *)
RoundsEnd ==
    \A r \in 1 .. MaxRound :
        round_number = r /\ AllTyped(r) ~> round_number > r \/ ~ AllTyped(r) \/ ~ running
=============================================================================
