--------------------------- MODULE KTPSocketTable ---------------------------
(* The table of KTP sockets in shared memory (Assignment 4 Final): the     *)
(* library calls of the user processes that allocate, bind and close its   *)
(* entries, the loop of initksocket's main that creates, binds and resets  *)
(* the UDP sockets behind them, the garbage collector, the R thread's way  *)
(* from select to recvfrom, and the signal handler that clears the table.  *)
(* What the entries transport is the subject of KTPConnection.             *)
(*                                                                         *)
(* An action is what one thread does between taking and releasing the      *)
(* mutex of an entry, or one access it makes without the mutex.  The       *)
(* handler takes no mutex: each of its steps is an action.                 *)
EXTENDS Integers

CONSTANTS
    MAXSOCKETS,   \* entries of the table (5 in ksocket.h)
    Processes,    \* the user processes that ever run
    Addresses,    \* the addresses they bind their sockets to
    FdLimit,      \* how many descriptors initksocket may have (RLIMIT_NOFILE)
    Signalled,    \* the threads that may get the signal: "main", "other"
    LoopsWait     \* bound: TRUE if the signal comes when the R and the GC thread begin
                  \* their loops, and they wait there from then on

ASSUME TableAssumption ==
    /\ MAXSOCKETS \in Nat \ {0}
    /\ FdLimit \in Nat \ {0}
    /\ Signalled \subseteq {"main", "other"}
    /\ LoopsWait \in BOOLEAN
    /\ "none" \notin Processes \cup Addresses

VARIABLES
    in_use, is_closed, is_bound, pid, sockfd, src,  \* fields of an entry
    open,            \* descriptors of UDP sockets in initksocket
    boundTo,         \* the address each of them is bound to
    pending,         \* whether a datagram waits in it
    pc, mine,        \* user processes: where in the library, and at which entry
    lost,            \* mutexes that nobody will release
    mainNext,        \* main: the entry it looks at next
    gcNext, verdict, \* GC thread: its entry, and whether it found the owner dead
    rpc, rNext,      \* R thread: where it is, and at which entry
    fds, rfd,        \* its set of descriptors, and the one it copied
    handling,        \* the thread that runs the signal handler: None, "main", "other"
    hpc, hNext,      \* the handler: where it is, and at which entry
    unlinked,        \* entries whose mutex has lost its name
    up               \* initksocket runs (every exit ends it)

tableVars == <<in_use, is_closed, is_bound, pid, sockfd, src>>
udpVars == <<open, boundTo, pending>>
userVars == <<pc, mine>>
gcVars == <<gcNext, verdict>>
recvVars == <<rpc, rNext, fds, rfd>>
handlerVars == <<handling, hpc, hNext, unlinked>>
vars == <<tableVars, udpVars, userVars, lost, mainNext, gcVars, recvVars, handlerVars, up>>

Sockets == 0 .. (MAXSOCKETS - 1)
None == "none"
NoFd == -1
Fds == 0 .. (FdLimit - 1)

-----------------------------------------------------------------------------
(* The table when main has set it up.  Shared memory begins as zeros, so   *)
(* each sockreset closes descriptor 0 and socket() returns 0 again: every  *)
(* entry starts with the same UDP socket.                                  *)
Init ==
    /\ in_use = [i \in Sockets |-> FALSE]
    /\ is_closed = [i \in Sockets |-> FALSE]
    /\ is_bound = [i \in Sockets |-> FALSE]
    /\ pid = [i \in Sockets |-> None]
    /\ sockfd = [i \in Sockets |-> 0]
    /\ src = [i \in Sockets |-> None]
    /\ open = {0}
    /\ boundTo = [fd \in Fds |-> None]
    /\ pending = [fd \in Fds |-> FALSE]
    /\ pc = [u \in Processes |-> "k_socket"]
    /\ mine = [u \in Processes |-> 0]
    /\ lost = {}
    /\ mainNext = 0
    /\ gcNext = 0 /\ verdict = FALSE
    /\ rpc = "collect" /\ rNext = 0 /\ fds = {} /\ rfd = NoFd
    /\ handling = None /\ hpc = "look" /\ hNext = 0 /\ unlinked = {}
    /\ up = TRUE

\* Mutant of Following: the loops run past the last entry.
FollowingUnwrapped(i) == i + 1

Following(i) == (i + 1) % MAXSOCKETS

alive == {u \in Processes : pc[u] # "ended"}

\* The mutex of an entry: the second one once sem_unlink took the name of the first, which
\* only those go on using that had it open, the R and the S thread.
Mutex(i) == <<i, i \in unlinked>>
OldMutex(i) == <<i, FALSE>>

\* The R thread keeps the mutex of its entry while recvfrom has nothing to return; and some
\* are never released.
Held(m) == (rpc = "blocked" /\ m = OldMutex(rNext)) \/ m \in lost

\* Process u is at this place of the library, and gets the mutex of its entry.
At(u, place) == up /\ pc[u] = place /\ ~Held(Mutex(mine[u]))

\* The end of initksocket: the kernel closes its sockets.
Exit ==
    /\ up' = FALSE
    /\ open' = {}
    /\ boundTo' = [fd \in Fds |-> None]
    /\ pending' = [fd \in Fds |-> FALSE]

\* A UDP socket is closed; a recvfrom that waits there goes on waiting, at no descriptor.
Close(closed) ==
    /\ open' = open \ {closed}
    /\ boundTo' = [fd \in Fds |-> IF fd = closed THEN None ELSE boundTo[fd]]
    /\ pending' = [fd \in Fds |-> pending[fd] /\ fd # closed]
    /\ rfd' = IF rpc = "blocked" /\ rfd = closed THEN NoFd ELSE rfd

\* Mutant of Reset: the descriptor stays in the entry.
ResetKeepsFd(i, owner) ==
    /\ in_use' = [in_use EXCEPT ![i] = owner # None]
    /\ pid' = [pid EXCEPT ![i] = owner]
    /\ is_closed' = [is_closed EXCEPT ![i] = FALSE]
    /\ is_bound' = [is_bound EXCEPT ![i] = FALSE]
    /\ src' = [src EXCEPT ![i] = None]
    /\ UNCHANGED sockfd

\* sockreset, but for the close of the descriptor, which is the caller's own.
Reset(i, owner) ==
    /\ in_use' = [in_use EXCEPT ![i] = owner # None]
    /\ pid' = [pid EXCEPT ![i] = owner]
    /\ is_closed' = [is_closed EXCEPT ![i] = FALSE]
    /\ is_bound' = [is_bound EXCEPT ![i] = FALSE]
    /\ sockfd' = [sockfd EXCEPT ![i] = NoFd]
    /\ src' = [src EXCEPT ![i] = None]

-----------------------------------------------------------------------------
(* The user processes.                                                     *)

\* k_socket looks at an entry, and lets go of its mutex even when it is free.
FindFree(u) ==
    /\ At(u, "k_socket")
    /\ IF ~in_use[mine[u]]
       THEN /\ pc' = [pc EXCEPT ![u] = "found"]
            /\ UNCHANGED mine
       ELSE IF mine[u] + 1 < MAXSOCKETS
            THEN /\ mine' = [mine EXCEPT ![u] = mine[u] + 1]
                 /\ UNCHANGED pc
            ELSE /\ pc' = [pc EXCEPT ![u] = "failed"]
                 /\ UNCHANGED mine
    /\ UNCHANGED <<tableVars, udpVars, lost, mainNext, gcVars, recvVars, handlerVars, up>>

\* k_socket takes the entry it found.  The descriptor sockreset closes is the
\* one with this number in the user process, not the UDP socket of initksocket.
TakeEntry(u) ==
    /\ At(u, "found")
    /\ Reset(mine[u], u)
    /\ pc' = [pc EXCEPT ![u] = "k_bind"]
    /\ UNCHANGED <<udpVars, mine, lost, mainNext, gcVars, recvVars, handlerVars, up>>

\* k_bind writes the addresses; of an entry that is not in use, it fails.
k_bind(u, address) ==
    /\ At(u, "k_bind")
    /\ \/ /\ in_use[mine[u]]
          /\ src' = [src EXCEPT ![mine[u]] = address]
          /\ pc' = [pc EXCEPT ![u] = "binding"]
       \/ /\ ~in_use[mine[u]]
          /\ pc' = [pc EXCEPT ![u] = "failed"]
          /\ UNCHANGED src
    /\ UNCHANGED <<in_use, is_closed, is_bound, pid, sockfd,
                   udpVars, mine, lost, mainNext, gcVars, recvVars, handlerVars, up>>

\* The rest of k_bind, after it released the mutex.
SetBound(u) ==
    /\ up /\ pc[u] = "binding"
    /\ is_bound' = [is_bound EXCEPT ![mine[u]] = TRUE]
    /\ pc' = [pc EXCEPT ![u] = "bound"]
    /\ UNCHANGED <<in_use, is_closed, pid, sockfd, src,
                   udpVars, mine, lost, mainNext, gcVars, recvVars, handlerVars, up>>

k_close(u) ==
    /\ At(u, "bound")
    /\ is_closed' = IF in_use[mine[u]]
                    THEN [is_closed EXCEPT ![mine[u]] = TRUE] ELSE is_closed
    /\ pc' = [pc EXCEPT ![u] = "closed"]
    /\ UNCHANGED <<in_use, is_bound, pid, sockfd, src,
                   udpVars, mine, lost, mainNext, gcVars, recvVars, handlerVars, up>>

Ended(u) ==
    /\ pc' = [pc EXCEPT ![u] = "ended"]
    /\ mine' = [mine EXCEPT ![u] = 0]

\* A process ends, or is killed, wherever it is.  (What happens after the end
\* of initksocket is not followed.)
Die(u) ==
    /\ up /\ u \in alive
    /\ Ended(u)
    /\ UNCHANGED <<tableVars, udpVars, lost, mainNext, gcVars, recvVars, handlerVars, up>>

\* Killed inside the library, with the mutex of its entry taken.
DieLocked(u) ==
    /\ \E place \in {"k_socket", "found", "k_bind", "bound"} : At(u, place)
    /\ Ended(u)
    /\ lost' = lost \cup {Mutex(mine[u])}
    /\ UNCHANGED <<tableVars, udpVars, mainNext, gcVars, recvVars, handlerVars, up>>

-----------------------------------------------------------------------------
(* The loop of main, one entry at a time with its mutex, as long as main   *)
(* does not run the handler.                                               *)

MainAt(i) ==
    /\ up /\ handling # "main" /\ mainNext = i /\ ~Held(Mutex(i))
    /\ mainNext' = Following(i)

SkipFree(i) ==
    /\ MainAt(i)
    /\ ~in_use[i]
    /\ UNCHANGED <<tableVars, udpVars, userVars, lost, gcVars, recvVars, handlerVars, up>>

\* A closed entry is reset, and its UDP socket closed.
ResetClosed(i) ==
    /\ MainAt(i)
    /\ in_use[i] /\ is_closed[i]
    /\ Reset(i, None)
    /\ Close(sockfd[i])
    /\ UNCHANGED <<userVars, lost, gcVars, rpc, rNext, fds, handlerVars, up>>

\* The entry's descriptor, or the lowest free one for a new UDP socket.
Descriptor(i, fd) ==
    IF sockfd[i] = NoFd
    THEN fd \in Fds \ open /\ \A other \in Fds \ open : fd <= other
    ELSE fd = sockfd[i]

\* bind_if_required: another address than the entry's, once is_bound is set.
NeedsBind(i, fd) == is_bound[i] /\ boundTo[fd] # src[i]

\* getsockname refuses a descriptor that was closed, bind() a socket that has an address,
\* and an address that is taken.
BindFails(i, fd) ==
    \/ fd = sockfd[i] /\ fd \notin open
    \/ /\ NeedsBind(i, fd)
       /\ boundTo[fd] # None \/ \E other \in open : boundTo[other] = src[i]

\* A new entry gets its UDP socket, and a bound one its address.
Serve(i) ==
    /\ MainAt(i)
    /\ in_use[i] /\ ~is_closed[i]
    /\ \E fd \in Fds :
         /\ Descriptor(i, fd) /\ ~BindFails(i, fd)
         /\ open' = open \cup {fd}
         /\ sockfd' = [sockfd EXCEPT ![i] = fd]
         /\ boundTo' = IF NeedsBind(i, fd) THEN [boundTo EXCEPT ![fd] = src[i]] ELSE boundTo
    /\ UNCHANGED <<in_use, is_closed, is_bound, pid, src, pending,
                   userVars, lost, gcVars, recvVars, handlerVars, up>>

\* socket() has no descriptor left for a new entry, or bind_if_required fails.
CannotServe(i) ==
    /\ MainAt(i)
    /\ in_use[i] /\ ~is_closed[i]
    /\ \/ sockfd[i] = NoFd /\ open = Fds
       \/ \E fd \in Fds : Descriptor(i, fd) /\ BindFails(i, fd)
    /\ Exit
    /\ UNCHANGED <<tableVars, userVars, lost, gcVars, recvVars, handlerVars>>

-----------------------------------------------------------------------------
(* The handler of SIGINT and SIGSEGV, run by main or by another thread,    *)
(* which never comes back to release a mutex.  (A second signal is not     *)
(* followed; the other thread is thought of as the S thread.)              *)

HandlerBegins(thread) ==
    /\ up /\ handling = None
    /\ LoopsWait => rpc = "collect" /\ rNext = 0 /\ gcNext = 0 /\ ~verdict
    /\ handling' = thread
    /\ UNCHANGED <<is_closed, is_bound, pid, sockfd, src, userVars, mainNext, gcVars,
                   rpc, rNext, fds, hpc, hNext, unlinked, up>>

\* The signal comes while the thread has no mutex.
Interrupt(thread) ==
    /\ HandlerBegins(thread)
    /\ UNCHANGED <<in_use, udpVars, rfd, lost>>

\* It comes while the thread has the mutex of the entry i.  main may have begun to reset a
\* closed one: sockreset frees the entry first, and then closes the descriptor.
InterruptLocked(thread, i) ==
    /\ HandlerBegins(thread)
    /\ ~Held(OldMutex(i)) /\ lost' = lost \cup {OldMutex(i)}
    /\ thread = "main" => i = mainNext
    /\ \/ UNCHANGED <<in_use, udpVars, rfd>>
       \/ /\ thread = "main" /\ in_use[i] /\ is_closed[i]
          /\ in_use' = [in_use EXCEPT ![i] = FALSE]
          /\ UNCHANGED <<udpVars, rfd>> \/ Close(sockfd[i])

\* The handler is at this place of the entry i, and goes on to the next.
Handles(i, place, next) ==
    /\ up /\ handling # None /\ hNext = i /\ hpc = place
    /\ hpc' = next
    /\ hNext' = IF next = "look" THEN hNext + 1 ELSE hNext
    /\ UNCHANGED <<is_closed, is_bound, src, lost, mainNext, gcVars, rpc, rNext, fds, handling,
                   up>>

LookAtEntry(i) ==
    /\ Handles(i, "look", IF in_use[i] THEN "kill" ELSE "look")
    /\ UNCHANGED <<in_use, pid, sockfd, udpVars, userVars, rfd, unlinked>>

KillOwner(i) ==
    /\ Handles(i, "kill", "close")
    /\ IF pid[i] \in alive THEN Ended(pid[i]) ELSE UNCHANGED userVars
    /\ UNCHANGED <<in_use, pid, sockfd, udpVars, rfd, unlinked>>

CloseDescriptor(i) ==
    /\ Handles(i, "close", "in_use")
    /\ Close(sockfd[i])
    /\ UNCHANGED <<in_use, pid, sockfd, userVars, unlinked>>

FreeEntry(i) ==
    /\ Handles(i, "in_use", "pid")
    /\ in_use' = [in_use EXCEPT ![i] = FALSE]
    /\ UNCHANGED <<pid, sockfd, udpVars, userVars, rfd, unlinked>>

ForgetOwner(i) ==
    /\ Handles(i, "pid", "sockfd")
    /\ pid' = [pid EXCEPT ![i] = None]
    /\ UNCHANGED <<in_use, sockfd, udpVars, userVars, rfd, unlinked>>

ForgetDescriptor(i) ==
    /\ Handles(i, "sockfd", "unlink")
    /\ sockfd' = [sockfd EXCEPT ![i] = 0]
    /\ UNCHANGED <<in_use, pid, udpVars, userVars, rfd, unlinked>>

UnlinkMutex(i) ==
    /\ Handles(i, "unlink", "look")
    /\ unlinked' = unlinked \cup {i}
    /\ UNCHANGED <<in_use, pid, sockfd, udpVars, userVars, rfd>>

HandlerExits ==
    /\ up /\ handling # None /\ hNext = MAXSOCKETS
    /\ Exit
    /\ UNCHANGED <<tableVars, userVars, lost, mainNext, gcVars, recvVars, handlerVars>>

-----------------------------------------------------------------------------
(* The garbage collector, without any mutex.                               *)

\* A loop goes on, unless the bound stops it.
GoesOn == up /\ (LoopsWait => handling = None)

\* It asks whether the owner of an entry in use still exists.
Probe(i) ==
    /\ GoesOn /\ gcNext = i /\ ~verdict
    /\ \/ /\ in_use[i] /\ pid[i] \in Processes \ alive
          /\ verdict' = TRUE
          /\ UNCHANGED gcNext
       \/ /\ ~(in_use[i] /\ pid[i] \in Processes \ alive)
          /\ gcNext' = Following(i)
          /\ UNCHANGED verdict
    /\ UNCHANGED <<tableVars, udpVars, userVars, lost, mainNext, recvVars, handlerVars, up>>

\* Mutant of Collect: the dead owner is noticed, and nothing done about it.
CollectNothing(i) ==
    /\ up /\ gcNext = i /\ verdict
    /\ verdict' = FALSE
    /\ gcNext' = Following(i)
    /\ UNCHANGED <<tableVars, udpVars, userVars, lost, mainNext, recvVars, handlerVars, up>>

\* And marks the entry as closed.
Collect(i) ==
    /\ up /\ gcNext = i /\ verdict
    /\ is_closed' = [is_closed EXCEPT ![i] = TRUE]
    /\ verdict' = FALSE
    /\ gcNext' = Following(i)
    /\ UNCHANGED <<in_use, is_bound, pid, sockfd, src,
                   udpVars, userVars, lost, mainNext, recvVars, handlerVars, up>>

-----------------------------------------------------------------------------
(* The R thread.                                                           *)

\* FD_SET of the entries in use, one after the other (not of descriptor -1).
AddToSet ==
    /\ GoesOn /\ rpc = "collect"
    /\ in_use[rNext] => OldMutex(rNext) \notin lost
    /\ fds' = IF in_use[rNext] THEN fds \cup ({sockfd[rNext]} \ {NoFd}) ELSE fds
    /\ rNext' = Following(rNext)
    /\ rpc' = IF Following(rNext) = 0 THEN "select" ELSE rpc
    /\ UNCHANGED <<tableVars, udpVars, userVars, lost, mainNext, gcVars, rfd, handlerVars, up>>

\* select begins.
Select ==
    /\ GoesOn /\ rpc = "select" /\ fds \subseteq open
    /\ rpc' = "waiting"
    /\ UNCHANGED <<tableVars, udpVars, userVars, lost, mainNext, gcVars, rNext, fds, rfd,
                   handlerVars, up>>

\* A descriptor of its set was closed since: initksocket ends.
SelectFails ==
    /\ GoesOn /\ rpc = "select" /\ ~ (fds \subseteq open)
    /\ Exit
    /\ UNCHANGED <<tableVars, userVars, lost, mainNext, gcVars, recvVars, handlerVars>>

\* select returns the readable descriptors, or none when its time is over; the
\* entries are looked at a second later.
Wake ==
    /\ GoesOn /\ rpc = "waiting"
    /\ LET readable == {fd \in fds \cap open : pending[fd]}
       IN IF readable = {}
          THEN rpc' = "collect" /\ fds' = {}
          ELSE rpc' = "handle" /\ fds' = readable
    /\ UNCHANGED <<tableVars, udpVars, userVars, lost, mainNext, gcVars, rNext, rfd, handlerVars, up>>

\* On to the next entry of handle_socket_data, or back to select.
NextEntry ==
    /\ rNext' = Following(rNext)
    /\ rfd' = NoFd
    /\ IF Following(rNext) = 0
       THEN rpc' = "collect" /\ fds' = {}
       ELSE rpc' = "handle" /\ UNCHANGED fds

\* handle_socket_data copies the descriptor before it takes the mutex.
CopyFd ==
    /\ GoesOn /\ rpc = "handle"
    /\ \/ /\ sockfd[rNext] \in fds
          /\ rfd' = sockfd[rNext]
          /\ rpc' = "receive"
          /\ UNCHANGED <<rNext, fds>>
       \/ /\ sockfd[rNext] \notin fds
          /\ NextEntry
    /\ UNCHANGED <<tableVars, udpVars, userVars, lost, mainNext, gcVars, handlerVars, up>>

\* With the mutex: an entry that is free is skipped.
SkipClosed ==
    /\ GoesOn /\ rpc = "receive" /\ OldMutex(rNext) \notin lost
    /\ ~in_use[rNext]
    /\ NextEntry
    /\ UNCHANGED <<tableVars, udpVars, userVars, lost, mainNext, gcVars, handlerVars, up>>

\* recvfrom returns a datagram, at once or after it blocked with the mutex.
Receive ==
    /\ GoesOn /\ rpc \in {"receive", "blocked"} /\ OldMutex(rNext) \notin lost
    /\ in_use[rNext]
    /\ rfd \in open /\ pending[rfd]
    /\ pending' = [pending EXCEPT ![rfd] = FALSE]
    /\ NextEntry
    /\ UNCHANGED <<tableVars, open, boundTo, userVars, lost, mainNext, gcVars, handlerVars, up>>

\* recvfrom has nothing to return and blocks.
Block ==
    /\ GoesOn /\ rpc = "receive" /\ OldMutex(rNext) \notin lost
    /\ in_use[rNext]
    /\ rfd \in open /\ ~pending[rfd]
    /\ rpc' = "blocked"
    /\ UNCHANGED <<tableVars, udpVars, userVars, lost, mainNext, gcVars, rNext, fds, rfd, handlerVars, up>>

\* The copied descriptor was closed: recvfrom fails and initksocket ends.
ReceiveFails ==
    /\ GoesOn /\ rpc = "receive" /\ OldMutex(rNext) \notin lost
    /\ in_use[rNext]
    /\ rfd \notin open
    /\ Exit
    /\ UNCHANGED <<tableVars, userVars, lost, mainNext, gcVars, recvVars, handlerVars>>

\* A peer's datagram arrives at a bound UDP socket.
Arrive(fd) ==
    /\ up
    /\ fd \in open /\ boundTo[fd] # None
    /\ pending' = [pending EXCEPT ![fd] = TRUE]
    /\ UNCHANGED <<tableVars, open, boundTo, userVars, lost, mainNext, gcVars, recvVars,
                   handlerVars, up>>

-----------------------------------------------------------------------------
UserCall(u) ==
    \/ FindFree(u) \/ TakeEntry(u) \/ SetBound(u) \/ k_close(u)
    \/ \E address \in Addresses : k_bind(u, address)

MainStep == \E i \in Sockets :
    SkipFree(i) \/ ResetClosed(i) \/ Serve(i) \/ CannotServe(i)
HandlerStep ==
    \/ \E i \in Sockets :
         \/ LookAtEntry(i) \/ KillOwner(i) \/ CloseDescriptor(i) \/ FreeEntry(i)
         \/ ForgetOwner(i) \/ ForgetDescriptor(i) \/ UnlinkMutex(i)
    \/ HandlerExits
GCStep == \E i \in Sockets : Probe(i) \/ Collect(i)
RStep ==
    \/ AddToSet \/ Select \/ SelectFails \/ Wake \/ CopyFd \/ SkipClosed \/ Receive \/ Block
    \/ ReceiveFails

Next ==
    \/ \E u \in Processes : UserCall(u) \/ Die(u) \/ DieLocked(u)
    \/ \E thread \in Signalled :
         Interrupt(thread) \/ \E i \in Sockets : InterruptLocked(thread, i)
    \/ MainStep \/ HandlerStep \/ GCStep \/ RStep
    \/ \E fd \in Fds : Arrive(fd)

Spec == Init /\ [][Next]_vars

\* The loops of main and of the garbage collector go on for ever; the handler waits for
\* nobody.
FairSpec == Spec /\ WF_vars(MainStep) /\ WF_vars(GCStep) /\ WF_vars(HandlerStep)

-----------------------------------------------------------------------------
(* Properties.                                                             *)

\* The variables hold values of their C types (type invariant).
TypeOK ==
    /\ in_use \in [Sockets -> BOOLEAN] /\ is_closed \in [Sockets -> BOOLEAN]
    /\ is_bound \in [Sockets -> BOOLEAN]
    /\ pid \in [Sockets -> Processes \cup {None}]
    /\ sockfd \in [Sockets -> Fds \cup {NoFd}]
    /\ src \in [Sockets -> Addresses \cup {None}]
    /\ open \subseteq Fds
    /\ boundTo \in [Fds -> Addresses \cup {None}] /\ pending \in [Fds -> BOOLEAN]
    /\ lost \subseteq Sockets \X BOOLEAN
    /\ pc \in [Processes -> {"k_socket", "found", "k_bind", "binding", "bound",
                             "closed", "failed", "ended"}]
    /\ mine \in [Processes -> Sockets]
    /\ mainNext \in Sockets /\ gcNext \in Sockets /\ verdict \in BOOLEAN
    /\ rpc \in {"collect", "select", "waiting", "handle", "receive", "blocked"}
    /\ rNext \in Sockets /\ fds \subseteq Fds /\ rfd \in Fds \cup {NoFd}
    /\ handling \in {None, "main", "other"} /\ unlinked \subseteq Sockets
    /\ hpc \in {"look", "kill", "close", "in_use", "pid", "sockfd", "unlink"}
    /\ hNext \in 0 .. MAXSOCKETS
    /\ up \in BOOLEAN

\* The handler has closed the descriptor of the entry.
Cleared(i) ==
    /\ handling # None
    /\ i <= hNext
    /\ i = hNext => hpc \notin {"look", "kill", "close"}

(* However allocations, resets and deaths interleave, the descriptor of an *)
(* entry in use is open and is no other entry's: the S and the R thread    *)
(* never send or receive through somebody else's UDP socket (sockreset,    *)
(* main, k_socket).  While main runs the signal handler it remains so of   *)
(* the entries that are still to be cleared: nothing takes the numbers it  *)
(* closes.  (In another thread the handler would race with socket().)      *)
DescriptorsAreOwn ==
    up /\ handling # "other" =>
        \A i \in Sockets : in_use[i] /\ sockfd[i] # NoFd /\ ~Cleared(i) =>
            /\ sockfd[i] \in open
            /\ \A j \in Sockets \ {i} : in_use[j] => sockfd[j] # sockfd[i]

HasDeadOwner(i) == in_use[i] /\ pid[i] \notin alive

(* The entry of a process that died is free in the end, or somebody else's *)
(* (GCThread, and ResetClosed of main); only the end of initksocket or a   *)
(* mutex that is never released can prevent it.                            *)
DeadOwnersAreCollected ==
    \A i \in Sockets :
        HasDeadOwner(i) ~> (~HasDeadOwner(i) \/ ~up \/ \E m \in Sockets \X BOOLEAN : Held(m))

-----------------------------------------------------------------------------
(* What the documentation says of the program, and the code does not keep: *)
(* "Allocates a new KTP socket from the shared memory", so no two running  *)
(* processes have got the same entry from k_socket.                        *)
EntriesHaveOneUser ==
    \A u, v \in alive : u # v /\ pc[u] \in {"k_bind", "binding", "bound"}
                              /\ pc[v] \in {"k_bind", "binding", "bound"}
                           => mine[u] # mine[v]
=============================================================================
