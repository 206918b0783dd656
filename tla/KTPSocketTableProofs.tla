------------------------ MODULE KTPSocketTableProofs ------------------------
(* For every number of entries, processes and descriptors: the types, and  *)
(* that no entry in use refers to a closed or to another's descriptor.     *)
EXTENDS KTPSocketTable, TLAPS

\* What main leaves to the handler it runs, and the handler to it.
HandlerInv ==
    /\ handling = None => hNext = 0 /\ hpc = "look"
    /\ up /\ handling # "other" =>
        /\ 0 \in open
        /\ hpc \in {"kill", "close"} => hNext \in Sockets /\ in_use[hNext]
        /\ \A i \in Sockets : in_use[i] =>
             /\ Cleared(i) => sockfd[i] \notin open \ {0}
             /\ ~Cleared(i) => sockfd[i] # 0

\* DescriptorsAreOwn is inductive together with it and the types.
TableInv == TypeOK /\ DescriptorsAreOwn /\ HandlerInv

LEMMA Entries ==
    /\ Sockets \subseteq Int /\ 0 \in Sockets
    /\ \A i \in Sockets : Following(i) \in Sockets
    /\ 0 \in Fds /\ NoFd \notin Fds
BY TableAssumption DEF Sockets, Following, Fds, NoFd

LEMMA MutexTypes ==
    ASSUME NEW i \in Sockets
    PROVE  OldMutex(i) \in Sockets \X BOOLEAN /\ Mutex(i) \in Sockets \X BOOLEAN
<1>1. OldMutex(i) \in Sockets \X BOOLEAN BY DEF OldMutex
<1>2. (i \in unlinked) \in BOOLEAN OBVIOUS
<1>3. Mutex(i) \in Sockets \X BOOLEAN BY <1>2 DEF Mutex
<1> QED BY <1>1, <1>3

LEMMA InitTable == Init => TableInv
<1> SUFFICES ASSUME Init PROVE TableInv
  OBVIOUS
<1>1. /\ in_use \in [Sockets -> BOOLEAN] /\ is_closed \in [Sockets -> BOOLEAN]
      /\ is_bound \in [Sockets -> BOOLEAN] /\ pid \in [Sockets -> Processes \cup {None}]
  BY DEF Init
<1>2. sockfd \in [Sockets -> Fds \cup {NoFd}] /\ src \in [Sockets -> Addresses \cup {None}]
  BY Entries DEF Init
<1>3. /\ open \subseteq Fds
      /\ boundTo \in [Fds -> Addresses \cup {None}] /\ pending \in [Fds -> BOOLEAN]
  BY Entries DEF Init
<1>4. /\ lost \subseteq Sockets \X BOOLEAN
      /\ pc \in [Processes -> {"k_socket", "found", "k_bind", "binding", "bound",
                               "closed", "failed", "ended"}]
      /\ mine \in [Processes -> Sockets]
  BY Entries DEF Init
<1>5. /\ mainNext \in Sockets /\ gcNext \in Sockets /\ verdict \in BOOLEAN
      /\ rpc \in {"collect", "select", "waiting", "handle", "receive", "blocked"}
      /\ rNext \in Sockets /\ fds \subseteq Fds /\ rfd \in Fds \cup {NoFd}
      /\ up \in BOOLEAN
  BY Entries DEF Init
<1>6. /\ handling \in {None, "main", "other"} /\ unlinked \subseteq Sockets
      /\ hpc \in {"look", "kill", "close", "in_use", "pid", "sockfd", "unlink"}
      /\ hNext \in 0 .. MAXSOCKETS
  BY TableAssumption DEF Init
<1>7. TypeOK BY <1>1, <1>2, <1>3, <1>4, <1>5, <1>6 DEF TypeOK
<1>8. DescriptorsAreOwn BY DEF Init, DescriptorsAreOwn
<1>9. HandlerInv BY DEF Init, HandlerInv
<1> QED BY <1>7, <1>8, <1>9 DEF TableInv

\* Steps that leave the table's descriptors, the open ones and the handler alone.
LEMMA SameDescriptors ==
    ASSUME DescriptorsAreOwn, HandlerInv, UNCHANGED <<in_use, sockfd, open, handlerVars, up>>
    PROVE  DescriptorsAreOwn' /\ HandlerInv'
BY DEF DescriptorsAreOwn, HandlerInv, Cleared, handlerVars

\* Steps that end initksocket.
LEMMA ExitTable ==
    ASSUME TypeOK, HandlerInv, Exit,
           UNCHANGED <<tableVars, userVars, lost, gcVars, recvVars, handlerVars>>,
           mainNext' \in Sockets
    PROVE  TableInv'
<1>1. TypeOK'
  BY DEF TypeOK, Exit, tableVars, userVars, gcVars, recvVars, handlerVars
<1>2. DescriptorsAreOwn' /\ HandlerInv'
  BY DEF DescriptorsAreOwn, HandlerInv, Exit, handlerVars
<1> QED BY <1>1, <1>2 DEF TableInv

\* What a close of a descriptor leaves.
LEMMA CloseTypes ==
    ASSUME TypeOK, NEW fd, Close(fd)
    PROVE  /\ open' \subseteq Fds /\ boundTo' \in [Fds -> Addresses \cup {None}]
           /\ pending' \in [Fds -> BOOLEAN] /\ rfd' \in Fds \cup {NoFd}
BY DEF TypeOK, Close

\* An entry is freed and its descriptor closed, or is free and keeps it; the handler is not
\* yet at work.
LEMMA FreedEntry ==
    ASSUME TableInv, NEW i \in Sockets, in_use[i], up, handling = None,
           in_use' = [in_use EXCEPT ![i] = FALSE],
           open' \in {open, open \ {sockfd[i]}},
           \A j \in Sockets \ {i} : sockfd'[j] = sockfd[j],
           up' = up, handling' \in {None, "main"}, hNext' = hNext, hpc' = hpc
    PROVE  DescriptorsAreOwn' /\ HandlerInv'
<1>1. hNext = 0 /\ hpc = "look" /\ hNext' = 0 /\ hpc' = "look" BY DEF TableInv, HandlerInv
<1>2. \A j \in Sockets : ~Cleared(j) /\ ~Cleared(j)'
  BY <1>1 DEF Cleared, Sockets
<1>3. handling # "other" BY DEF None
<1>4. \A j \in Sockets : in_use'[j] => j # i /\ in_use[j] /\ sockfd'[j] = sockfd[j]
  BY DEF TableInv, TypeOK
<1>5. sockfd[i] # 0 /\ \A j \in Sockets : in_use[j] => sockfd[j] # 0
  BY <1>2, <1>3 DEF TableInv, HandlerInv
<1>6. 0 \in open' BY <1>3, <1>5 DEF TableInv, HandlerInv
<1>7. \A j \in Sockets : in_use[j] /\ sockfd[j] # NoFd =>
        /\ sockfd[j] \in open
        /\ \A k \in Sockets \ {j} : in_use[k] => sockfd[k] # sockfd[j]
  BY <1>2, <1>3 DEF TableInv, DescriptorsAreOwn
<1>8. \A j \in Sockets : in_use'[j] /\ sockfd'[j] # NoFd => sockfd'[j] \in open'
  BY <1>4, <1>7
<1>9. DescriptorsAreOwn' BY <1>4, <1>7, <1>8 DEF DescriptorsAreOwn
<1>10. \A j \in Sockets : in_use'[j] => sockfd'[j] # 0 BY <1>4, <1>5
<1>11. HandlerInv' BY <1>1, <1>2, <1>6, <1>10 DEF HandlerInv
<1> QED BY <1>9, <1>11

LEMMA UserTable ==
    ASSUME TableInv, NEW u \in Processes, UserCall(u) \/ Die(u) \/ DieLocked(u)
    PROVE  TableInv'
<1> USE DEF TableInv, tableVars, udpVars, userVars, gcVars, recvVars, handlerVars
<1>0. mine[u] \in Sockets BY DEF TypeOK
<1>1. CASE FindFree(u)
  <2>1. mine[u] + 1 < MAXSOCKETS => mine[u] + 1 \in Sockets
    BY <1>0, TableAssumption DEF Sockets
  <2>2. TypeOK' BY <1>1, <2>1 DEF FindFree, TypeOK
  <2> QED BY <1>1, <2>2, SameDescriptors DEF FindFree
<1>2. CASE TakeEntry(u)
  <2>1. /\ in_use' = [in_use EXCEPT ![mine[u]] = TRUE]
        /\ sockfd' = [sockfd EXCEPT ![mine[u]] = NoFd] /\ open' = open
        /\ UNCHANGED <<handlerVars, up>>
    BY <1>2, TableAssumption DEF TakeEntry, Reset, None
  <2>2. TypeOK' BY <1>0, <1>2, <2>1 DEF TakeEntry, Reset, TypeOK
  <2>i. PICK i \in Sockets : i = mine[u] BY <1>0
  <2>3. /\ \A j \in Sockets : Cleared(j)' = Cleared(j)
        /\ \A j \in Sockets : j # i => in_use'[j] = in_use[j] /\ sockfd'[j] = sockfd[j]
    BY <2>1, <2>i DEF Cleared, TypeOK
  <2>4. in_use'[i] /\ sockfd'[i] = NoFd BY <2>i, <2>1 DEF TypeOK
  <2>5. DescriptorsAreOwn'
    <3>1. open' = open /\ up' = up /\ handling' = handling BY <2>1
    <3> QED BY <3>1, <2>3, <2>4, Entries DEF DescriptorsAreOwn
  <2>6. HandlerInv'
    <3>1. /\ open' = open /\ up' = up
          /\ handling' = handling /\ hpc' = hpc /\ hNext' = hNext
      BY <2>1
    <3>2. ASSUME up, handling # "other", hpc \in {"kill", "close"}
          PROVE  hNext \in Sockets /\ in_use'[hNext]
      BY <2>3, <2>4, <3>2 DEF HandlerInv
    <3>3. ASSUME up, handling # "other"
          PROVE  /\ 0 \in open
                 /\ \A j \in Sockets : in_use'[j] =>
                      /\ Cleared(j) => sockfd'[j] \notin open \ {0}
                      /\ ~Cleared(j) => sockfd'[j] # 0
      <4>1. NoFd \notin open /\ NoFd # 0 BY Entries DEF TypeOK
      <4> QED BY <2>3, <2>4, <3>3, <4>1 DEF HandlerInv
    <3>4. handling = None => hNext = 0 /\ hpc = "look" BY DEF HandlerInv
    <3> QED BY <3>1, <3>2, <3>3, <3>4, <2>3 DEF HandlerInv
  <2> QED BY <2>2, <2>5, <2>6
<1>3. CASE \E address \in Addresses : k_bind(u, address)
  <2>1. TypeOK' BY <1>0, <1>3 DEF k_bind, TypeOK
  <2> QED BY <1>3, <2>1, SameDescriptors DEF k_bind
<1>4. CASE SetBound(u)
  <2>1. TypeOK' BY <1>0, <1>4 DEF SetBound, TypeOK
  <2> QED BY <1>4, <2>1, SameDescriptors DEF SetBound
<1>5. CASE k_close(u)
  <2>1. TypeOK' BY <1>0, <1>5 DEF k_close, TypeOK
  <2> QED BY <1>5, <2>1, SameDescriptors DEF k_close
<1>6. CASE Die(u) \/ DieLocked(u)
  <2>1. 0 \in Sockets BY Entries
  <2>2. lost' \subseteq Sockets \X BOOLEAN
    BY <1>0, <1>6, MutexTypes DEF Die, DieLocked, TypeOK
  <2>3. TypeOK' BY <1>6, <2>1, <2>2 DEF Die, DieLocked, Ended, TypeOK
  <2> QED BY <1>6, <2>3, SameDescriptors DEF Die, DieLocked
<1> QED BY <1>1, <1>2, <1>3, <1>4, <1>5, <1>6 DEF UserCall

LEMMA MainTable == ASSUME TableInv, MainStep PROVE TableInv'
<1> USE DEF TableInv, tableVars, udpVars, userVars, gcVars, recvVars, handlerVars
<1>0. PICK i \in Sockets : SkipFree(i) \/ ResetClosed(i) \/ Serve(i) \/ CannotServe(i)
  BY DEF MainStep
<1>1. up /\ handling # "main" /\ mainNext' \in Sockets
  BY <1>0, Entries DEF SkipFree, ResetClosed, Serve, CannotServe, MainAt
<1>2. CASE SkipFree(i)
  <2>1. TypeOK' BY <1>1, <1>2 DEF SkipFree, TypeOK
  <2> QED BY <1>2, <2>1, SameDescriptors DEF SkipFree
<1>3. CASE CannotServe(i)
  BY <1>1, <1>3, ExitTable DEF CannotServe
<1>4. CASE ResetClosed(i)
  <2>1. /\ in_use' = [in_use EXCEPT ![i] = FALSE]
        /\ sockfd' = [sockfd EXCEPT ![i] = NoFd]
        /\ open' = open \ {sockfd[i]}
        /\ UNCHANGED <<handlerVars, up>> /\ in_use[i]
    BY <1>4, TableAssumption DEF ResetClosed, Reset, Close, None
  <2>2. TypeOK'
    BY <1>1, <1>4, <2>1, CloseTypes DEF ResetClosed, Reset, TypeOK
  <2>3. CASE handling = None
    <3>1. \A j \in Sockets \ {i} : sockfd'[j] = sockfd[j] BY <2>1 DEF TypeOK
    <3> QED BY <1>1, <2>1, <2>2, <2>3, <3>1, FreedEntry
  <2>4. CASE handling = "other"
    BY <2>1, <2>2, <2>4 DEF DescriptorsAreOwn, HandlerInv, None
  <2> QED BY <1>1, <2>3, <2>4 DEF TypeOK
<1>5. CASE Serve(i)
  <2>1. PICK fd \in Fds : /\ Descriptor(i, fd)
                          /\ open' = open \cup {fd}
                          /\ sockfd' = [sockfd EXCEPT ![i] = fd]
                          /\ boundTo' \in {[boundTo EXCEPT ![fd] = src[i]], boundTo}
    BY <1>5 DEF Serve
  <2>2. in_use' = in_use /\ in_use[i] /\ UNCHANGED <<handlerVars, up>>
    BY <1>5 DEF Serve
  <2>3. TypeOK'
    <3>1. boundTo' \in [Fds -> Addresses \cup {None}] BY <1>0, <2>1 DEF TypeOK
    <3> QED BY <1>1, <1>5, <2>1, <3>1 DEF Serve, TypeOK
  <2>4. CASE handling = "other"
    BY <2>2, <2>3, <2>4 DEF DescriptorsAreOwn, HandlerInv, None
  <2>5. CASE handling = None
    <3>1. hNext = 0 /\ hpc = "look" BY <2>5 DEF HandlerInv
    <3>2. \A j \in Sockets : ~Cleared(j) /\ ~Cleared(j)'
      BY <2>2, <2>5 DEF Cleared
    <3>3. handling # "other" BY <2>5 DEF None
    <3>4. /\ 0 \in open
          /\ \A j \in Sockets : in_use[j] => sockfd[j] # 0
      BY <1>1, <3>2, <3>3 DEF HandlerInv
    <3>5. \A j \in Sockets : in_use[j] /\ sockfd[j] # NoFd =>
            /\ sockfd[j] \in open
            /\ \A k \in Sockets \ {j} : in_use[k] => sockfd[k] # sockfd[j]
      BY <1>1, <3>2, <3>3 DEF DescriptorsAreOwn
    \* The descriptor is new, or was this entry's before.
    <3>6. ASSUME NEW j \in Sockets \ {i}, in_use[j] PROVE sockfd[j] # fd
      <4>1. CASE sockfd[i] = NoFd
        <5>1. fd \notin open BY <2>1, <4>1 DEF Descriptor
        <5> QED BY <3>5, <3>6, <5>1, Entries
      <4>2. CASE sockfd[i] # NoFd
        <5>1. fd = sockfd[i] BY <2>1, <4>2 DEF Descriptor
        <5> QED BY <1>0, <2>2, <3>5, <3>6, <4>2, <5>1
      <4> QED BY <4>1, <4>2
    <3>7. fd # 0 BY <1>0, <2>1, <2>2, <3>4 DEF Descriptor
    <3>8. sockfd'[i] = fd /\ \A j \in Sockets \ {i} : sockfd'[j] = sockfd[j]
      BY <1>0, <2>1 DEF TypeOK
    <3>9. DescriptorsAreOwn'
      BY <1>0, <2>1, <2>2, <3>5, <3>6, <3>8 DEF DescriptorsAreOwn
    <3>10. HandlerInv'
      BY <1>0, <2>1, <2>2, <3>1, <3>2, <3>4, <3>7, <3>8 DEF HandlerInv
    <3> QED BY <2>3, <3>9, <3>10
  <2> QED BY <1>1, <2>4, <2>5 DEF TypeOK
<1> QED BY <1>0, <1>2, <1>3, <1>4, <1>5

LEMMA SignalTable ==
    ASSUME TableInv, NEW thread \in Signalled,
           Interrupt(thread) \/ \E i \in Sockets : InterruptLocked(thread, i)
    PROVE  TableInv'
<1> USE DEF TableInv, HandlerBegins
<1>0. up /\ handling = None /\ handling' \in {"main", "other"} /\ thread = handling'
  BY TableAssumption DEF Interrupt, InterruptLocked
<1>1. CASE UNCHANGED <<in_use, udpVars, rfd>> /\ (lost' = lost \/ \E i \in Sockets : lost' = lost \cup {OldMutex(i)})
  <2>1. lost' \subseteq Sockets \X BOOLEAN BY <1>1, MutexTypes DEF TypeOK
  <2>2. /\ UNCHANGED <<in_use, udpVars, rfd>>
        /\ UNCHANGED <<is_closed, is_bound, pid, sockfd, src, userVars, mainNext, gcVars,
                       rpc, rNext, fds, hpc, hNext, unlinked, up>>
    BY <1>1 DEF Interrupt, InterruptLocked
  <2>3. TypeOK' BY <1>0, <2>1, <2>2 DEF TypeOK, userVars, gcVars, udpVars
  <2>4. hNext = 0 /\ hpc = "look" BY <1>0 DEF HandlerInv
  <2>5. \A j \in Sockets : ~Cleared(j) /\ ~Cleared(j)'
    BY <1>0, <2>2, <2>4 DEF Cleared, Sockets
  <2>6. handling # "other" BY <1>0 DEF None
  <2>7. DescriptorsAreOwn' BY <1>0, <2>2, <2>5, <2>6 DEF DescriptorsAreOwn, udpVars
  <2>8. HandlerInv' BY <1>0, <2>2, <2>4, <2>5, <2>6 DEF HandlerInv, udpVars
  <2> QED BY <2>3, <2>7, <2>8
<1>2. ASSUME NEW i \in Sockets, InterruptLocked(thread, i), thread = "main", in_use[i],
             in_use' = [in_use EXCEPT ![i] = FALSE],
             UNCHANGED <<udpVars, rfd>> \/ Close(sockfd[i])
      PROVE  TableInv'
  <2>1. lost' \subseteq Sockets \X BOOLEAN BY <1>2, MutexTypes DEF InterruptLocked, TypeOK
  <2>2. /\ open' \subseteq Fds /\ boundTo' \in [Fds -> Addresses \cup {None}]
        /\ pending' \in [Fds -> BOOLEAN] /\ rfd' \in Fds \cup {NoFd}
    BY <1>2, CloseTypes DEF TypeOK, udpVars
  <2>3. UNCHANGED <<is_closed, is_bound, pid, sockfd, src, userVars, mainNext, gcVars,
                    rpc, rNext, fds, hpc, hNext, unlinked, up>>
    BY <1>2 DEF InterruptLocked
  <2>4. TypeOK' BY <1>0, <1>2, <2>1, <2>2, <2>3 DEF TypeOK, userVars, gcVars
  <2>5. open' \in {open, open \ {sockfd[i]}} BY <1>2 DEF Close, udpVars
  <2>6. DescriptorsAreOwn' /\ HandlerInv'
    BY <1>0, <1>2, <2>3, <2>5, FreedEntry
  <2> QED BY <2>4, <2>6
<1>3. CASE Interrupt(thread)
  BY <1>1, <1>3 DEF Interrupt
<1>4. CASE \E i \in Sockets : InterruptLocked(thread, i)
  <2>1. PICK i \in Sockets : InterruptLocked(thread, i) BY <1>4
  <2>2. lost' = lost \cup {OldMutex(i)} BY <2>1 DEF InterruptLocked
  <2> QED BY <1>1, <1>2, <2>1, <2>2 DEF InterruptLocked
<1> QED BY <1>3, <1>4

\* The handler's steps leave the types alone.
LEMMA HandlerTypes ==
    ASSUME TypeOK, NEW i \in Sockets,
           \/ LookAtEntry(i) \/ KillOwner(i) \/ CloseDescriptor(i) \/ FreeEntry(i)
           \/ ForgetOwner(i) \/ ForgetDescriptor(i) \/ UnlinkMutex(i)
    PROVE  TypeOK'
<1> USE DEF tableVars, udpVars, userVars, gcVars
<1>1. /\ hpc' \in {"look", "kill", "close", "in_use", "pid", "sockfd", "unlink"}
      /\ hNext' \in 0 .. MAXSOCKETS
      /\ UNCHANGED <<is_closed, is_bound, src, lost, mainNext, gcVars, rpc, rNext, fds, handling,
                     up>>
  BY TableAssumption DEF LookAtEntry, KillOwner, CloseDescriptor, FreeEntry, ForgetOwner,
     ForgetDescriptor, UnlinkMutex, Handles, Sockets
<1>2. CASE LookAtEntry(i)
  BY <1>1, <1>2 DEF LookAtEntry, TypeOK
<1>3. CASE KillOwner(i)
  <2>1. pc' \in [Processes -> {"k_socket", "found", "k_bind", "binding", "bound",
                               "closed", "failed", "ended"}]
    BY <1>3 DEF KillOwner, Ended, TypeOK
  <2>2. mine' \in [Processes -> Sockets] BY <1>3, Entries DEF KillOwner, Ended, TypeOK
  <2>3. UNCHANGED <<in_use, pid, sockfd, udpVars, rfd, unlinked>> BY <1>3 DEF KillOwner
  <2> QED BY <1>1, <2>1, <2>2, <2>3 DEF TypeOK
<1>4. CASE CloseDescriptor(i)
  <2>1. /\ open' \subseteq Fds /\ boundTo' \in [Fds -> Addresses \cup {None}]
        /\ pending' \in [Fds -> BOOLEAN] /\ rfd' \in Fds \cup {NoFd}
    BY <1>4, CloseTypes DEF CloseDescriptor
  <2> QED BY <1>1, <1>4, <2>1 DEF CloseDescriptor, TypeOK
<1>5. CASE FreeEntry(i)
  BY <1>1, <1>5 DEF FreeEntry, TypeOK
<1>6. CASE ForgetOwner(i)
  BY <1>1, <1>6 DEF ForgetOwner, TypeOK
<1>7. CASE ForgetDescriptor(i)
  BY <1>1, <1>7, Entries DEF ForgetDescriptor, TypeOK
<1>8. CASE UnlinkMutex(i)
  BY <1>1, <1>8 DEF UnlinkMutex, TypeOK
<1> QED BY <1>2, <1>3, <1>4, <1>5, <1>6, <1>7, <1>8

LEMMA HandlerTable == ASSUME TableInv, HandlerStep PROVE TableInv'
<1> USE DEF TableInv
<1>1. CASE HandlerExits
  BY <1>1, ExitTable DEF HandlerExits, TypeOK
<1>2. ASSUME NEW i \in Sockets,
             \/ LookAtEntry(i) \/ KillOwner(i) \/ CloseDescriptor(i) \/ FreeEntry(i)
             \/ ForgetOwner(i) \/ ForgetDescriptor(i) \/ UnlinkMutex(i)
      PROVE  TableInv'
  <2>1. TypeOK' BY <1>2, HandlerTypes
  <2>2. /\ up /\ up' /\ handling # None /\ hNext = i /\ handling' = handling
        /\ hNext' = IF hpc' = "look" THEN i + 1 ELSE i
    BY <1>2 DEF LookAtEntry, KillOwner, CloseDescriptor, FreeEntry, ForgetOwner,
                ForgetDescriptor, UnlinkMutex, Handles
  <2>3. CASE handling = "other"
    BY <2>1, <2>2, <2>3 DEF DescriptorsAreOwn, HandlerInv
  <2>4. CASE handling = "main"
    <3>0. handling # "other" /\ handling' # "other" BY <2>2, <2>4
    <3>1. /\ 0 \in open
          /\ hpc \in {"kill", "close"} => in_use[i]
          /\ \A j \in Sockets : in_use[j] =>
               /\ Cleared(j) => sockfd[j] \notin open \ {0}
               /\ ~Cleared(j) => sockfd[j] # 0
      BY <2>2, <3>0 DEF HandlerInv
    <3>2. \A j \in Sockets : in_use[j] /\ sockfd[j] # NoFd /\ ~Cleared(j) =>
            /\ sockfd[j] \in open
            /\ \A k \in Sockets \ {j} : in_use[k] => sockfd[k] # sockfd[j]
      BY <2>2, <3>0 DEF DescriptorsAreOwn
    \* The steps before the close of the entry's descriptor.
    <3>3. CASE LookAtEntry(i) \/ KillOwner(i)
      <4>1. UNCHANGED <<in_use, sockfd, open>> BY <3>3 DEF LookAtEntry, KillOwner, udpVars
      <4>2. ~Cleared(i) BY <2>2, <3>3 DEF LookAtEntry, KillOwner, Handles, Cleared
      <4>3. /\ hpc' \in {"kill", "close"} => in_use[i] /\ hNext' = i
            /\ hpc' \in {"look", "kill", "close"}
            /\ hpc' = "look" => ~in_use[i]
        BY <2>2, <3>1, <3>3 DEF LookAtEntry, KillOwner, Handles
      <4>4. \A j \in Sockets : j # i => Cleared(j)' = Cleared(j)
        BY <2>2, <4>2, <4>3 DEF Cleared, Sockets
      <4>5. in_use[i] => ~Cleared(i)' BY <2>2, <4>3 DEF Cleared
      <4>6. DescriptorsAreOwn'
        BY <3>2, <4>1, <4>2, <4>4, <4>5 DEF DescriptorsAreOwn
      <4>7. HandlerInv'
        BY <2>2, <3>1, <4>1, <4>2, <4>3, <4>4, <4>5 DEF HandlerInv
      <4> QED BY <2>1, <4>6, <4>7
    <3>4. CASE CloseDescriptor(i)
      <4>1. /\ open' = open \ {sockfd[i]} /\ UNCHANGED <<in_use, sockfd>>
            /\ hpc = "close" /\ hpc' = "in_use" /\ in_use[i]
        BY <3>1, <3>4 DEF CloseDescriptor, Close, Handles
      <4>2. ~Cleared(i) /\ Cleared(i)' BY <2>2, <4>1 DEF Cleared, Sockets
      <4>3. \A j \in Sockets : j # i => Cleared(j)' = Cleared(j)
        BY <2>2, <4>1 DEF Cleared, Sockets
      <4>4. DescriptorsAreOwn'
        BY <3>2, <4>1, <4>2, <4>3 DEF DescriptorsAreOwn
      <4>5. 0 \in open' BY <3>1, <4>1, <4>2
      <4>6. HandlerInv'
        BY <2>2, <3>1, <4>1, <4>2, <4>3, <4>5 DEF HandlerInv
      <4> QED BY <2>1, <4>4, <4>6
    \* The steps after it.
    <3>5. CASE FreeEntry(i) \/ ForgetOwner(i) \/ ForgetDescriptor(i) \/ UnlinkMutex(i)
      <4>1. /\ open' = open /\ hpc' \notin {"kill", "close"}
            /\ hpc \notin {"look", "kill", "close"}
            /\ in_use' \in {in_use, [in_use EXCEPT ![i] = FALSE]}
            /\ sockfd' \in {sockfd, [sockfd EXCEPT ![i] = 0]}
        BY <3>5 DEF FreeEntry, ForgetOwner, ForgetDescriptor, UnlinkMutex, Handles, udpVars
      <4>2. Cleared(i) /\ Cleared(i)'
        BY <2>2, <3>5, <4>1 DEF Cleared, Sockets, FreeEntry, ForgetOwner, ForgetDescriptor,
           UnlinkMutex, Handles
      <4>3. \A j \in Sockets : j # i => /\ Cleared(j)' = Cleared(j)
                                        /\ in_use'[j] = in_use[j] /\ sockfd'[j] = sockfd[j]
        <5>1. hNext' \in {i, i + 1} /\ hNext = i BY <2>2
        <5>2. ASSUME NEW j \in Sockets, j # i PROVE Cleared(j)' = Cleared(j)
          <6>1. CASE hpc' = "look" BY <2>2, <4>1, <5>2, <6>1 DEF Cleared, Sockets
          <6>2. CASE hpc' # "look" BY <2>2, <4>1, <5>2, <6>2 DEF Cleared, Sockets
          <6> QED BY <6>1, <6>2
        <5>3. ASSUME NEW j \in Sockets, j # i
              PROVE  in_use'[j] = in_use[j] /\ sockfd'[j] = sockfd[j]
          BY <4>1, <5>3 DEF TypeOK
        <5> QED BY <5>2, <5>3
      <4>4. sockfd'[i] \in {sockfd[i], 0} /\ (in_use'[i] => in_use[i])
        BY <4>1 DEF TypeOK
      <4>5. ASSUME NEW j \in Sockets \ {i}, in_use[j], sockfd[j] # NoFd, ~Cleared(j), in_use'[i]
            PROVE  sockfd'[i] # sockfd[j]
        BY <3>1, <3>2, <4>4, <4>5
      <4>6. DescriptorsAreOwn'
        BY <3>2, <4>1, <4>2, <4>3, <4>5 DEF DescriptorsAreOwn
      <4>7. HandlerInv'
        BY <2>2, <3>1, <4>1, <4>2, <4>3, <4>4 DEF HandlerInv
      <4> QED BY <2>1, <4>6, <4>7
    <3> QED BY <1>2, <3>3, <3>4, <3>5
  <2> QED BY <2>2, <2>3, <2>4 DEF TypeOK
<1> QED BY <1>1, <1>2 DEF HandlerStep

LEMMA OtherThreadsTable ==
    ASSUME TableInv, GCStep \/ RStep \/ \E fd \in Fds : Arrive(fd) PROVE TableInv'
<1> USE DEF TableInv, tableVars, udpVars, userVars, gcVars, recvVars, handlerVars
<1>1. CASE GCStep
  <2>1. PICK i \in Sockets : Probe(i) \/ Collect(i) BY <1>1 DEF GCStep
  <2>2. Following(i) \in Sockets BY Entries
  <2>3. TypeOK'
    <3>1. CASE Probe(i) BY <2>2, <3>1 DEF Probe, TypeOK
    <3>2. CASE Collect(i) BY <2>2, <3>2 DEF Collect, TypeOK
    <3> QED BY <2>1, <3>1, <3>2
  <2> QED BY <2>1, <2>3, SameDescriptors DEF Probe, Collect
<1>2. CASE RStep
  <2>1. Following(rNext) \in Sockets BY Entries DEF TypeOK
  <2>2. CASE AddToSet
    <3>1. fds' \subseteq Fds /\ rpc' \in {"collect", "select"}
      BY <2>2 DEF AddToSet, TypeOK
    <3>2. TypeOK' BY <2>1, <2>2, <3>1 DEF AddToSet, TypeOK
    <3> QED BY <2>2, <3>2, SameDescriptors DEF AddToSet
  <2>3. CASE Select \/ Wake \/ Block
    <3>1. TypeOK' BY <2>3 DEF Select, Wake, Block, TypeOK
    <3> QED BY <2>3, <3>1, SameDescriptors DEF Select, Wake, Block
  <2>4. CASE CopyFd \/ SkipClosed \/ Receive
    <3>1. TypeOK'
      <4>1. CASE CopyFd BY <2>1, <4>1 DEF CopyFd, NextEntry, TypeOK
      <4>2. CASE SkipClosed BY <2>1, <4>2 DEF SkipClosed, NextEntry, TypeOK
      <4>3. CASE Receive BY <2>1, <4>3 DEF Receive, NextEntry, TypeOK
      <4> QED BY <2>4, <4>1, <4>2, <4>3
    <3> QED BY <2>4, <3>1, SameDescriptors DEF CopyFd, SkipClosed, Receive
  <2>5. CASE SelectFails \/ ReceiveFails
    <3>1. mainNext' \in Sockets BY <2>5 DEF SelectFails, ReceiveFails, TypeOK
    <3> QED BY <2>5, <3>1, ExitTable DEF SelectFails, ReceiveFails
  <2> QED BY <1>2, <2>2, <2>3, <2>4, <2>5 DEF RStep
<1>3. CASE \E fd \in Fds : Arrive(fd)
  <2>1. TypeOK' BY <1>3 DEF Arrive, TypeOK
  <2> QED BY <1>3, <2>1, SameDescriptors DEF Arrive
<1> QED BY <1>1, <1>2, <1>3

LEMMA TableInvariant == Spec => []TableInv
<1>1. Init => TableInv BY InitTable
<1>2. TableInv /\ [Next]_vars => TableInv'
  <2> SUFFICES ASSUME TableInv, [Next]_vars PROVE TableInv' OBVIOUS
  <2>1. CASE Next
    BY <2>1, UserTable, SignalTable, MainTable, HandlerTable, OtherThreadsTable DEF Next
  <2>2. CASE UNCHANGED vars
    <3>1. DescriptorsAreOwn' /\ HandlerInv'
      BY <2>2, SameDescriptors DEF vars, TableInv, tableVars, udpVars
    <3>2. TypeOK'
      BY <2>2 DEF vars, TableInv, TypeOK,
                  tableVars, udpVars, userVars, gcVars, recvVars, handlerVars
    <3> QED BY <3>1, <3>2 DEF TableInv
  <2> QED BY <2>1, <2>2
<1> QED BY <1>1, <1>2, PTL DEF Spec

(* The fields of the table and the threads' variables keep their types.    *)
THEOREM TableTypes == Spec => []TypeOK
<1>1. TableInv => TypeOK BY DEF TableInv
<1> QED BY <1>1, TableInvariant, PTL

(* Although k_socket gives one entry to two processes and leaves           *)
(* descriptors open, an entry in use never refers to a closed descriptor,  *)
(* nor to one of another entry in use (sockreset, main).  This is so until *)
(* the daemon ends, also between any two accesses of the signal handler    *)
(* when main runs it, of the entries it has still to clear.                *)
THEOREM OwnDescriptors == Spec => []DescriptorsAreOwn
<1>1. TableInv => DescriptorsAreOwn BY DEF TableInv
<1> QED BY <1>1, TableInvariant, PTL
=============================================================================
