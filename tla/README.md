# Verification of the Networks Lab programs

TLA+ models, TLC checks and TLAPS proofs for the C programs of this
repository: the KTP transport protocol of `Assignment 4 Final` (its transfer and
its socket table), the task queue of `Assignment 5`, the mail server of
`Assignment 6`, the CLDP client and server of `Assignment 7`, and the game
server of `LT1_SetB`.

## 1. Inventory

### Assignment 4 Final: KTP, reliable messages over UDP (the core)

`initksocket` is a daemon with four threads; user programs (`user1`, `user2`)
link `ksocket.c`, and all of them share one memory segment with a table of
`MAXSOCKETS` = 5 entries (`ktp_socket`, `ksocket.h:69`).  Each entry has a named
semaphore as its mutex.

| part | state | operations |
|---|---|---|
| library (`ksocket.c`) | none of its own | `k_socket`, `k_bind`, `k_sendto`, `k_recvfrom`, `k_close`, on the shared table |
| S thread (`initksocket.c:639`) | two transmission records per entry (time, head, tail) | every T/2 s: drop acknowledged records, move `swnd.tail` over new messages, transmit or retransmit |
| R thread (`initksocket.c:424`) | descriptor set, times of updates | `select`, receive one datagram per ready entry, handle DATA and ACK, window updates |
| GC thread (`initksocket.c:757`) | none | closes the entries of dead processes |
| main (`initksocket.c:814`) | none | creates and binds UDP sockets, resets closed entries, ends the daemon on any error |

They interact only through the table (under the mutex, with the exceptions
that the findings are about) and through UDP sockets that only the daemon
has.  Hard: the interleaving of library calls with four threads, loss,
duplication and reordering of datagrams, timeouts racing late ACKs, numbers
that wrap, processes killed at any point.  Correct means: what `k_sendto`
accepts comes out of the peer's `k_recvfrom` once, in order, in the end;
buffers, counters and windows agree; nothing is sent that the receiver has no
slot for; an entry has one owner and one UDP socket, and is given back.

### Assignment 5: task queue

`server.c` keeps a table of tasks (status, owner's process number) in System V
memory under one semaphore, and forks a handler for each client.  A handler is a
loop: receive without blocking, answer GET_TASK, RESULT or exit, give up after
`TIMEOUT_ATTEMPTS` passes in vain.  `client.c` and five test clients speak with
it.  Hard: handlers interleave between the two critical sections of
`get_next_task`; clients vanish, ask twice, leave with a task; a handler that ends
is a zombie until main reaps it, and its number can then be another's; several messages
may arrive in one `recv`.  Correct: a task has one owner, is completed once, by
a result for this task, and comes back when its owner is gone.

### Assignment 6: mail

`mysmtp_server.c` has a thread per connection with its own state (HELO, MAIL
FROM, RCPT TO, DATA) and mailbox files that all threads append to and read without
a lock.  `mysmtp_client.c` types lines.  Hard: the lines of a mail are a stream
that `recv` cuts and joins anywhere, so that its end can be missed or seen too early; a connection ends inside it; threads append at once;
the addresses of refused commands stay in the buffers; SIGPIPE ends all
sessions.  Correct: what is stored is what was typed, from and for addresses that
were accepted, as far as the cuts allow (section 6); stored mails can be listed and fetched; commands are answered.

### Assignment 7: CLDP

A server broadcasts HELLO every `INTERVAL` seconds and answers QUERYs
(`cldp_server.c`).  The client (`cldp_client.c`) has a list of servers under a
mutex and three threads: HELLOs update the list, the timeout thread removes nodes
of more than `SERVER_TIMEOUT` seconds, the query thread copies the list and asks
each server with a 16-bit transaction number.  Hard: the time of a HELLO is read
before the mutex is taken; packets are lost, late, repeated; servers leave the list
while the copy is asked; the numbers wrap.  Correct: a silent server
leaves the list in time, a steady one stays; an answer printed is one to this
round's QUERY.

### LT1, set B: the maximum game

`server.c` is one thread around `select` with an array of clients, one of their
numbers and a round counter.  When the last missing number comes it announces the
maximum and starts the next round.  Positions are never used again.  Hard:
clients join and leave in the middle of a round; several numbers come in one
`recv`; a number for the last round arrives in the next; the set that
`select` filled is used while the array changes.  Correct: a number counts in the round it
was typed for; what is announced is the largest of those numbers and was typed; a round that has all its numbers ends.

### The other programs

| program | state and operations | hard | properties that make it correct |
|---|---|---|---|
| Assignment 3 `doencfileserver.c`, `retrieveencfileclient.c` | key, file and ciphertext on one TCP stream, several files on one connection | data cut at arbitrary places, no lengths | the client gets its file, encrypted with its key; nothing of one file is left for the next; neither waits for ever |
| Assignment 2 `wordserver.c`, `wordclient.c` | one request and one answer over UDP at a time; the server ends after one file | loss, other clients, a server that is run again | who waits has at most one message under way; what is written is the file |
| LT1 set A | the same `select` loop, each message forwarded at once | none beyond set B | none |
| Assignment 4 Initial | first version of KTP | as above | superseded |
| LT2, Assignment 1, test drivers | exercises, packet captures | none | none |

## 2. Plan

Done:

1. KTP transfer (`KTPWindow`, `KTPConnection`, abstract `KTPStream`), its
   invariant, types, counters and refinement proved, and what holds past the lap.
2. KTP socket table (`KTPSocketTable`) with the signal handler; types and
   descriptors proved.
3. `TaskQueue` (Assignment 5) with the abstract `TaskBoard`; invariant and
   refinement proved.
4. `Smtp` and `Mailbox` (Assignment 6); invariant and all its safety properties proved.
5. `CldpMembers` with the abstract `FailureDetector`, and `CldpQuery` (Assignment
   7); invariants and the refinement proved.
6. `MaxRounds` (LT1, set B), invariant proved.

Left, in this order:

7. `KTPReuse`: close and reuse of an entry composed with the transfer: records
   of the S thread that outlive `sockreset`, late datagrams of the last
   connection, messages discarded by `k_close`.
8. `WordTransfer` (Assignment 2): one request and one answer at a time, with loss and a server that
   is run again.  `EncryptedTransfer` (Assignment 3): a stream that `recv` cuts
   anywhere, several files on one connection.
9. The chat server of LT1, if its loop is ever changed away from that of set B.

## 3. Modules

| module | what it is |
|---|---|
| `KTPWindow` | sequence numbers, windows, slots: the pure operators (`inwndw`, `wndwsize`, ...) and the assumption `MAXMESSAGE < SEQNUM` |
| `KTPConnection` | one direction of a connection: sender's and receiver's halves of two entries, S and R thread, network; the properties and the inductive invariant |
| `KTPStream` | abstract specification: a bounded channel that loses its first message |
| `KTPSocketTable` | the table: allocation, bind, close, main's loop, signal handler, collector, select loop, kills |
| `TaskQueue` | the shared task table, the handlers and their clients |
| `TaskBoard` | abstract specification: a board of tasks, one worker per task |
| `Mailbox` | a mailbox file as a sequence of pieces of lines: what `store_email` writes, what LIST and GET_MAIL find |
| `Smtp` | the sessions of the mail server, extends `Mailbox` |
| `CldpMembers` | server list, HELLOs, timeouts, in seconds |
| `FailureDetector` | abstract specification of the server list |
| `CldpQuery` | the rounds of the query thread and the servers that answer |
| `MaxRounds` | the game server's loop and its clients |
| `MCConnection`, `MCSocketTable`, `MCSmtp`, `MCMaxRounds` | instances for TLC |
| `KTPWindowProofs`, `KTPConnectionProofs`, `KTPSocketTableProofs`, `TaskQueueProofs`, `SmtpProofs`, `CldpMembersProofs`, `CldpQueryProofs`, `MaxRoundsProofs` | lemmas and theorems |

Definitions named `<name><Something>` that a comment calls a *mutant of*
`<name>` are plausible bugs: with one of them in place of `<name>`, TLC finds the
property violated that `PROJECT.json` pairs it with.  They are used nowhere else.

### KTPConnection and the code

A message is its number in the file (`user1.c` writes message 0, 1, 2, ...); a
slot holds a message, `Free` (`isempty` = 1), or `Zeros` (what `memset` leaves).
`sendBuf/sendIter/sendFilled`, `recvBuf/recvIter/recvFilled`, `swndHead/Tail/Size`,
`rwndHead/Tail`, `lastAcked`, `nospace` are the fields of `ktp_socket`, with
their wrapped values.  `rwnd.size` is never read by the code and left out.  `sent`
is the sequence of the `window_tails` of the S thread's records: `window_heads`
is written and never read, and the time of a record matters only as "T seconds
have passed", the parameter `elapsed` of `SThread`.  `accepted`, `acked`,
`sentUpTo`, `arrived`, `delivered` are history: unwrapped counts that no code
guard reads.

Every library call and every iteration of the S and R threads for one entry
runs under the entry's mutex, so each is one action.

| action | code |
|---|---|
| `k_sendto`, `k_recvfrom` | the calls that succeed; a call that fails (no space, no message) changes nothing and is a stuttering step |
| `SThread(elapsed)` | one cycle for the entry: `check_retransmission`, the loop over new messages (`Joining`), the choice of record, `transmit_segment` |
| `StoreInOrder`, `StoreOutOfOrder`, `DuplicateInWindow`, `RefuseOnZeroWindow`, `AckAgain`, `IgnoreData` | the branches of `handle_socket_data` for DATA (248-368) |
| `AckInside`, `AckOutside` | the branches for ACK (369-417); an ACK loop that never ends sets `hung` |
| `WindowUpdate` | `check_and_send_window_updates`, and the same code in `RThread` (492-539) |
| `DropData`, `DropAck` | `drop_message`, and loss in the network |

The network is a set of datagrams for each direction: a datagram may be lost, overtaken, and
with `MayDuplicate` received twice.  `n` in a datagram is history too.  Sending a
datagram that is under way already adds nothing to the set; with `MayDuplicate`
= TRUE copies are covered, with FALSE a retransmission of what is still under
way is merged with it.

*Packet lifetime.*  `DataIsFresh` and `AckIsFresh` say that a datagram does not
stay in the network while the connection moves on by a full turn of the sequence
numbers (256).  Eight-bit numbers need this in any protocol; the queue of a UDP
socket on a local network is far from holding one datagram that long.  It
constrains the environment only, and only the runs in which the sequence
numbers lap.

### KTPSocketTable and the code

The fields of an entry have their names.  `open`, `boundTo` and `pending` are the daemon's UDP descriptors,
the address of each, and whether it is readable.  An action is what one thread
does between taking and releasing a mutex, or one access it makes without one:
`k_socket` is `FindFree` (once per entry) and then `TakeEntry`, because the code
releases the mutex in between (`ksocket.c:134`); `k_bind` and `SetBound`, because
`is_bound` is set after the release (`ksocket.c:247`); `Probe` and `Collect`,
because the GC thread takes no mutex; `CopyFd` and then `SkipClosed`, `Receive`,
`Block` or `ReceiveFails`, because `handle_socket_data` reads `sockfd` before
`sem_wait`.  `ResetClosed`, `Serve`, `SkipFree` and `CannotServe` are the
iterations of main's loop.  What happens to the processes after the end of initksocket is not followed.  `Die` and `DieLocked` are the end of a process without
and with the mutex.  A recvfrom that blocks keeps its entry's mutex (`Held`).

*The signal handler* takes no mutex, so each of its accesses is an action: `LookAtEntry`, `KillOwner`,
`CloseDescriptor`, `FreeEntry`, `ForgetOwner`, `ForgetDescriptor` and `UnlinkMutex` for one
entry after the other, then `HandlerExits`; everything else goes on in between.  It begins while the thread
that runs it has no mutex (`Interrupt`) or has one (`InterruptLocked`), which it then never releases; main may
have been in the middle of a `sockreset`.  After `UnlinkMutex` those who open the mutex by its name
get a new one (`Mutex`: main and the library), while the R and the S thread go on with the old one
(`OldMutex`).  `Signalled` says which threads may run it: "main", or "other", which stands for the S thread.  SIGINT is sent to the process, and
Linux gives it to main as long as main does not block it; SIGSEGV goes to the thread that made the fault.
A second signal that interrupts the handler is not modelled.

`LoopsWait` is a bound of the run `socket_table`: with TRUE the signal comes only when the R and the GC thread begin
their loops, and both stand still from then on.  It leaves out how their loops interleave with the handler's steps;
main and the user processes still do as they like.  Without it, and with both threads, there are 15.2 million
states, too many for a run with a liveness property; the safety properties hold there too.  The theorems do not assume it.

The initial state is the one main leaves: shared memory starts as zeros, so each
initial `sockreset` closes descriptor 0 and the next `socket()` returns 0 again,
and all entries start with descriptor 0.

`FD_SET(-1)` in `RThread` (an entry in use that has no descriptor yet) is outside
what POSIX defines.  In the build of the makefile it sets a bit that lies above the descriptors
`select` is told to look at, and that select clears: the model leaves -1 out.
A closed descriptor in the set makes `select` fail and ends the daemon (`SelectFails`); a descriptor that
another thread closes while `select` waits is not reported.

### TaskQueue and the code

A handler and its connection are named by the handler's process number, an
element of `Pids`, which `Accept` may give again once `Reap` has removed the zombie.
`task_status` and `assigned_to` are the table, `client_task` and `cnt` the locals of
`handle_client`, `place` says where in GET_TASK the handler is.  The two critical
sections of `get_next_task` are the actions `reaasign_lost_tasks` (the code's
spelling) and `get_next_task` / `NoTaskAvailable`; the answer is a third step.
The other actions of `Handler` are passes through the loop.
`inbox` is the stream to the handler: `Receives` takes any number of messages in
one `recv` and looks at the first, as the code does.  `Sends` to a client that has gone
is lost, or kills the handler by SIGPIPE.

| action | code |
|---|---|
| `Accept`, `Reap` | main's loop, the SIGCHLD handler |
| `RefuseSecond`, `StartGetTask`, `HandleResult`, `HandleExit` | the branches on the command |
| `Disconnected`, `WaitInVain`, `GiveUp` | the branches on the result of `recv` |
| `Request` ... `GotReceipt` | `client.c` |
| `AskAgain`, `GotRefusal` | `repeat_client.c` |
| `Leave` | the SIGINT handler of the clients, the end of their loops, `terminate_b4_answer.c` |
| `Vanish` | a killed client, `idle_client.c`, `send_do_nothing.c` |

`Board`, the refinement mapping to `TaskBoard`, calls an assigned task "lost" when
no live handler has it as its task.

### Smtp, Mailbox and the code

A session is a client, its thread and the two directions of the connection.
`thread[s]` holds the locals of `handle_client` (`state`, `helo_domain`, `sender`,
`recipient`, `message`) and its place.  The `stream` is a sequence of units: a command, or a piece of a mail,
which is a text, a dot or the end of a line (CRLF).  `recv` returns any number of them, so a line may
be cut before or after each of its dots and its end, and several lines may come together.  Cuts inside a text, or inside CRLF,
give the same message and the same answer to `strcmp` as none, since neither part is `".\r\n"`: they need no
unit of their own.  A command is one unit: the client sends it with one short `send` on a connection
on which nothing else is under way, and it arrives whole.
In the command loop the buffer is compared from its start and the rest is lost
(`Receives`); in DATA what came is appended (`MoreOfMail`), and only a buffer
that is exactly a dot and CRLF ends the mail (`EndOfMail`), whether it is the line that the client meant for
its end or the rest of a line that was cut before a dot at its end.  `MailFrom`, `RcptTo` keep a refused
address, as `sscanf` does.  `Sends` to a client that has gone is lost or ends the server; `Kill` is the user who stops it.
An address is a user and a domain; `Dotted` are the domains with a dot.

A mailbox is the sequence of pieces in the file, with the empty line that `fprintf` leaves between a message that
ends its last line and the dot (`Whole`).  `store_email` writes a mail of up to
`Flush` pieces at once; a longer one is flushed by stdio in the middle of
a line, and `StoreRest` writes the rest: in between other threads may append or read.
(The files are opened in append mode, so each write is whole and at the end.)
`Headers` and `MailAt` are GET_MAIL's scan, `Listed` LIST's, which takes the line
after a header for its date.  `stored` and `draft` are history: what was given to
`store_email`, and what the client typed; `out_of_step` says that a mail of the
session ended before the thread had it all (`Receipt`): it was too long, or its end was a false one.

### CldpMembers, CldpQuery and the code

In `CldpMembers` a node is its address and its age, the seconds since `last_hello`;
`Tick` is a second.  `heard` is the HELLO thread between its `time()` (`cldp_client.c:291`)
and the mutex: the age of what it holds grows while it waits, so `Update` may stamp
a node with an old time.  `Late` bounds in seconds how long a packet is under way
and how long a thread that could run is kept waiting; `Tick` does not happen when it would break this.
A `malloc` that fails in the HELLO thread is a HELLO that was lost.  `downFor`
and `calm` are history.

In `CldpQuery` time is left out but for the rounds.  The window in which the thread
receives comes before the next round's copy of the list, so it waits for answers to the QUERYs it
sent before it slept; `Receive` compares the transaction number only.  `ListChanges`
is what the other two threads may do to the list.  The age of a packet is the number of
rounds since the QUERY it belongs to; `Lifetime` < `Tids` says that none is 2^16 rounds old.

### MaxRounds and the code

`clients`, `numbers`, `round_number` are the arrays and the counter of `server.c`, with positions
from 1 and `Closed` for the 0 of a closed socket; `ready` is what is left of `read_fds` in
this pass.  `Select` fills it, `Accept` is `handle_new_connection`, and
`Disconnect`, `Duplicate`, `Collect`, `Announce` are the ways through
`process_client_message` for the least position that is ready (`Reaches`).  `Receives` takes one or
more lines of the `outbox` at once, of which `atoi` reads the first.  `Killed` is SIGPIPE
in one of the `send`s.  `MaxClient` is `Nobody` where `max_index` is still -1 (the code
then reads `clients[-1]`) or the socket is closed (`getpeername` fails).

`Patient` clients type one number for each round they are asked for; the others type at any
time, so that their numbers come twice, together and late.  `typed`, `said` (all that another client ever typed) and
`joined` are history.
`asked` is the last round a client was asked for; the prompts under way are not modelled, so a
patient client may answer at once or any time later.

## 4. Runs

Every property has a mutant, listed in `PROJECT.json`.  The runs of KTP set
`CHECK_DEADLOCK FALSE`: a connection stops when the file is read, and a table when
its processes have ended and the daemon has exited.  So does `max_rounds`: users stop
typing after `MaxRound`, or all have left.  The others check that they never stop.
In `task_queue`, `smtp`, `cldp_members`, `cldp_query` and `max_rounds` the type invariant
`TypeOK` is the first part of `IInv`.

| run | instance | states | shows |
|---|---|---|---|
| `connection` | 8 sequence numbers, 3 slots, 4 messages, duplicates | 120 thousand | types, order, counters, records, flow control, the window that never closes, the ACK loop ends, the edge of the window is never taken back, and the inductive invariant `IInv` |
| `connection_wrap` | 4 numbers, 2 slots, 4 messages, duplicates, fair | 21 thousand | the same invariant across the wrap, the refinement of `KTPStream`, and that transmitted messages arrive |
| `connection_lap` | 4 numbers, 3 slots, 4 messages | 614 thousand | past the lap where 3 does not divide 4, as 10 does not divide 256: what holds there of both ends (`LapInv`, inductive too), records, closed windows with `nospace` and updates |
| `stall`, `lap_order` | small | | violations, see section 6 |
| `socket_table` | 2 entries, 2 processes, 1 address, 3 descriptors, the signal handler in main, fair | 543 thousand | types, one UDP socket per entry in use until the handler has closed it, entries of dead processes come back |
| `two_users` | small | | violation, see section 6 |
| `task_queue` | 2 tasks, 2 process numbers, 2 attempts, fair | 451 thousand | `IInv` with the types, owners, results, the refinement of `TaskBoard`, lost tasks come back |
| `smtp` | 1 session, all commands, lines with a dot at their end, messages of up to 4 pieces, a server that is stopped and started again, 2 mails, fair | 649 thousand | `IInv` with the types, whose turn it is and how the files are laid out, accepted senders, what is stored is what was typed, short mails can be listed and fetched, commands are answered |
| `cldp_members` | 1 server, the intervals of the code (5, 20, 5), `Late` = 3, fair | 225 thousand | the failure detector |
| `cldp_query` | 2 servers, 2 transaction numbers, packets that outlive a round | 87 thousand | answers belong to their round |
| `max_rounds` | 3 clients, 2 of them patient, 2 positions, 2 rounds, numbers -2 and 1, fair | 767 thousand | `IInv` with the types, numbers count in their round, what is announced is the largest and was typed, rounds end |

*Bounds.*  `FileLength`, `MAXMESSAGE` and `SEQNUM` are the only bounds of the
transfer; no action has another one.  A file longer than the buffer makes the
sender wait and slots be reused; 4 messages with 3 slots do both, 4 with 4
sequence numbers also wrap `swnd.tail` and both ends of `rwnd`.  The theorems of section 5 are for all sizes.
Two processes and two entries are the smallest with two allocations at once and
an entry taken over from a dead owner; a process may die at any place, and its
entry is taken by the other.  Three descriptors are one for 0, which stays open, and one for each entry: both entries in use
have a UDP socket, and a number that one of them gives back is given to the other.  That `socket()` has no number left
(the first case of `CannotServe`) does not happen in this instance: with two descriptors it does, and then no two entries
ever have one each.  The proof is for any `FdLimit`.  Two handlers and two tasks give every pair of handlers in
`get_next_task`, a task lost and given again, and a number given again to a
new handler.  In `smtp` the lines typed have text and a dot at their end, three pieces with their end of line,
so that a cut before the dot ends the mail falsely.  `MaxPieces` = 4 allows one such line in a mail: its 3 pieces fit into the message with
`Capacity` = 4, the 5 of the line and the end together do not, so that a mail is cut when they come in other pieces than
these two; `Flush` = 10 are the pieces of the header,
the end and 3 more, so that one of 4 is written in two pieces.  A second mail of the
session meets what the first left in its locals.  With a second kind of line, which begins with a dot, there are 1.04 million
states, and all properties hold too.
There is one session at a time: what it meets of other sessions is what they
left in the mailbox, and nothing comes between the two writes of a long mail; the proof is for any number of sessions at once.  `cldp_members` has one server because nodes do not affect each other: `Update` and
`TimeoutCheck` look at one at a time.  Its safety properties are proved for any number.

In `max_rounds` three clients for two positions let one be rejected or wait for a position that never comes;
the third types when it likes.  `MaxUnread` = 2 lets two numbers come together, and
`MaxRound` = 2 lets a late number meet the next round.  The proof is for any numbers of clients,
positions and rounds.

*Fairness.*  `FairSpec` of the connection: the S thread's loop and the reader's
loop go on (weak fairness of `SThread(TRUE)`, that is, T seconds pass, and of
`k_recvfrom`), and a DATA packet that is sent again and again is in the end
handled and not dropped (strong fairness per message: the drop probability is
below 1).  `FullyFairSpec` adds the writer, the window updates and the ACKs; the
stall happens even then.  `FairSpec` of the table: main's and the collector's
loops never end; user processes and the network owe nothing.  Of the task queue:
handlers go on with their loops and main gets SIGCHLD; clients owe nothing, so
`LostTasksComeBack` assumes that clients keep asking.  Of the mail server: its
threads run; clients owe nothing.  Of CLDP: time passes, and threads
that can run do, as `Late` says anyway; a HELLO that stays in the air is
received or lost.  Of the game: its server's loop goes on; `RoundsEnd` is about rounds for which all
numbers were typed.  It is checked with numbers other than -1, which the code takes for none; -2 is less
than all that the loop for the maximum starts from, 1 is greater.

## 5. Proofs

For every `SEQNUM`, `MAXMESSAGE` < `SEQNUM` and `FileLength`, with duplicates or not,
`KTPConnectionProofs` proves without any further assumption:

- `LapInvariantHolds`: the inductive invariant `LapInv`;
- `Recorded`: the S thread has a record that covers the end of the window
  (`OutstandingIsRecorded`), so that nothing is left that is never sent again;
- `ClosedIsRemembered`: a receive window that closes is remembered (`ClosedWindowIsRemembered`);

and under the one assumption `SlotsAgree`:

- `InvariantHolds`, `EdgesHold`: the inductive invariants `Inv` and `IInv`;
- `Ordered`, `FreedArrived`, `FlowControlled`, `AckLoopTerminates`,
  `WindowStaysOpen`, `EdgeNeverRetracts`: the other properties of the run `connection`;
- `Implementation`: the protocol implements `KTPStream`.

`SlotsAgree` says that the slot computed from a sequence number is the one that
`iter` reaches for the same message.  `ShortFilesAgree` proves it for files of
fewer than `SEQNUM` messages, `DividingSizesAgree` for sizes where `MAXMESSAGE`
divides `SEQNUM`.  With 10 and 256 and a longer file it is false, and run
`lap_order` shows what then happens.

*The argument.*  The properties are not inductive: that a packet is stored in
the right slot depends on where both windows stand.  `PositionsInv` ties each
wrapped number to an unwrapped count, `OrderInv` orders the counts
(`acked <= arrived < sentUpTo <= Read + MAXMESSAGE`), so all numbers that are ever
compared lie within less than one turn; `SendBufInv` and `RecvBufInv` say which messages
the buffers hold and in which slots; `RecordsInv` what the S thread's records
cover; `NetInv` that a datagram carries its own message and an ACK is behind the
receiver.  `EdgeInv` adds that ACKs for later positions have later edges, from
which the right edge of the window never moves back.  The lemmas of
`KTPWindowProofs` turn `inwndw` and `wndwsize` of wrapped numbers into plain
comparisons and differences; one lemma per action then shows that it preserves the invariant.

`TypesHold` and `FilledCounted` follow from the same invariant.  For the send buffer it
names the filled slots, which are those of the messages `acked` to `accepted - 1`, and
different messages have different slots (`SendCounted`).

*Past the lap* nothing can be said of which message a slot holds, and `LapInv` does not.  It keeps what does not
depend on it: the S thread has at most two records, and the last is where `swnd.tail` is (`LapSender`);
the receive window reaches from `arrived` to `MAXMESSAGE` after what was read, its counter is the number of
filled slots, as a step fills or frees at most one slot (`OneSlot`), and the window is closed only with
`nospace` set (`LapReceiver`).  The step that needs it most is a message in order, which moves `rwnd.head`
over what was stored before: `Advance` stops at the end of the window, so
`arrived` cannot pass it whatever the slots hold (`LapAdvance`).  `ClosedWindowIsRemembered` is not inductive:
it says nothing while the window is open, and the window closes by a step that has to know how far it reaches.

`KTPSocketTableProofs` proves `TableTypes` and `OwnDescriptors` for every number of
entries, processes and descriptors, with and without the bound `LoopsWait`.  In the initial state entries
that are not in use share descriptor 0: an entry gets into use only through a reset that takes its descriptor
away.  Nothing closes 0 while the handler is not at work, so `socket()` does not return it (`HandlerInv`).  When main runs the
handler nothing calls `socket()` any more, and nothing takes the numbers that it closes: the entries still to be
cleared (`~Cleared`) keep their own.  An entry that a process takes again behind the handler gets no descriptor.  Of the
handler in another thread the property claims nothing.

`TaskQueueProofs` proves for any tasks, process numbers and attempts the
invariant `IInv`, and from it `HoldersOwn`, `ResultsFit` and `BoardImplemented`.
That the handler's `client_task` and the table agree is not inductive alone:
a RESULT could arrive at a handler that has meanwhile got another task.
`Converses` says that the client and its handler are in step: at most one
command or one answer is between them, and a client that has left can have
left one command and its exit behind.  That tasks of live handlers are not taken back
follows because `kill(pid, 0)` finds a live process.

`SmtpProofs` proves for any sessions, addresses, commands and lines `Invariant`,
`TypeCorrect`, `SendersAccepted`, `MailsAsTyped` and `MailsFetched`.  `IInv` has four parts:

- `DialogueInv`: what a thread knows in each state (`Consistent`), although refused addresses
  overwrite the buffers;
- `StepInv`: while no mail of the session ended before the thread had it all, the client and its thread are in step: at most one command
  or one answer is under way, and in DATA what the thread has and what is under way are
  what was typed (`InData`).  It includes the mail that a false end cuts short: what the thread has of it is a start of what was typed (`InStore`).  Only with this can a `recv` that takes any part of
  the stream be shown to add a piece of this mail and of no other;
- `HalfwayInv`: a thread between the two writes of a long mail has left a mailbox that
  holds more than short mails;
- `FilesInv`: a mailbox of short plain mails is these mails one after the other (`Laid`), each starting with the next
  header.  A thread appends its mail with one write wherever other threads are, and the second write of a
  long mail never meets such a mailbox (`HalfwayInv`).

That LIST and GET_MAIL find the i-th mail of such a file (`PlainFetched`) is a fact about sequences: the
i-th header is where the i-th mail starts, and the first line after it that begins with a dot is where it ends.  The
assumptions beyond types are that texts are neither dots nor ends of lines, and that no line typed in a mail is a lone dot, which
`mysmtp_client.c:113` takes for the end.

`CldpMembersProofs` proves for any servers, intervals and delays `Invariant`,
`TypeCorrect`, `DeadServersLeaveInTime` and `DetectorImplemented`, and where
`SERVER_TIMEOUT` is at least `INTERVAL + 3 * Late` also `SteadyStay`.  `IInv` relates ages to
the time a server has been down: a packet under way is as old as its server
can have been down, what the HELLO thread holds up to `Late` more, and no node is older than
`SERVER_TIMEOUT` plus the time since the last check.  `SteadyStay` needs `SteadyInv`:
the node of a steady server may be replaced only after a long wait for the mutex, so it
says (`EachInv`), for every moment in the past, that of the HELLOs sent in the
`INTERVAL + Late` seconds before it one is in the list, with the thread or under way; and
`WaitInv` keeps the conclusion while the thread holds the next HELLO.

`CldpQueryProofs` proves that a transaction number stands for the age of its
packet (`TidBefore`), as `Lifetime` < `Tids`, and from that
`AnswersMatch`.

`MaxRoundsProofs` proves `NumbersRight`, `LargestRight` and `NeverAllThere` for any clients,
numbers and sizes of the table, from `IInv`.  `NumbersAreOfTheirRound` is not inductive: that the
next line of a client is for this round depends on what is in its outbox.  `InPlace` says
that the number of a connected patient client is either counted, with nothing but the end of the connection
behind it, or the only thing in the outbox; `OnePlace` that a client has one position;
`LeaversInPlace` that some position still counts the number of a client that has left, so that the
maximum is right for it too (`NobodyIsLeftOut`); and `CountedWereTyped` that every number counted was typed by
a client that had joined, which is still at its position or has left it, so that what is announced was typed and the client named
typed it (`LargestRight`).  Only the start value -1 is announced of nobody.  The maximum and its first position exist because
a finite set of integers has one (`LeastNumber`, from the well-foundedness of the natural
numbers in the library).

*Only model-checked*: every safety property of a passing run is also proved, those of the transfer that are
about slots where `SlotsAgree`.  The liveness properties `TransmittedIsDelivered`,
`DeadOwnersAreCollected`, `LostTasksComeBack`, `CommandsAreAnswered`, `DeadServersLeave` and `RoundsEnd` stay
with TLC: they rest on fairness, and so on `ENABLED`, which is beyond the prover.

## 6. What the code does not keep

By runs that show a counterexample:

| run | source | what happens |
|---|---|---|
| `stall` | `initksocket.c:372-390` | a window used up by a message that has already arrived never opens again |
| `lap_order` | `initksocket.c:258` | 256 % 10 # 0: slots of the threads and of the library disagree from message 256 on; the ACK loop (393) can then spin for ever with the mutex, in an instance with 3 numbers, 2 slots and 5 messages; and `k_sendto` can write over a message that is not yet acknowledged, in one with 5 numbers, 3 slots and 9 messages, after which `swnd`'s counter is more than the slots in use (`FilledCountsSlots` is claimed only where `SlotsAgree`) |
| `two_users` | `ksocket.c:134` | two `k_socket` calls return the same entry |

The models contain these too, as ordinary steps:

- `initksocket.c:81`, `564`: the header carries 0, 1, ... and its reader takes
  one off.  Message 0 is taken for an old one and acknowledged, never delivered;
  `KTPStream` says so, and while it is so the receive window never closes
  (`WindowNeverCloses`, proved): `nospace`, the zero-window ACKs and the window updates
  are not used before the first lap.
- `initksocket.c:901`: a bind that fails after `k_bind` returned 0 ends the
  daemon (`BindFails`).
- `initksocket.c:168`: recvfrom at a descriptor of the entry's last owner fails
  and ends the daemon, or blocks with the mutex (`ReceiveFails`, `Block`).
- `initksocket.c:769`: the collector can close the entry of a living process that took
  it after the collector looked at its owner (`Probe`, `Collect`).
- A process killed inside a library call keeps the mutex, and main waits for it for
  ever (`DieLocked`, `lost`): `DeadOwnersAreCollected` has to make an exception of it.
- `server.c:81` (Assignment 5): a task of a dead handler stays with its number when a new
  handler gets the same number; `LostTasksComeBack` has to make an exception of it.
- `initksocket.c:930`: the signal handler works without the mutexes.  In main it keeps main from everything else, and
  `DescriptorsAreOwn` holds until the end; in another thread (a SIGSEGV of the S thread) main may call `socket()`
  between the close of a descriptor (936) and the reset of its entry (939), and get its number for another entry:
  with `Signalled` = {"other"} the property is violated when it is claimed of this handler too.
  An entry that a process takes again behind the handler may be left with descriptor 0 and no owner (937-939), and its mutex has
  lost its name, so that the library and the R and S threads no longer exclude each other (941).
- `mysmtp_server.c:280`: the dot that ends a mail is missed when it arrives together
  with the line before it, or cut from its CRLF, although "The message ends with a single dot (.) on a
  new line" (the assignment's PDF): the dot becomes part of the mail, the server waits for more lines
  and the client for its receipt.
- `mysmtp_server.c:280`, too: when a line that ends with a dot is cut before this dot, what is left of it is taken for
  the end of the mail.  The rest that the client types is read as commands, and later mails of the session need
  not be what was typed (`out_of_step`).
- `mysmtp_client.c:71`: an empty line sends nothing, and the client waits for the answer.
- `mysmtp_server.c:283`: the rest of a mail that is too long is read as commands
  (`out_of_step`).
- `mysmtp_server.c:85`: an empty line comes after every mail that ends with CRLF; mails over 4096 bytes are written in pieces that other
  mails can get between, and a line that begins with a dot, or with "From:", ends
  or starts a mail for GET_MAIL: `ShortMailsCanBeFetched` is about the others.

- `server.c:63` (LT1, set B): the position of a client that left is counted for ever: if its number was
  missing, no round ends any more (`RoundsEnd` has to make an exception of it); and -1 as a
  number counts as none.
- `server.c:20` (LT1, set B): `send` to a client that has gone can end the server (`Killed`).
- `server.c:86` (LT1, set B): the search for the maximum starts at -1, so with numbers below -1 only, -1
  is announced, from the address of `clients[-1]` (`MaxNumber`, `MaxClient`); the problem statement wants
  the largest number.
- `server.c:97` (LT1, set B): a client that is alone ends rounds by itself (`Announce`), where the problem
  statement drops its number.

In the compiled KTP the output of `user2` lacks the first 512 bytes; with a slow
reader the transfer stops after nine messages; with a longer file the contents are
wrong from message 256 on.  A killed sender that is started again at once ends the
daemon with "error in bind".

## 7. Not modelled

*KTP*: message contents, checks of the caller's arguments (socket type, message length,
destination address), the packet's source address (both ends are fixed), logging,
`shmget`/`sem_open` failures; the S thread's records across a reset, zero-length
datagrams, reuse of process numbers, the moment between `in_use` and `pid` in an entry that `k_socket` takes (the handler would send its
SIGINT to `kill`'s process 0, which is its own group), a second signal, and the processes that go on after the end
of initksocket; files and the end-of-file mark of `user1` and `user2`.

*Task queue*: the text of tasks and results; a command split between two `recv`s; the "Unknown
command" branch, as no client sends one; a second server on the same memory;
`master_client.c`, which repeats the other clients; a dead handler's number that is given to a process outside of the
system, for which `kill(pid, 0)` succeeds too (a new handler with the number, `Accept`, stands for it).

*Mail*: dates and addresses as text; buffers filled to the last byte (`recv` of 4096
bytes writes one past the buffer); LIST and GET_MAIL without an address, which
read an uninitialised buffer; lines and answers longer than the buffers of `fgets`, LIST and GET_MAIL; failures of `fopen` and `malloc`; answers longer than one `recv`.

*CLDP*: packet layout, checksums and the system information in the payload, whose
length is stored in one byte; two clients on one host, which get each other's
RESPONSEs; leap seconds and a clock that is set.

*Maximum game*: a number split between two `recv`s; the buffer of exactly `BUFFER_SIZE` bytes, which
writes one past the end; which bytes an address that `getpeername` did not fill has; failures of `accept`.

*Not at all*: `Assignment 4 Initial` (superseded), the file transfers of Assignments 2 and 3 (one
client and one server that take turns and share nothing with others; in the plan), the chat server of LT1 set A (the loop of set B
without rounds), LT2, Assignment 1 and the test drivers.
