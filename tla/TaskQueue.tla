----------------------------- MODULE TaskQueue -----------------------------
(* The task queue server and its clients (Assignment 5).  main forks one   *)
(* handler per connection; the handlers share the task table, in System V  *)
(* memory, and one semaphore.  A handler and its connection are named by   *)
(* the handler's process number, which the kernel may give to another one  *)
(* once the process is reaped.                                             *)
(*                                                                         *)
(* An action of a handler is a pass through its loop, or the critical      *)
(* section that the pass consists of.  A task's text and its result are    *)
(* left out; a message names the task it is about.                         *)
EXTENDS Integers, Sequences

CONSTANTS
    num_tasks,         \* how many tasks the file has
    Pids,              \* the process numbers the kernel gives to handlers
    TIMEOUT_ATTEMPTS   \* passes without a message before a handler gives up (5)

ASSUME QueueAssumption ==
    /\ num_tasks \in Nat
    /\ TIMEOUT_ATTEMPTS \in Nat \ {0}
    /\ Pids \cap {"none", "free", "lost", "done"} = {}

VARIABLES
    task_status, assigned_to,   \* the shared table: 0 available, 1 assigned, 2 completed
    proc,                       \* handler processes: "none", "live", or "zombie"
    place, client_task, cnt,    \* where a handler is, its task, its passes in vain
    inbox, reply,               \* the connection: messages to the handler, its answer
    cpc, ctask                  \* the client: where it is, and the task it got

tableVars == <<task_status, assigned_to>>
handlerVars == <<proc, place, client_task, cnt>>
clientVars == <<cpc, ctask>>
vars == <<tableVars, handlerVars, inbox, reply, clientVars>>

Tasks == 0 .. (num_tasks - 1)
NoTask == -1
NoPid == "none"

Command(text, t) == [text |-> text, task |-> t]
Commands == [text : {"GET_TASK", "RESULT", "exit"}, task : Tasks \cup {NoTask}]
Replies == [text : {"Task: ", "No tasks available", "Complete your current task first",
                    "Result received", ""}, task : Tasks \cup {NoTask}]
NoReply == Command("", NoTask)

\* load_tasks, before the first client.
Init ==
    /\ task_status = [t \in Tasks |-> 0]
    /\ assigned_to = [t \in Tasks |-> NoPid]
    /\ proc = [p \in Pids |-> "none"]
    /\ place = [p \in Pids |-> "loop"]
    /\ client_task = [p \in Pids |-> NoTask]
    /\ cnt = [p \in Pids |-> 0]
    /\ inbox = [p \in Pids |-> <<>>]
    /\ reply = [p \in Pids |-> NoReply]
    /\ cpc = [p \in Pids |-> "gone"]
    /\ ctask = [p \in Pids |-> NoTask]

-----------------------------------------------------------------------------
(* main.                                                                   *)

\* A client connects, and main forks a handler for it.
Accept(p) ==
    /\ proc[p] = "none"
    /\ proc' = [proc EXCEPT ![p] = "live"]
    /\ place' = [place EXCEPT ![p] = "loop"]
    /\ client_task' = [client_task EXCEPT ![p] = NoTask]
    /\ cnt' = [cnt EXCEPT ![p] = 0]
    /\ inbox' = [inbox EXCEPT ![p] = <<>>]
    /\ reply' = [reply EXCEPT ![p] = NoReply]
    /\ cpc' = [cpc EXCEPT ![p] = "idle"]
    /\ ctask' = [ctask EXCEPT ![p] = NoTask]
    /\ UNCHANGED tableVars

\* The SIGCHLD handler waits for every child that has ended.
Reap ==
    /\ \E p \in Pids : proc[p] = "zombie"
    /\ proc' = [p \in Pids |-> IF proc[p] = "zombie" THEN "none" ELSE proc[p]]
    /\ UNCHANGED <<tableVars, place, client_task, cnt, inbox, reply, clientVars>>

-----------------------------------------------------------------------------
(* A handler.                                                              *)

At(p, here) == proc[p] = "live" /\ place[p] = here

\* recv returns a command together with all that has come after it, and only
\* the first line of the buffer is looked at.
Receives(p, text) ==
    /\ At(p, "loop")
    /\ inbox[p] # <<>> /\ Head(inbox[p]).text = text
    /\ \E n \in 1 .. Len(inbox[p]) :
         inbox' = [inbox EXCEPT ![p] = SubSeq(@, n + 1, Len(@))]
    /\ cnt' = [cnt EXCEPT ![p] = 0]

\* send_message.  A client that has gone does not get it, and the handler may
\* be killed by SIGPIPE.
Sends(p, answer) ==
    \/ /\ cpc[p] # "gone"
       /\ reply' = [reply EXCEPT ![p] = answer]
       /\ UNCHANGED proc
    \/ /\ cpc[p] = "gone"
       /\ proc' \in {proc, [proc EXCEPT ![p] = "zombie"]}
       /\ UNCHANGED reply

RefuseSecond(p) ==
    /\ Receives(p, "GET_TASK")
    /\ client_task[p] # NoTask
    /\ Sends(p, Command("Complete your current task first", NoTask))
    /\ UNCHANGED <<tableVars, place, client_task, clientVars>>

\* Mutant of StartGetTask: also for a client that has a task.
StartGetTaskAnyway(p) ==
    /\ Receives(p, "GET_TASK")
    /\ place' = [place EXCEPT ![p] = "reassign"]
    /\ UNCHANGED <<tableVars, proc, client_task, reply, clientVars>>

StartGetTask(p) ==
    /\ Receives(p, "GET_TASK")
    /\ client_task[p] = NoTask
    /\ place' = [place EXCEPT ![p] = "reassign"]
    /\ UNCHANGED <<tableVars, proc, client_task, reply, clientVars>>

\* kill(pid, 0) fails with ESRCH: a zombie still has its number.
DoesNotExist(p) == p \in Pids /\ proc[p] = "none"

\* Mutant of LostTasks: nobody asks whether the owner exists.
LostTasksAll == {t \in Tasks : task_status[t] = 1}

LostTasks == {t \in Tasks : task_status[t] = 1 /\ DoesNotExist(assigned_to[t])}

\* Mutant of reaasign_lost_tasks: the loop finds the lost tasks and leaves them.
reaasign_lost_tasksNot(p) ==
    /\ At(p, "reassign")
    /\ place' = [place EXCEPT ![p] = "take"]
    /\ UNCHANGED <<tableVars, proc, client_task, cnt, inbox, reply, clientVars>>

\* The first critical section of get_next_task.
reaasign_lost_tasks(p) ==
    /\ At(p, "reassign")
    /\ task_status' = [t \in Tasks |-> IF t \in LostTasks THEN 0 ELSE task_status[t]]
    /\ assigned_to' = [t \in Tasks |-> IF t \in LostTasks THEN NoPid ELSE assigned_to[t]]
    /\ place' = [place EXCEPT ![p] = "take"]
    /\ UNCHANGED <<proc, client_task, cnt, inbox, reply, clientVars>>

FirstAvailable(t) == task_status[t] = 0 /\ \A u \in Tasks : u < t => task_status[u] # 0

\* Mutant of get_next_task: a task that is assigned is given once more.
get_next_taskTaken(p, t) ==
    /\ At(p, "take")
    /\ task_status[t] # 2
    /\ task_status' = [task_status EXCEPT ![t] = 1]
    /\ assigned_to' = [assigned_to EXCEPT ![t] = p]
    /\ client_task' = [client_task EXCEPT ![p] = t]
    /\ place' = [place EXCEPT ![p] = "answer"]
    /\ UNCHANGED <<proc, cnt, inbox, reply, clientVars>>

\* The second one: the first task that is available.
get_next_task(p, t) ==
    /\ At(p, "take")
    /\ FirstAvailable(t)
    /\ task_status' = [task_status EXCEPT ![t] = 1]
    /\ assigned_to' = [assigned_to EXCEPT ![t] = p]
    /\ client_task' = [client_task EXCEPT ![p] = t]
    /\ place' = [place EXCEPT ![p] = "answer"]
    /\ UNCHANGED <<proc, cnt, inbox, reply, clientVars>>

NoTaskAvailable(p) ==
    /\ At(p, "take")
    /\ \A t \in Tasks : task_status[t] # 0
    /\ place' = [place EXCEPT ![p] = "answer"]
    /\ UNCHANGED <<tableVars, proc, client_task, cnt, inbox, reply, clientVars>>

AnswerGetTask(p) ==
    /\ At(p, "answer")
    /\ place' = [place EXCEPT ![p] = "loop"]
    /\ Sends(p, IF client_task[p] = NoTask THEN Command("No tasks available", NoTask)
                ELSE Command("Task: ", client_task[p]))
    /\ UNCHANGED <<tableVars, client_task, cnt, inbox, clientVars>>

\* A result completes the handler's task, if it has one.
HandleResult(p) ==
    /\ Receives(p, "RESULT")
    /\ task_status' = IF client_task[p] = NoTask THEN task_status
                      ELSE [task_status EXCEPT ![client_task[p]] = 2]
    /\ client_task' = [client_task EXCEPT ![p] = NoTask]
    /\ Sends(p, Command("Result received", NoTask))
    /\ UNCHANGED <<assigned_to, place, clientVars>>

\* The end of a handler.  The table still says what it said.
Exits(p) ==
    /\ proc' = [proc EXCEPT ![p] = "zombie"]
    /\ UNCHANGED <<tableVars, place, client_task, reply, clientVars>>

HandleExit(p) == Receives(p, "exit") /\ Exits(p)

\* recv returns 0, or fails, after the client closed its side.
Disconnected(p) ==
    /\ At(p, "loop")
    /\ cpc[p] = "gone"
    /\ Exits(p)
    /\ UNCHANGED <<cnt, inbox>>

\* Nothing has come (yet): EAGAIN.
WaitInVain(p) ==
    /\ At(p, "loop")
    /\ cnt[p] + 1 < TIMEOUT_ATTEMPTS
    /\ cnt' = [cnt EXCEPT ![p] = cnt[p] + 1]
    /\ UNCHANGED <<tableVars, proc, place, client_task, inbox, reply, clientVars>>

GiveUp(p) ==
    /\ At(p, "loop")
    /\ cnt[p] + 1 >= TIMEOUT_ATTEMPTS
    /\ Exits(p)
    /\ UNCHANGED <<cnt, inbox>>

Handler(p) ==
    \/ RefuseSecond(p) \/ StartGetTask(p) \/ reaasign_lost_tasks(p)
    \/ (\E t \in Tasks : get_next_task(p, t)) \/ NoTaskAvailable(p)
    \/ AnswerGetTask(p) \/ HandleResult(p) \/ HandleExit(p) \/ Disconnected(p)
    \/ WaitInVain(p) \/ GiveUp(p)

-----------------------------------------------------------------------------
(* The client of a handler.  Once its handler has ended, whatever it does  *)
(* reaches nobody, and it is not followed any more.                        *)

ClientAt(p, here) == proc[p] = "live" /\ cpc[p] = here

Tells(p, command) == inbox' = [inbox EXCEPT ![p] = Append(@, command)]

Request(p) ==
    /\ ClientAt(p, "idle")
    /\ Tells(p, Command("GET_TASK", NoTask))
    /\ cpc' = [cpc EXCEPT ![p] = "waits for a task"]
    /\ UNCHANGED <<tableVars, handlerVars, reply, ctask>>

GetsReply(p, here, text) ==
    /\ ClientAt(p, here)
    /\ reply[p].text = text
    /\ reply' = [reply EXCEPT ![p] = NoReply]
    /\ UNCHANGED <<tableVars, handlerVars>>

GotTask(p) ==
    /\ GetsReply(p, "waits for a task", "Task: ")
    /\ ctask' = [ctask EXCEPT ![p] = reply[p].task]
    /\ cpc' = [cpc EXCEPT ![p] = "works"]
    /\ UNCHANGED inbox

\* A client that is told there is no task leaves.
GotNoTask(p) ==
    /\ GetsReply(p, "waits for a task", "No tasks available")
    /\ Tells(p, Command("exit", NoTask))
    /\ cpc' = [cpc EXCEPT ![p] = "gone"]
    /\ UNCHANGED ctask

SendResult(p) ==
    /\ ClientAt(p, "works")
    /\ Tells(p, Command("RESULT", ctask[p]))
    /\ cpc' = [cpc EXCEPT ![p] = "waits for receipt"]
    /\ UNCHANGED <<tableVars, handlerVars, reply, ctask>>

GotReceipt(p) ==
    /\ GetsReply(p, "waits for receipt", "Result received")
    /\ cpc' = [cpc EXCEPT ![p] = "idle"]
    /\ UNCHANGED <<inbox, ctask>>

\* repeat_client asks for another task before it sends the result.
AskAgain(p) ==
    /\ ClientAt(p, "works")
    /\ Tells(p, Command("GET_TASK", NoTask))
    /\ cpc' = [cpc EXCEPT ![p] = "waits for refusal"]
    /\ UNCHANGED <<tableVars, handlerVars, reply, ctask>>

\* It prints whatever it is told, and goes on.
GotRefusal(p) ==
    /\ reply[p] # NoReply
    /\ GetsReply(p, "waits for refusal", reply[p].text)
    /\ cpc' = [cpc EXCEPT ![p] = "works"]
    /\ UNCHANGED <<inbox, ctask>>

\* Interrupted (the SIGINT handler), at the end of its loop, or as
\* terminate_b4_answer does with a task in hand: "exit", whatever it waits for.
Leave(p) ==
    /\ proc[p] = "live" /\ cpc[p] # "gone"
    /\ Tells(p, Command("exit", NoTask))
    /\ cpc' = [cpc EXCEPT ![p] = "gone"]
    /\ UNCHANGED <<tableVars, handlerVars, reply, ctask>>

\* Killed, or ended like idle_client: the connection closes without a word.
Vanish(p) ==
    /\ proc[p] = "live" /\ cpc[p] # "gone"
    /\ cpc' = [cpc EXCEPT ![p] = "gone"]
    /\ UNCHANGED <<tableVars, handlerVars, inbox, reply, ctask>>

Client(p) ==
    \/ Request(p) \/ GotTask(p) \/ GotNoTask(p) \/ SendResult(p) \/ GotReceipt(p)
    \/ AskAgain(p) \/ GotRefusal(p) \/ Leave(p) \/ Vanish(p)

Next == Reap \/ \E p \in Pids : Accept(p) \/ Handler(p) \/ Client(p)

Spec == Init /\ [][Next]_vars

\* Every handler goes on with its loop, and main is told of its dead children.
FairSpec == Spec /\ WF_vars(Reap) /\ \A p \in Pids : WF_vars(Handler(p))

-----------------------------------------------------------------------------
(* Properties.                                                             *)

\* The table and the processes hold values of their C types (type invariant).
TypeOK ==
    /\ task_status \in [Tasks -> {0, 1, 2}]
    /\ assigned_to \in [Tasks -> Pids \cup {NoPid}]
    /\ proc \in [Pids -> {"none", "live", "zombie"}]
    /\ place \in [Pids -> {"loop", "reassign", "take", "answer"}]
    /\ client_task \in [Pids -> Tasks \cup {NoTask}]
    /\ cnt \in [Pids -> 0 .. (TIMEOUT_ATTEMPTS - 1)]
    /\ inbox \in [Pids -> Seq(Commands)]
    /\ reply \in [Pids -> Replies]
    /\ cpc \in [Pids -> {"idle", "waits for a task", "works", "waits for refusal",
                         "waits for receipt", "gone"}]
    /\ ctask \in [Pids -> Tasks \cup {NoTask}]

Holds(p, t) == proc[p] = "live" /\ client_task[p] = t

(* What a live handler notes as its task is assigned to it in the table:   *)
(* no other handler gets the task, however lookups, deaths, zombies and    *)
(* process numbers given again interleave (server.c, get_next_task).       *)
HoldersOwnTheirTasks ==
    \A p \in Pids, t \in Tasks :
        Holds(p, t) => task_status[t] = 1 /\ assigned_to[t] = p

Waiting == {"waits for a task", "waits for refusal", "waits for receipt"}
Requesting == {"waits for a task", "waits for refusal"}

\* A client that waits has one command under way, or one answer, or its handler
\* looks for a task; they all agree on the task it has.
InStep(p) ==
    /\ cpc[p] \in {"works", "waits for refusal"} => client_task[p] = ctask[p] /\ ctask[p] # NoTask
    /\ place[p] # "loop" => cpc[p] = "waits for a task"
    /\ inbox[p] # <<>> =>
         /\ Len(inbox[p]) = 1 /\ reply[p] = NoReply /\ place[p] = "loop"
         /\ \/ cpc[p] \in Requesting /\ inbox[p][1].text = "GET_TASK"
            \/ /\ cpc[p] = "waits for receipt"
               /\ inbox[p][1] = Command("RESULT", client_task[p])
    /\ reply[p] # NoReply => cpc[p] \in Waiting /\ place[p] = "loop"
    /\ reply[p].text = "Task: " => reply[p].task = client_task[p] /\ client_task[p] # NoTask

\* Of one that has left, the last command may be unread, and its farewell.
LeftBehind(p) ==
    /\ \A i \in 2 .. Len(inbox[p]) : inbox[p][i].text = "exit"
    /\ inbox[p] # <<>> /\ inbox[p][1].text # "exit" =>
         /\ place[p] = "loop"
         /\ inbox[p][1].text = "RESULT" => inbox[p][1].task = client_task[p]

Converses(p) ==
    proc[p] = "live" =>
        /\ place[p] \in {"reassign", "take"} => client_task[p] = NoTask
        /\ IF cpc[p] = "gone" THEN LeftBehind(p) ELSE InStep(p)

(* The inductive invariant: the table knows every holder, and each handler *)
(* agrees with its client on the task, whatever is still under way between *)
(* them.                                                                   *)
IInv == TypeOK /\ HoldersOwnTheirTasks /\ \A p \in Pids : Converses(p)

(* A task is completed by a result computed for this task, by the client   *)
(* of the handler it was assigned to, and not by an answer to something    *)
(* else that came late or stuck together with another message.             *)
ResultsAreForTheirTask ==
    [][\A t \in Tasks : task_status[t] # 2 /\ task_status'[t] = 2 =>
         \E p \in Pids :
            /\ proc[p] = "live" /\ assigned_to[t] = p
            /\ inbox[p] # <<>> /\ Head(inbox[p]) = Command("RESULT", t)]_vars

\* The table as a board: a task whose assignment no live handler knows is lost.
Board == [t \in Tasks |->
    CASE task_status[t] = 0 -> "free"
      [] task_status[t] = 2 -> "done"
      [] OTHER -> IF assigned_to[t] \in Pids /\ Holds(assigned_to[t], t)
                  THEN assigned_to[t] ELSE "lost"]

Abstract == INSTANCE TaskBoard WITH Workers <- Pids, board <- Board

(* The shared table with its forked handlers implements the board: one     *)
(* task per worker, one worker per task, given again only after a loss,    *)
(* never again after completion.                                           *)
ImplementsBoard == Abstract!Spec

(* While clients keep asking, a task that was lost comes back, unless a    *)
(* new handler has got the process number of the one that lost it.         *)
LostTasksComeBack ==
    ([]<>\E p \in Pids : At(p, "take")) =>
        \A t \in Tasks : (Board[t] = "lost") ~>
            (Board[t] # "lost" \/ proc[assigned_to[t]] = "live")
=============================================================================
