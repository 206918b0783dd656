--------------------------- MODULE TaskQueueProofs ---------------------------
(* Proofs about the task queue, for any number of tasks and processes.     *)
EXTENDS TaskQueue, TLAPS

\* What recv leaves in the stream.
LEMMA RestOfStream ==
    ASSUME NEW S, NEW s \in Seq(S), NEW n \in 1 .. Len(s)
    PROVE  /\ SubSeq(s, n + 1, Len(s)) \in Seq(S)
           /\ Len(SubSeq(s, n + 1, Len(s))) = Len(s) - n
           /\ \A i \in 1 .. (Len(s) - n) : SubSeq(s, n + 1, Len(s))[i] = s[i + n]
  OBVIOUS

\* A command that is received leaves at most farewells in the stream.
LEMMA ReceivedType ==
    ASSUME TypeOK, NEW p \in Pids, NEW text, Receives(p, text)
    PROVE  /\ inbox' \in [Pids -> Seq(Commands)]
           /\ cnt' \in [Pids -> 0 .. (TIMEOUT_ATTEMPTS - 1)]
           /\ \A q \in Pids \ {p} : inbox'[q] = inbox[q]
           /\ Len(inbox[p]) = 1 => inbox'[p] = <<>>
           /\ LeftBehind(p) => \A i \in 1 .. Len(inbox'[p]) : inbox'[p][i].text = "exit"
  <1>1. PICK n \in 1 .. Len(inbox[p]) :
          inbox' = [inbox EXCEPT ![p] = SubSeq(inbox[p], n + 1, Len(inbox[p]))]
    BY DEF Receives
  <1>2. inbox[p] \in Seq(Commands)
    BY DEF TypeOK
  <1> DEFINE rest == SubSeq(inbox[p], n + 1, Len(inbox[p]))
  <1>3. /\ rest \in Seq(Commands) /\ Len(rest) = Len(inbox[p]) - n
        /\ \A i \in 1 .. (Len(inbox[p]) - n) : rest[i] = inbox[p][i + n]
    BY <1>2, RestOfStream
  <1>4. inbox'[p] = rest /\ \A q \in Pids \ {p} : inbox'[q] = inbox[q]
    BY <1>1 DEF TypeOK
  <1>5. inbox' \in [Pids -> Seq(Commands)]
    BY <1>1, <1>3 DEF TypeOK
  <1>6. cnt' \in [Pids -> 0 .. (TIMEOUT_ATTEMPTS - 1)]
    <2>1. cnt' = [cnt EXCEPT ![p] = 0] /\ 0 \in 0 .. (TIMEOUT_ATTEMPTS - 1)
      BY QueueAssumption DEF Receives
    <2> QED
      BY <2>1 DEF TypeOK
  <1>7. Len(inbox[p]) = 1 => inbox'[p] = <<>>
    BY <1>3, <1>4, <1>2
  <1>8. ASSUME LeftBehind(p), NEW i \in 1 .. Len(inbox'[p])
        PROVE  inbox'[p][i].text = "exit"
    <2>1. i + n \in 2 .. Len(inbox[p])
      BY <1>3, <1>4, <1>2
    <2>2. inbox'[p][i] = inbox[p][i + n]
      BY <1>3, <1>4, <1>2
    <2> QED
      BY <1>8, <2>1, <2>2 DEF LeftBehind
  <1> QED
    BY <1>4, <1>5, <1>6, <1>7, <1>8

LEMMA MessageTypes ==
    /\ NoReply \in Replies
    /\ \A t \in Tasks \cup {NoTask} :
         /\ \A text \in {"GET_TASK", "RESULT", "exit"} : Command(text, t) \in Commands
         /\ Command("Task: ", t) \in Replies
    /\ Command("No tasks available", NoTask) \in Replies
    /\ Command("Complete your current task first", NoTask) \in Replies
    /\ Command("Result received", NoTask) \in Replies
  BY DEF NoReply, Replies, Commands, Command

LEMMA InitInvariant == Init => IInv
  <1> SUFFICES ASSUME Init PROVE IInv
    OBVIOUS
  <1>1. 0 \in 0 .. (TIMEOUT_ATTEMPTS - 1)
    BY QueueAssumption
  <1>2. NoReply \in Replies
    BY MessageTypes
  <1>3. TypeOK
    BY <1>1, <1>2 DEF Init, TypeOK
  <1>4. \A p \in Pids : proc[p] # "live"
    BY DEF Init
  <1> QED
    BY <1>3, <1>4 DEF IInv, HoldersOwnTheirTasks, Holds, Converses

\* Where an answer goes, and what becomes of the handler.
LEMMA SendsType ==
    ASSUME TypeOK, NEW p \in Pids, NEW answer \in Replies, Sends(p, answer)
    PROVE  /\ reply' \in [Pids -> Replies]
           /\ proc' \in [Pids -> {"none", "live", "zombie"}]
           /\ \A q \in Pids \ {p} : reply'[q] = reply[q] /\ proc'[q] = proc[q]
           /\ cpc[p] # "gone" => reply'[p] = answer /\ proc' = proc
           /\ proc'[p] \in {proc[p], "zombie"}
  BY DEF Sends, TypeOK

\* The type invariant is kept by every step.
LEMMA TypeStep ==
    ASSUME TypeOK, [Next]_vars
    PROVE  TypeOK'
  <1>1. CASE UNCHANGED vars
    BY <1>1 DEF TypeOK, vars, tableVars, handlerVars, clientVars
  <1>2. CASE Reap
    BY <1>2 DEF Reap, TypeOK, tableVars, clientVars
  <1>3. ASSUME NEW p \in Pids, Accept(p) PROVE TypeOK'
    <2>1. 0 \in 0 .. (TIMEOUT_ATTEMPTS - 1)
      BY QueueAssumption
    <2>2. NoReply \in Replies
      BY MessageTypes
    <2>3. /\ proc' \in [Pids -> {"none", "live", "zombie"}]
          /\ place' \in [Pids -> {"loop", "reassign", "take", "answer"}]
          /\ client_task' \in [Pids -> Tasks \cup {NoTask}]
          /\ ctask' \in [Pids -> Tasks \cup {NoTask}]
      BY <1>3 DEF TypeOK, Accept
    <2>4. cnt' \in [Pids -> 0 .. (TIMEOUT_ATTEMPTS - 1)]
      <3>1. cnt \in [Pids -> 0 .. (TIMEOUT_ATTEMPTS - 1)] /\ cnt' = [cnt EXCEPT ![p] = 0]
        BY <1>3 DEF TypeOK, Accept
      <3> QED
        BY <2>1, <3>1
    <2>5. inbox' \in [Pids -> Seq(Commands)]
      <3>1. inbox \in [Pids -> Seq(Commands)] /\ inbox' = [inbox EXCEPT ![p] = <<>>]
        BY <1>3 DEF TypeOK, Accept
      <3>2. <<>> \in Seq(Commands)
        OBVIOUS
      <3> QED
        BY <3>1, <3>2
    <2>6. reply' \in [Pids -> Replies]
      <3>1. reply \in [Pids -> Replies] /\ reply' = [reply EXCEPT ![p] = NoReply]
        BY <1>3 DEF TypeOK, Accept
      <3> QED
        BY <2>2, <3>1
    <2> QED
      BY <1>3, <2>3, <2>4, <2>5, <2>6 DEF TypeOK, Accept, tableVars
  <1>4. ASSUME NEW p \in Pids, Handler(p) PROVE TypeOK'
    <2> DEFINE Received == /\ inbox' \in [Pids -> Seq(Commands)]
                           /\ cnt' \in [Pids -> 0 .. (TIMEOUT_ATTEMPTS - 1)]
               Sent == /\ reply' \in [Pids -> Replies]
                       /\ proc' \in [Pids -> {"none", "live", "zombie"}]
    <2>a. \A text : Receives(p, text) => Received
      BY ReceivedType
    <2>b. \A answer \in Replies : Sends(p, answer) => Sent
      BY SendsType
    <2>c. client_task[p] \in Tasks \cup {NoTask}
      BY DEF TypeOK
    <2>1. CASE RefuseSecond(p)
      <3>1. Received /\ Sent
        BY <2>1, <2>a, <2>b, MessageTypes DEF RefuseSecond
      <3> QED
        BY <2>1, <3>1 DEF TypeOK, RefuseSecond, tableVars, clientVars
    <2>2. CASE StartGetTask(p)
      <3>1. Received
        BY <2>2, <2>a DEF StartGetTask
      <3> QED
        BY <2>2, <3>1 DEF TypeOK, StartGetTask, tableVars, clientVars
    <2>3. CASE reaasign_lost_tasks(p)
      <3>1. task_status' \in [Tasks -> {0, 1, 2}]
        BY <2>3 DEF TypeOK, reaasign_lost_tasks
      <3>2. assigned_to' \in [Tasks -> Pids \cup {NoPid}]
        BY <2>3 DEF TypeOK, reaasign_lost_tasks
      <3> QED
        BY <2>3, <3>1, <3>2 DEF TypeOK, reaasign_lost_tasks, clientVars
    <2>4. ASSUME NEW t \in Tasks, get_next_task(p, t) PROVE TypeOK'
      <3>1. task_status' \in [Tasks -> {0, 1, 2}]
        BY <2>4 DEF TypeOK, get_next_task
      <3>2. assigned_to' \in [Tasks -> Pids \cup {NoPid}]
        BY <2>4 DEF TypeOK, get_next_task
      <3> QED
        BY <2>4, <3>1, <3>2 DEF TypeOK, get_next_task, clientVars
    <2>5. CASE NoTaskAvailable(p)
      BY <2>5 DEF TypeOK, NoTaskAvailable, tableVars, clientVars
    <2>6. CASE AnswerGetTask(p)
      <3>1. (IF client_task[p] = NoTask THEN Command("No tasks available", NoTask)
             ELSE Command("Task: ", client_task[p])) \in Replies
        BY <2>c, MessageTypes
      <3>2. Sent
        BY <2>6, <2>b, <3>1 DEF AnswerGetTask
      <3> QED
        BY <2>6, <3>2 DEF TypeOK, AnswerGetTask, tableVars, clientVars
    <2>7. CASE HandleResult(p)
      <3>1. Received /\ Sent
        BY <2>7, <2>a, <2>b, MessageTypes DEF HandleResult
      <3>2. task_status' \in [Tasks -> {0, 1, 2}]
        <4>1. CASE client_task[p] = NoTask
          BY <2>7, <4>1 DEF TypeOK, HandleResult
        <4>2. CASE client_task[p] # NoTask
          BY <2>7, <2>c, <4>2 DEF TypeOK, HandleResult
        <4> QED
          BY <4>1, <4>2
      <3> QED
        BY <2>7, <3>1, <3>2 DEF TypeOK, HandleResult, clientVars
    <2>8. CASE HandleExit(p)
      <3>1. Received
        BY <2>8, <2>a DEF HandleExit
      <3> QED
        BY <2>8, <3>1 DEF TypeOK, HandleExit, Exits, tableVars, clientVars
    <2>9. CASE Disconnected(p)
      BY <2>9 DEF TypeOK, Disconnected, Exits, tableVars, clientVars
    <2>10. CASE WaitInVain(p)
      <3>1. cnt[p] + 1 \in 0 .. (TIMEOUT_ATTEMPTS - 1)
        <4>1. cnt[p] \in 0 .. (TIMEOUT_ATTEMPTS - 1) /\ cnt[p] + 1 < TIMEOUT_ATTEMPTS
          BY <2>10 DEF TypeOK, WaitInVain
        <4> QED
          BY <4>1, QueueAssumption
      <3> QED
        BY <2>10, <3>1 DEF TypeOK, WaitInVain, tableVars, clientVars
    <2>11. CASE GiveUp(p)
      BY <2>11 DEF TypeOK, GiveUp, Exits, tableVars, clientVars
    <2> QED
      BY <1>4, <2>1, <2>2, <2>3, <2>4, <2>5, <2>6, <2>7, <2>8, <2>9, <2>10, <2>11 DEF Handler
  <1>5. ASSUME NEW p \in Pids, Client(p) PROVE TypeOK'
    <2> DEFINE Told == inbox' \in [Pids -> Seq(Commands)]
    <2>a. ctask[p] \in Tasks \cup {NoTask} /\ reply[p].task \in Tasks \cup {NoTask}
      BY DEF TypeOK, Replies
    <2>b. /\ Command("GET_TASK", NoTask) \in Commands /\ Command("exit", NoTask) \in Commands
          /\ Command("RESULT", ctask[p]) \in Commands
      BY <2>a, MessageTypes
    <2>c. \A command \in Commands : Tells(p, command) => Told
      <3> SUFFICES ASSUME NEW command \in Commands, Tells(p, command) PROVE Told
        OBVIOUS
      <3>1. inbox \in [Pids -> Seq(Commands)]
        BY DEF TypeOK
      <3>2. inbox[p] \in Seq(Commands)
        BY <3>1
      <3>3. Append(inbox[p], command) \in Seq(Commands)
        BY <3>2
      <3> QED
        BY <3>1, <3>3 DEF Tells
    <2>d. NoReply \in Replies
      BY MessageTypes
    <2> USE DEF GetsReply, tableVars, handlerVars
    <2>1. CASE Request(p)
      <3>1. Told
        BY <2>1, <2>b, <2>c DEF Request
      <3> QED
        BY <2>1, <3>1 DEF TypeOK, Request
    <2>2. CASE GotTask(p)
      BY <2>a, <2>d, <2>2 DEF TypeOK, GotTask
    <2>3. CASE GotNoTask(p)
      <3>1. Told
        BY <2>3, <2>b, <2>c DEF GotNoTask
      <3> QED
        BY <2>d, <2>3, <3>1 DEF TypeOK, GotNoTask
    <2>4. CASE SendResult(p)
      <3>1. Told
        BY <2>4, <2>b, <2>c DEF SendResult
      <3> QED
        BY <2>4, <3>1 DEF TypeOK, SendResult
    <2>5. CASE GotReceipt(p)
      BY <2>d, <2>5 DEF TypeOK, GotReceipt
    <2>6. CASE AskAgain(p)
      <3>1. Told
        BY <2>6, <2>b, <2>c DEF AskAgain
      <3> QED
        BY <2>6, <3>1 DEF TypeOK, AskAgain
    <2>7. CASE GotRefusal(p)
      BY <2>d, <2>7 DEF TypeOK, GotRefusal
    <2>8. CASE Leave(p)
      <3>1. Told
        BY <2>8, <2>b, <2>c DEF Leave
      <3> QED
        BY <2>8, <3>1 DEF TypeOK, Leave
    <2>9. CASE Vanish(p)
      BY <2>9 DEF TypeOK, Vanish
    <2> QED
      BY <1>5, <2>1, <2>2, <2>3, <2>4, <2>5, <2>6, <2>7, <2>8, <2>9 DEF Client
  <1> QED
    BY <1>1, <1>2, <1>3, <1>4, <1>5 DEF Next

-----------------------------------------------------------------------------
\* Nothing that another process does touches the conversation of this one.
LEMMA OthersConverse ==
    ASSUME NEW q \in Pids, Converses(q),
           proc'[q] = proc[q], place'[q] = place[q], client_task'[q] = client_task[q],
           inbox'[q] = inbox[q], reply'[q] = reply[q], cpc'[q] = cpc[q], ctask'[q] = ctask[q]
    PROVE  Converses(q)'
  BY DEF Converses, LeftBehind, InStep

\* What the stream holds after recv, and what the client waits for.
LEMMA ReceivedConverse ==
    ASSUME TypeOK, TypeOK', NEW p \in Pids, Converses(p), NEW text, Receives(p, text), UNCHANGED cpc
    PROVE  /\ proc[p] = "live" /\ place[p] = "loop"
           /\ cpc[p] = "gone" => LeftBehind(p)'
           /\ cpc[p] # "gone" =>
                /\ InStep(p) /\ inbox'[p] = <<>> /\ reply[p] = NoReply
                /\ text = "GET_TASK" => cpc[p] \in Requesting
                /\ text = "RESULT" => /\ cpc[p] = "waits for receipt"
                                      /\ inbox[p][1] = Command("RESULT", client_task[p])
  <1>1. /\ proc[p] = "live" /\ place[p] = "loop" /\ inbox[p] # <<>>
        /\ inbox[p][1].text = text
    BY DEF Receives, At
  <1>2. ASSUME cpc[p] = "gone" PROVE LeftBehind(p)'
    <2>1. LeftBehind(p)
      BY <1>1, <1>2 DEF Converses
    <2>2. inbox'[p] \in Seq(Commands) /\ \A i \in 1 .. Len(inbox'[p]) : inbox'[p][i].text = "exit"
      BY <2>1, ReceivedType DEF TypeOK
    <2>3. inbox'[p] # <<>> => 1 \in 1 .. Len(inbox'[p])
      BY <2>2
    <2> QED
      BY <2>2, <2>3 DEF LeftBehind
  <1>3. ASSUME cpc[p] # "gone"
        PROVE  /\ InStep(p) /\ inbox'[p] = <<>> /\ reply[p] = NoReply
               /\ text = "GET_TASK" => cpc[p] \in Requesting
               /\ text = "RESULT" => /\ cpc[p] = "waits for receipt"
                                     /\ inbox[p][1] = Command("RESULT", client_task[p])
    <2>1. InStep(p)
      BY <1>1, <1>3 DEF Converses
    <2>2. /\ Len(inbox[p]) = 1 /\ reply[p] = NoReply
          /\ \/ cpc[p] \in Requesting /\ inbox[p][1].text = "GET_TASK"
             \/ /\ cpc[p] = "waits for receipt"
                /\ inbox[p][1] = Command("RESULT", client_task[p])
      BY <1>1, <2>1 DEF InStep
    <2>3. inbox'[p] = <<>>
      BY <2>2, ReceivedType
    <2>4. Command("RESULT", client_task[p]).text = "RESULT"
      BY DEF Command
    <2> QED
      BY <1>1, <2>1, <2>2, <2>3, <2>4
  <1> QED
    BY <1>1, <1>2, <1>3

\* The handler's steps keep its conversation with the client.
LEMMA HandlerConverses ==
    ASSUME TypeOK, TypeOK', NEW p \in Pids, Converses(p), Handler(p)
    PROVE  Converses(p)'
  <1>a. ASSUME proc'[p] = "zombie" PROVE Converses(p)'
    BY <1>a DEF Converses
  <1>b. proc \in [Pids -> {"none", "live", "zombie"}] /\ place \in [Pids -> {"loop", "reassign", "take", "answer"}]
        /\ client_task \in [Pids -> Tasks \cup {NoTask}] /\ reply \in [Pids -> Replies]
    BY DEF TypeOK
  <1>c. \A text, t : Command(text, t).text = text /\ Command(text, t).task = t
    BY DEF Command
  <1>d. NoReply.text = ""
    BY <1>c DEF NoReply
  <1>1. CASE RefuseSecond(p)
    <2>1. /\ Receives(p, "GET_TASK") /\ UNCHANGED <<cpc, place, client_task, ctask>>
          /\ Sends(p, Command("Complete your current task first", NoTask))
      BY <1>1 DEF RefuseSecond, tableVars, clientVars
    <2>2. place'[p] = "loop" /\ (cpc[p] = "gone" => LeftBehind(p)')
      BY <2>1, ReceivedConverse
    <2>3. ASSUME cpc[p] # "gone" PROVE InStep(p)'
      <3>1. InStep(p) /\ inbox'[p] = <<>> /\ cpc[p] \in Requesting
        BY <2>1, <2>3, ReceivedConverse
      <3>2. reply'[p] = Command("Complete your current task first", NoTask)
        BY <2>1, <2>3, SendsType, MessageTypes
      <3>3. reply'[p].text = "Complete your current task first"
        BY <3>2, <1>c
      <3> QED
        BY <2>1, <2>2, <3>1, <3>3 DEF InStep, Requesting, Waiting
    <2> QED
      BY <2>1, <2>2, <2>3 DEF Converses
  <1>2. CASE StartGetTask(p)
    <2>1. Receives(p, "GET_TASK") /\ UNCHANGED <<cpc, ctask, reply>>
      BY <1>2 DEF StartGetTask, clientVars
    <2>2. place'[p] = "reassign" /\ client_task'[p] = NoTask /\ client_task[p] = NoTask
      BY <1>2, <1>b DEF StartGetTask
    <2>3. cpc[p] = "gone" => LeftBehind(p)'
      BY <2>1, ReceivedConverse
    <2>4. ASSUME cpc[p] # "gone" PROVE InStep(p)'
      <3>1. InStep(p) /\ inbox'[p] = <<>> /\ reply[p] = NoReply /\ cpc[p] \in Requesting
        BY <2>1, <2>4, ReceivedConverse
      <3> QED
        BY <2>1, <2>2, <3>1, <1>d DEF InStep, Requesting
    <2> QED
      BY <2>1, <2>2, <2>3, <2>4 DEF Converses
  <1>3. CASE reaasign_lost_tasks(p)
    BY <1>3, <1>b DEF reaasign_lost_tasks, At, clientVars, Converses, InStep, LeftBehind
  <1>4. ASSUME NEW t \in Tasks, get_next_task(p, t) PROVE Converses(p)'
    <2>1. /\ place[p] = "take" /\ proc[p] = "live"
          /\ place'[p] = "answer" /\ client_task'[p] = t
          /\ UNCHANGED <<proc, inbox, reply, cpc, ctask>>
      BY <1>4, <1>b DEF get_next_task, At, clientVars
    <2>2. cpc[p] = "gone" => LeftBehind(p)'
      BY <2>1 DEF Converses, LeftBehind
    <2>3. ASSUME cpc[p] # "gone" PROVE InStep(p)'
      <3>1. InStep(p)
        BY <2>1, <2>3 DEF Converses
      <3>2. cpc[p] = "waits for a task" /\ inbox[p] = <<>> /\ reply[p] = NoReply
        BY <2>1, <3>1 DEF InStep
      <3> QED
        BY <2>1, <3>2, <1>d DEF InStep
    <2> QED
      BY <2>1, <2>2, <2>3 DEF Converses
  <1>5. CASE NoTaskAvailable(p)
    BY <1>5, <1>b DEF NoTaskAvailable, At, tableVars, clientVars, Converses, InStep, LeftBehind
  <1>6. CASE AnswerGetTask(p)
    <2> DEFINE answer == IF client_task[p] = NoTask THEN Command("No tasks available", NoTask)
                         ELSE Command("Task: ", client_task[p])
    <2>1. /\ place[p] = "answer" /\ proc[p] = "live" /\ place'[p] = "loop"
          /\ Sends(p, answer) /\ UNCHANGED <<client_task, inbox, cpc, ctask>>
      BY <1>6, <1>b DEF AnswerGetTask, At, clientVars
    <2>2. cpc[p] = "gone" => LeftBehind(p)'
      BY <2>1 DEF Converses, LeftBehind
    <2>3. ASSUME cpc[p] # "gone" PROVE InStep(p)'
      <3>1. InStep(p)
        BY <2>1, <2>3 DEF Converses
      <3>2. cpc[p] = "waits for a task" /\ inbox[p] = <<>>
        BY <2>1, <3>1 DEF InStep
      <3>3. answer \in Replies
        BY <1>b, MessageTypes
      <3>4. reply'[p] = answer
        BY <2>1, <2>3, <3>3, SendsType
      <3>5. answer.text = "Task: " => answer.task = client_task[p] /\ client_task[p] # NoTask
        <4>1. CASE client_task[p] = NoTask
          <5>1. answer.text = "No tasks available"
            BY <4>1, <1>c
          <5> QED
            BY <5>1
        <4>2. CASE client_task[p] # NoTask
          BY <4>2, <1>c
        <4> QED
          BY <4>1, <4>2
      <3> QED
        BY <2>1, <3>2, <3>4, <3>5 DEF InStep, Waiting
    <2> QED
      BY <2>1, <2>2, <2>3 DEF Converses
  <1>7. CASE HandleResult(p)
    <2>1. /\ Receives(p, "RESULT") /\ UNCHANGED <<cpc, place, ctask>>
          /\ Sends(p, Command("Result received", NoTask))
      BY <1>7 DEF HandleResult, clientVars
    <2>2. place'[p] = "loop" /\ (cpc[p] = "gone" => LeftBehind(p)')
      BY <2>1, ReceivedConverse
    <2>3. ASSUME cpc[p] # "gone" PROVE InStep(p)'
      <3>1. inbox'[p] = <<>> /\ cpc[p] = "waits for receipt"
        BY <2>1, <2>3, ReceivedConverse
      <3>2. reply'[p] = Command("Result received", NoTask)
        BY <2>1, <2>3, SendsType, MessageTypes
      <3>3. reply'[p].text = "Result received"
        BY <3>2, <1>c
      <3> QED
        BY <2>1, <2>2, <3>1, <3>3 DEF InStep, Waiting
    <2> QED
      BY <2>1, <2>2, <2>3 DEF Converses
  <1>8. CASE HandleExit(p)
    BY <1>8, <1>a, <1>b DEF HandleExit, Exits
  <1>9. CASE Disconnected(p)
    BY <1>9, <1>a, <1>b DEF Disconnected, Exits
  <1>10. CASE WaitInVain(p)
    BY <1>10, OthersConverse DEF WaitInVain, tableVars, clientVars
  <1>11. CASE GiveUp(p)
    BY <1>11, <1>a, <1>b DEF GiveUp, Exits
  <1> QED
    BY <1>1, <1>2, <1>3, <1>4, <1>5, <1>6, <1>7, <1>8, <1>9, <1>10, <1>11 DEF Handler

\* A command goes to the end of the stream.
LEMMA TellsType ==
    ASSUME TypeOK, NEW p \in Pids, NEW command \in Commands, Tells(p, command)
    PROVE  /\ Len(inbox'[p]) = Len(inbox[p]) + 1
           /\ \A i \in 1 .. Len(inbox[p]) : inbox'[p][i] = inbox[p][i]
           /\ inbox'[p][Len(inbox[p]) + 1] = command
           /\ inbox[p] = <<>> => Len(inbox'[p]) = 1 /\ inbox'[p][1] = command
           /\ \A q \in Pids \ {p} : inbox'[q] = inbox[q]
  <1>1. inbox \in [Pids -> Seq(Commands)] /\ inbox' = [inbox EXCEPT ![p] = Append(inbox[p], command)]
    BY DEF TypeOK, Tells
  <1>2. inbox[p] \in Seq(Commands) /\ inbox'[p] = Append(inbox[p], command)
    BY <1>1
  <1>3. /\ Len(inbox'[p]) = Len(inbox[p]) + 1
        /\ \A i \in 1 .. Len(inbox[p]) : inbox'[p][i] = inbox[p][i]
        /\ inbox'[p][Len(inbox[p]) + 1] = command
    BY <1>2
  <1>4. inbox[p] = <<>> => Len(inbox'[p]) = 1 /\ inbox'[p][1] = command
    <2>1. inbox[p] = <<>> => Len(inbox[p]) = 0
      OBVIOUS
    <2> QED
      BY <1>3, <2>1
  <1> QED
    BY <1>1, <1>3, <1>4

\* A client that is not gone, when it is not waiting: the connection is silent.
LEMMA SilentUnlessWaiting ==
    ASSUME TypeOK, NEW p \in Pids, InStep(p), cpc[p] \in {"idle", "works"}
    PROVE  place[p] = "loop" /\ inbox[p] = <<>> /\ reply[p] = NoReply
  BY DEF InStep, Requesting, Waiting

LEMMA ClientConverses ==
    ASSUME TypeOK, TypeOK', NEW p \in Pids, Converses(p), Client(p)
    PROVE  Converses(p)'
  <1>a. \A text, t : Command(text, t).text = text /\ Command(text, t).task = t
    BY DEF Command
  <1>b. NoReply.text = ""
    BY <1>a DEF NoReply
  <1>c. /\ cpc \in [Pids -> {"idle", "works", "gone"} \cup Waiting]
        /\ ctask \in [Pids -> Tasks \cup {NoTask}] /\ reply \in [Pids -> Replies]
    BY DEF TypeOK, Waiting
  <1>d. /\ Command("GET_TASK", NoTask) \in Commands /\ Command("exit", NoTask) \in Commands
        /\ Command("RESULT", ctask[p]) \in Commands
    BY <1>c, MessageTypes
  <1>e. proc[p] = "live" /\ cpc[p] # "gone" /\ UNCHANGED handlerVars
    BY DEF Client, Request, GotTask, GotNoTask, SendResult, GotReceipt, AskAgain, GotRefusal,
           Leave, Vanish, GetsReply, ClientAt
  <1>f. InStep(p) /\ UNCHANGED <<proc, place, client_task>>
    BY <1>e DEF Converses, handlerVars
  <1>g. place[p] \in {"reassign", "take"} => client_task[p] = NoTask
    BY <1>e DEF Converses
  <1>h. inbox[p] \in Seq(Commands)
    BY DEF TypeOK
  <1>i. \A here, text : GetsReply(p, here, text) /\ text # "" =>
            /\ cpc[p] = here /\ reply[p] # NoReply /\ reply[p].text = text
            /\ inbox[p] = <<>> /\ place[p] = "loop" /\ reply'[p] = NoReply
    BY <1>b, <1>c, <1>f DEF GetsReply, ClientAt, InStep
  <1>j. inbox[p] # <<>> =>
          /\ Len(inbox[p]) = 1 /\ place[p] = "loop"
          /\ inbox[p][1].text = "RESULT" => inbox[p][1].task = client_task[p]
    <2> SUFFICES ASSUME inbox[p] # <<>>
                 PROVE  /\ Len(inbox[p]) = 1 /\ place[p] = "loop"
                        /\ inbox[p][1].text = "RESULT" => inbox[p][1].task = client_task[p]
      OBVIOUS
    <2>1. /\ Len(inbox[p]) = 1 /\ place[p] = "loop"
          /\ \/ inbox[p][1].text = "GET_TASK"
             \/ inbox[p][1] = Command("RESULT", client_task[p])
      BY <1>f DEF InStep
    <2>2. inbox[p][1] = Command("RESULT", client_task[p]) => inbox[p][1].task = client_task[p]
      BY <1>a
    <2> QED
      BY <2>1, <2>2
  <1>s. ASSUME cpc'[p] # "gone", InStep(p)' PROVE Converses(p)'
    BY <1>f, <1>g, <1>s DEF Converses
  <1>t. ASSUME cpc'[p] = "gone", LeftBehind(p)' PROVE Converses(p)'
    BY <1>f, <1>g, <1>t DEF Converses
  <1>1. CASE Request(p)
    <2>1. place[p] = "loop" /\ inbox[p] = <<>> /\ reply[p] = NoReply
      BY <1>1, <1>f, SilentUnlessWaiting DEF Request, ClientAt
    <2>2. /\ Tells(p, Command("GET_TASK", NoTask)) /\ cpc'[p] = "waits for a task"
          /\ UNCHANGED <<reply, ctask>>
      BY <1>1, <1>c DEF Request
    <2>3. Len(inbox'[p]) = 1 /\ inbox'[p][1] = Command("GET_TASK", NoTask)
      BY <2>1, <2>2, <1>d, TellsType
    <2>4. InStep(p)'
      <3>1. inbox'[p][1].text = "GET_TASK"
        BY <2>3, <1>a
      <3> QED
        BY <1>b, <1>f, <2>1, <2>2, <2>3, <3>1 DEF InStep, Requesting
    <2> QED
      BY <1>s, <2>2, <2>4
  <1>2. CASE GotTask(p)
    <2>1. /\ GetsReply(p, "waits for a task", "Task: ")
          /\ ctask'[p] = reply[p].task /\ cpc'[p] = "works" /\ UNCHANGED inbox
      BY <1>2, <1>c DEF GotTask
    <2>2. reply[p].task = client_task[p] /\ client_task[p] # NoTask
      BY <2>1, <1>i, <1>f DEF InStep
    <2>3. InStep(p)'
      BY <1>b, <1>f, <1>i, <2>1, <2>2 DEF InStep
    <2> QED
      BY <1>s, <2>1, <2>3
  <1>3. CASE GotNoTask(p)
    <2>1. /\ GetsReply(p, "waits for a task", "No tasks available")
          /\ Tells(p, Command("exit", NoTask)) /\ cpc'[p] = "gone"
      BY <1>3, <1>c DEF GotNoTask
    <2>2. inbox[p] = <<>>
      BY <2>1, <1>i
    <2>3. Len(inbox'[p]) = 1 /\ inbox'[p][1] = Command("exit", NoTask)
      BY <2>1, <2>2, <1>d, TellsType
    <2>4. LeftBehind(p)'
      BY <2>3, <1>a DEF LeftBehind
    <2> QED
      BY <1>t, <2>1, <2>4
  <1>4. CASE SendResult(p)
    <2>1. cpc[p] = "works" /\ place[p] = "loop" /\ inbox[p] = <<>> /\ reply[p] = NoReply
      BY <1>4, <1>f, SilentUnlessWaiting DEF SendResult, ClientAt
    <2>2. /\ Tells(p, Command("RESULT", ctask[p])) /\ cpc'[p] = "waits for receipt"
          /\ UNCHANGED <<reply, ctask>>
      BY <1>4, <1>c DEF SendResult
    <2>3. Len(inbox'[p]) = 1 /\ inbox'[p][1] = Command("RESULT", ctask[p])
      BY <2>1, <2>2, <1>d, TellsType
    <2>4. client_task[p] = ctask[p]
      BY <2>1, <1>f DEF InStep
    <2>5. InStep(p)'
      BY <1>a, <1>b, <1>f, <2>1, <2>2, <2>3, <2>4 DEF InStep
    <2> QED
      BY <1>s, <2>2, <2>5
  <1>5. CASE GotReceipt(p)
    <2>1. /\ GetsReply(p, "waits for receipt", "Result received")
          /\ cpc'[p] = "idle" /\ UNCHANGED <<inbox, ctask>>
      BY <1>5, <1>c DEF GotReceipt
    <2>2. InStep(p)'
      BY <1>b, <1>f, <1>i, <2>1 DEF InStep
    <2> QED
      BY <1>s, <2>1, <2>2
  <1>6. CASE AskAgain(p)
    <2>1. cpc[p] = "works" /\ place[p] = "loop" /\ inbox[p] = <<>> /\ reply[p] = NoReply
      BY <1>6, <1>f, SilentUnlessWaiting DEF AskAgain, ClientAt
    <2>2. /\ Tells(p, Command("GET_TASK", NoTask)) /\ cpc'[p] = "waits for refusal"
          /\ UNCHANGED <<reply, ctask>>
      BY <1>6, <1>c DEF AskAgain
    <2>3. Len(inbox'[p]) = 1 /\ inbox'[p][1] = Command("GET_TASK", NoTask)
      BY <2>1, <2>2, <1>d, TellsType
    <2>4. InStep(p)'
      <3>1. inbox'[p][1].text = "GET_TASK"
        BY <2>3, <1>a
      <3> QED
        BY <1>b, <1>f, <2>1, <2>2, <2>3, <3>1 DEF InStep, Requesting
    <2> QED
      BY <1>s, <2>2, <2>4
  <1>7. CASE GotRefusal(p)
    <2>1. /\ reply[p] # NoReply /\ cpc[p] = "waits for refusal" /\ reply'[p] = NoReply
          /\ cpc'[p] = "works" /\ UNCHANGED <<inbox, ctask>>
      BY <1>7, <1>c DEF GotRefusal, GetsReply, ClientAt
    <2>2. InStep(p)'
      BY <1>b, <1>f, <2>1 DEF InStep
    <2> QED
      BY <1>s, <2>1, <2>2
  <1>8. CASE Leave(p)
    <2>1. Tells(p, Command("exit", NoTask)) /\ cpc'[p] = "gone"
      BY <1>8, <1>c DEF Leave
    <2>2. /\ Len(inbox'[p]) = Len(inbox[p]) + 1
          /\ \A i \in 1 .. Len(inbox[p]) : inbox'[p][i] = inbox[p][i]
          /\ inbox'[p][Len(inbox[p]) + 1] = Command("exit", NoTask)
      BY <2>1, <1>d, TellsType
    <2>3. CASE inbox[p] = <<>>
      <3>1. Len(inbox'[p]) = 1 /\ inbox'[p][1].text = "exit"
        BY <2>2, <2>3, <1>a
      <3>2. LeftBehind(p)'
        BY <3>1 DEF LeftBehind
      <3> QED
        BY <1>t, <2>1, <3>2
    <2>4. CASE inbox[p] # <<>>
      <3>1. /\ Len(inbox[p]) = 1 /\ place[p] = "loop"
            /\ inbox[p][1].text = "RESULT" => inbox[p][1].task = client_task[p]
        BY <2>4, <1>j
      <3>2. Len(inbox'[p]) = 2 /\ inbox'[p][1] = inbox[p][1] /\ inbox'[p][2].text = "exit"
        BY <2>2, <3>1, <1>a
      <3>3. LeftBehind(p)'
        BY <3>1, <3>2, <1>f DEF LeftBehind
      <3> QED
        BY <1>t, <2>1, <3>3
    <2> QED
      BY <2>3, <2>4
  <1>9. CASE Vanish(p)
    <2>1. cpc'[p] = "gone" /\ UNCHANGED inbox
      BY <1>9, <1>c DEF Vanish
    <2>2. LeftBehind(p)'
      <3>a. Len(inbox[p]) < 2
        <4>1. inbox[p] = <<>> => Len(inbox[p]) = 0
          OBVIOUS
        <4>2. Len(inbox[p]) \in {0, 1}
          BY <4>1, <1>j
        <4>3. \A n \in {0, 1} : n < 2
          OBVIOUS
        <4> QED
          BY <4>2, <4>3
      <3>1. ~ \E i \in 2 .. Len(inbox[p]) : TRUE
        <4>1. Len(inbox[p]) \in Nat
          BY <1>h
        <4> QED
          BY <3>a, <4>1
      <3> QED
        BY <2>1, <1>f, <1>j, <3>1 DEF LeftBehind
    <2> QED
      BY <1>t, <2>1, <2>2
  <1> QED
    BY <1>1, <1>2, <1>3, <1>4, <1>5, <1>6, <1>7, <1>8, <1>9 DEF Client

-----------------------------------------------------------------------------
\* A step of one process or of its client leaves the conversation of another.
LEMMA StaysConversing ==
    ASSUME TypeOK, TypeOK', NEW p \in Pids, NEW q \in Pids \ {p}, Converses(q),
           Handler(p) \/ Client(p)
    PROVE  Converses(q)'
  <1>a. \A text : Receives(p, text) => inbox'[q] = inbox[q]
    BY ReceivedType
  <1>b. \A answer \in Replies : Sends(p, answer) => reply'[q] = reply[q] /\ proc'[q] = proc[q]
    BY SendsType
  <1>c. \A command : Tells(p, command) => inbox'[q] = inbox[q]
    BY DEF Tells, TypeOK
  <1>d. client_task[p] \in Tasks \cup {NoTask}
    BY DEF TypeOK
  <1>e. /\ \A x : [proc EXCEPT ![p] = x][q] = proc[q]
        /\ \A x : [place EXCEPT ![p] = x][q] = place[q]
        /\ \A x : [client_task EXCEPT ![p] = x][q] = client_task[q]
        /\ \A x : [reply EXCEPT ![p] = x][q] = reply[q]
        /\ \A x : [inbox EXCEPT ![p] = x][q] = inbox[q]
        /\ \A x : [cpc EXCEPT ![p] = x][q] = cpc[q]
        /\ \A x : [ctask EXCEPT ![p] = x][q] = ctask[q]
    BY ZenonT(60) DEF TypeOK
  <1>1. CASE Handler(p)
    <2> USE <1>1, <1>a, <1>e DEF clientVars, tableVars, Exits
    <2>1. CASE RefuseSecond(p)
      BY <2>1, <1>b, MessageTypes, OthersConverse DEF RefuseSecond
    <2>2. CASE StartGetTask(p)
      BY <2>2, OthersConverse DEF StartGetTask
    <2>3. CASE reaasign_lost_tasks(p)
      BY <2>3, OthersConverse DEF reaasign_lost_tasks
    <2>4. ASSUME NEW t \in Tasks, get_next_task(p, t) PROVE Converses(q)'
      BY <2>4, OthersConverse DEF get_next_task
    <2>5. CASE NoTaskAvailable(p)
      BY <2>5, OthersConverse DEF NoTaskAvailable
    <2>6. CASE AnswerGetTask(p)
      <3>1. (IF client_task[p] = NoTask THEN Command("No tasks available", NoTask)
             ELSE Command("Task: ", client_task[p])) \in Replies
        BY <1>d, MessageTypes
      <3>2. reply'[q] = reply[q] /\ proc'[q] = proc[q]
        BY <2>6, <1>b, <3>1 DEF AnswerGetTask
      <3> QED
        BY <2>6, <3>2, OthersConverse DEF AnswerGetTask
    <2>7. CASE HandleResult(p)
      <3>1. reply'[q] = reply[q] /\ proc'[q] = proc[q]
        BY <2>7, <1>b, MessageTypes DEF HandleResult
      <3> QED
        BY <2>7, <3>1, OthersConverse DEF HandleResult
    <2>8. CASE HandleExit(p)
      BY <2>8, OthersConverse DEF HandleExit
    <2>9. CASE Disconnected(p)
      BY <2>9, OthersConverse DEF Disconnected
    <2>10. CASE WaitInVain(p)
      BY <2>10, OthersConverse DEF WaitInVain
    <2>11. CASE GiveUp(p)
      BY <2>11, OthersConverse DEF GiveUp
    <2> QED
      BY <2>1, <2>2, <2>3, <2>4, <2>5, <2>6, <2>7, <2>8, <2>9, <2>10, <2>11 DEF Handler
  <1>2. CASE Client(p)
    <2> USE <1>c, <1>e, OthersConverse DEF handlerVars, tableVars, GetsReply
    <2>1. CASE Request(p)
      BY <2>1 DEF Request
    <2>2. CASE GotTask(p)
      BY <2>2 DEF GotTask
    <2>3. CASE GotNoTask(p)
      BY <2>3 DEF GotNoTask
    <2>4. CASE SendResult(p)
      BY <2>4 DEF SendResult
    <2>5. CASE GotReceipt(p)
      BY <2>5 DEF GotReceipt
    <2>6. CASE AskAgain(p)
      BY <2>6 DEF AskAgain
    <2>7. CASE GotRefusal(p)
      BY <2>7 DEF GotRefusal
    <2>8. CASE Leave(p)
      BY <2>8 DEF Leave
    <2>9. CASE Vanish(p)
      BY <2>9 DEF Vanish
    <2> QED
      BY <1>2, <2>1, <2>2, <2>3, <2>4, <2>5, <2>6, <2>7, <2>8, <2>9 DEF Client
  <1> QED
    BY <1>1, <1>2

\* Every step keeps every conversation.
LEMMA ConversesStep ==
    ASSUME TypeOK, TypeOK', [Next]_vars, NEW q \in Pids, Converses(q)
    PROVE  Converses(q)'
  <1>1. CASE UNCHANGED vars
    BY <1>1, OthersConverse DEF vars, handlerVars, clientVars
  <1>2. CASE Reap
    BY <1>2 DEF Reap, clientVars, Converses, LeftBehind, InStep, TypeOK
  <1>3. ASSUME NEW p \in Pids, Accept(p) PROVE Converses(q)'
    <2>a. \A x : /\ [proc EXCEPT ![p] = x][q] = (IF q = p THEN x ELSE proc[q])
                 /\ [place EXCEPT ![p] = x][q] = (IF q = p THEN x ELSE place[q])
                 /\ [client_task EXCEPT ![p] = x][q] = (IF q = p THEN x ELSE client_task[q])
                 /\ [reply EXCEPT ![p] = x][q] = (IF q = p THEN x ELSE reply[q])
                 /\ [inbox EXCEPT ![p] = x][q] = (IF q = p THEN x ELSE inbox[q])
                 /\ [cpc EXCEPT ![p] = x][q] = (IF q = p THEN x ELSE cpc[q])
                 /\ [ctask EXCEPT ![p] = x][q] = (IF q = p THEN x ELSE ctask[q])
      BY ZenonT(60) DEF TypeOK
    <2>1. CASE q = p
      <3>1. /\ place'[p] = "loop" /\ inbox'[p] = <<>> /\ reply'[p] = NoReply /\ cpc'[p] = "idle"
        BY <1>3, <2>1, <2>a DEF Accept
      <3>2. NoReply.text = ""
        BY DEF NoReply, Command
      <3> QED
        BY <2>1, <3>1, <3>2 DEF Converses, InStep
    <2>2. CASE q # p
      BY <1>3, <2>2, <2>a, OthersConverse DEF Accept
    <2> QED
      BY <2>1, <2>2
  <1>4. ASSUME NEW p \in Pids, Handler(p) \/ Client(p) PROVE Converses(q)'
    BY <1>4, HandlerConverses, ClientConverses, StaysConversing
  <1> QED
    BY <1>1, <1>2, <1>3, <1>4 DEF Next

-----------------------------------------------------------------------------
LEMMA NoTaskIsNone == NoTask \notin Tasks
  BY DEF NoTask, Tasks

\* No step lets a handler hold a task that the table gives to another.
LEMMA HoldersStep ==
    ASSUME TypeOK, HoldersOwnTheirTasks, [Next]_vars
    PROVE  HoldersOwnTheirTasks'
  <1> SUFFICES ASSUME NEW q \in Pids, NEW t \in Tasks, Holds(q, t)'
               PROVE  task_status'[t] = 1 /\ assigned_to'[t] = q
    BY DEF HoldersOwnTheirTasks
  <1>a. Holds(q, t) => task_status[t] = 1 /\ assigned_to[t] = q
    BY DEF HoldersOwnTheirTasks
  <1>b. ASSUME UNCHANGED tableVars, Holds(q, t) PROVE task_status'[t] = 1 /\ assigned_to'[t] = q
    BY <1>a, <1>b DEF tableVars
  <1>c. /\ proc \in [Pids -> {"none", "live", "zombie"}]
        /\ client_task \in [Pids -> Tasks \cup {NoTask}]
        /\ task_status \in [Tasks -> {0, 1, 2}] /\ assigned_to \in [Tasks -> Pids \cup {NoPid}]
    BY DEF TypeOK
  <1>1. CASE UNCHANGED vars
    BY <1>1, <1>b DEF vars, handlerVars, Holds
  <1>2. CASE Reap
    BY <1>2, <1>b, <1>c DEF Reap, Holds
  <1>3. ASSUME NEW p \in Pids, Accept(p) PROVE task_status'[t] = 1 /\ assigned_to'[t] = q
    BY <1>3, <1>b, <1>c, NoTaskIsNone DEF Accept, Holds
  <1>4. ASSUME NEW p \in Pids, Handler(p) PROVE task_status'[t] = 1 /\ assigned_to'[t] = q
    <2>a. \A answer : Sends(p, answer) => proc'[q] \in {proc[q], "zombie"}
      BY <1>c DEF Sends
    <2>1. CASE RefuseSecond(p)
      BY <2>1, <2>a, <1>b DEF RefuseSecond, Holds
    <2>2. CASE StartGetTask(p)
      BY <2>2, <1>b DEF StartGetTask, Holds
    <2>3. CASE reaasign_lost_tasks(p)
      <3>1. Holds(q, t)
        BY <2>3 DEF reaasign_lost_tasks, Holds
      <3>2. t \notin LostTasks
        BY <1>a, <3>1 DEF LostTasks, DoesNotExist, Holds
      <3> QED
        BY <1>a, <2>3, <3>1, <3>2 DEF reaasign_lost_tasks
    <2>4. ASSUME NEW u \in Tasks, get_next_task(p, u)
          PROVE  task_status'[t] = 1 /\ assigned_to'[t] = q
      <3>1. CASE q = p
        BY <2>4, <3>1, <1>c DEF get_next_task, Holds
      <3>2. CASE q # p
        <4>1. Holds(q, t)
          BY <2>4, <3>2, <1>c DEF get_next_task, Holds
        <4>2. t # u
          BY <1>a, <4>1, <2>4 DEF get_next_task, FirstAvailable
        <4> QED
          BY <1>a, <1>c, <2>4, <4>1, <4>2 DEF get_next_task
      <3> QED
        BY <3>1, <3>2
    <2>5. CASE NoTaskAvailable(p)
      BY <2>5, <1>b DEF NoTaskAvailable, Holds
    <2>6. CASE AnswerGetTask(p)
      BY <2>6, <2>a, <1>b DEF AnswerGetTask, Holds
    <2>7. CASE HandleResult(p)
      <3>1. q # p
        BY <2>7, <1>c, NoTaskIsNone DEF HandleResult, Holds
      <3>2. Holds(q, t)
        BY <2>7, <2>a, <3>1, <1>c DEF HandleResult, Holds
      <3>3. client_task[p] # t
        <4>1. proc[p] = "live"
          BY <2>7 DEF HandleResult, Receives, At
        <4>2. client_task[p] = t => assigned_to[t] = p
          BY <4>1 DEF HoldersOwnTheirTasks, Holds
        <4> QED
          BY <1>a, <3>1, <3>2, <4>2
      <3> QED
        BY <1>a, <1>c, <2>7, <3>2, <3>3 DEF HandleResult
    <2>8. CASE HandleExit(p)
      BY <2>8, <1>b, <1>c DEF HandleExit, Exits, Holds
    <2>9. CASE Disconnected(p)
      BY <2>9, <1>b, <1>c DEF Disconnected, Exits, Holds
    <2>10. CASE WaitInVain(p)
      BY <2>10, <1>b DEF WaitInVain, Holds
    <2>11. CASE GiveUp(p)
      BY <2>11, <1>b, <1>c DEF GiveUp, Exits, Holds
    <2> QED
      BY <1>4, <2>1, <2>2, <2>3, <2>4, <2>5, <2>6, <2>7, <2>8, <2>9, <2>10, <2>11 DEF Handler
  <1>5. ASSUME NEW p \in Pids, Client(p) PROVE task_status'[t] = 1 /\ assigned_to'[t] = q
    <2>1. UNCHANGED <<tableVars, handlerVars>>
      BY <1>5 DEF Client, Request, GotTask, GotNoTask, SendResult, GotReceipt, AskAgain, GotRefusal,
                  Leave, Vanish, GetsReply
    <2> QED
      BY <2>1, <1>b DEF handlerVars, Holds
  <1> QED
    BY <1>1, <1>2, <1>3, <1>4, <1>5 DEF Next

\* The inductive invariant is kept by every step.
LEMMA InvariantStep ==
    ASSUME IInv, [Next]_vars
    PROVE  IInv'
  <1>1. TypeOK /\ HoldersOwnTheirTasks /\ \A p \in Pids : Converses(p)
    BY DEF IInv
  <1>2. TypeOK'
    BY <1>1, TypeStep
  <1>3. HoldersOwnTheirTasks'
    BY <1>1, HoldersStep
  <1>4. ASSUME NEW p \in Pids PROVE Converses(p)'
    BY <1>1, <1>2, ConversesStep
  <1> QED
    BY <1>2, <1>3, <1>4 DEF IInv

(* The inductive invariant holds for any number of tasks and processes     *)
(* (server.c, handle_client).                                              *)
THEOREM Invariant == Spec => []IInv
  <1>1. Init => IInv
    BY InitInvariant
  <1>2. IInv /\ [Next]_vars => IInv'
    BY InvariantStep
  <1> QED
    BY <1>1, <1>2, PTL DEF Spec

(* The type invariant of the table, the handlers and the connections.      *)
THEOREM TypeCorrect == Spec => []TypeOK
  <1>1. IInv => TypeOK
    BY DEF IInv
  <1> QED
    BY <1>1, Invariant, PTL

(* No two handlers ever have the same task (server.c, get_next_task).      *)
THEOREM HoldersOwn == Spec => []HoldersOwnTheirTasks
  <1>1. IInv => HoldersOwnTheirTasks
    BY DEF IInv
  <1> QED
    BY <1>1, Invariant, PTL

(* Only the result of a task, from the client it was given to, completes   *)
(* it (server.c, handle_client).                                           *)
THEOREM ResultsFit == Spec => ResultsAreForTheirTask
  <1> DEFINE Fits ==
        \A t \in Tasks : task_status[t] # 2 /\ task_status'[t] = 2 =>
            \E p \in Pids :
              /\ proc[p] = "live" /\ assigned_to[t] = p
              /\ inbox[p] # <<>> /\ Head(inbox[p]) = Command("RESULT", t)
  <1>1. IInv /\ IInv' /\ [Next]_vars => [Fits]_vars
    <2> SUFFICES ASSUME IInv, IInv', Next, NEW t \in Tasks, task_status[t] # 2, task_status'[t] = 2
                 PROVE  \E p \in Pids :
                          /\ proc[p] = "live" /\ assigned_to[t] = p
                          /\ inbox[p] # <<>> /\ Head(inbox[p]) = Command("RESULT", t)
      OBVIOUS
    <2>a. TypeOK /\ TypeOK' /\ HoldersOwnTheirTasks /\ \A p \in Pids : Converses(p)
      BY DEF IInv
    <2>b. client_task \in [Pids -> Tasks \cup {NoTask}] /\ task_status \in [Tasks -> {0, 1, 2}]
      BY <2>a DEF TypeOK
    <2>1. PICK p \in Pids : HandleResult(p)
      <3>1. CASE Reap \/ \E p \in Pids : Accept(p) \/ Client(p)
        BY <3>1 DEF Reap, Accept, Client, Request, GotTask, GotNoTask, SendResult, GotReceipt,
                    AskAgain, GotRefusal, Leave, Vanish, GetsReply, tableVars
      <3>2. ASSUME NEW p \in Pids, Handler(p) PROVE HandleResult(p)
        <4>1. ~ reaasign_lost_tasks(p)
          BY <2>b DEF reaasign_lost_tasks
        <4>2. \A u \in Tasks : ~ get_next_task(p, u)
          BY <2>b DEF get_next_task
        <4> QED
          BY <3>2, <4>1, <4>2 DEF Handler, RefuseSecond, StartGetTask, NoTaskAvailable,
             AnswerGetTask, HandleExit, Disconnected, WaitInVain, GiveUp, Exits, tableVars
      <3> QED
        BY <3>1, <3>2 DEF Next
    <2>2. client_task[p] = t
      BY <2>1, <2>b DEF HandleResult
    <2>3. Receives(p, "RESULT") /\ UNCHANGED cpc
      BY <2>1 DEF HandleResult, clientVars
    <2>4. proc[p] = "live" /\ inbox[p] # <<>> /\ Head(inbox[p]).text = "RESULT"
      BY <2>3 DEF Receives, At
    <2>5. assigned_to[t] = p
      BY <2>2, <2>4, <2>a DEF HoldersOwnTheirTasks, Holds
    <2>6. inbox[p] \in Seq(Commands)
      BY <2>a DEF TypeOK
    <2>7. Head(inbox[p]) = inbox[p][1] /\ Head(inbox[p]) \in Commands
      BY <2>4, <2>6
    <2>8. Head(inbox[p]).task = t
      <3>1. CASE cpc[p] = "gone"
        BY <3>1, <2>2, <2>4, <2>7, <2>a DEF Converses, LeftBehind
      <3>2. CASE cpc[p] # "gone"
        <4>1. inbox[p][1] = Command("RESULT", client_task[p])
          BY <3>2, <2>3, <2>a, ReceivedConverse
        <4> QED
          BY <4>1, <2>2, <2>7 DEF Command
      <3> QED
        BY <3>1, <3>2
    <2>9. Head(inbox[p]) = Command("RESULT", t)
      BY <2>4, <2>7, <2>8 DEF Commands, Command
    <2> QED
      BY <2>4, <2>5, <2>9
  <1> QED
    BY <1>1, Invariant, PTL DEF ResultsAreForTheirTask, Spec

-----------------------------------------------------------------------------
(* The table implements the board.                                         *)

\* What the board shows of a task.
BoardShows(t) ==
    /\ task_status[t] = 0 => Board[t] = "free"
    /\ task_status[t] = 2 => Board[t] = "done"
    /\ task_status[t] = 1 =>
         IF assigned_to[t] \in Pids /\ Holds(assigned_to[t], t)
         THEN Board[t] = assigned_to[t] ELSE Board[t] = "lost"

LEMMA BoardIs ==
    ASSUME TypeOK, TypeOK'
    PROVE  /\ Board = [t \in Tasks |-> Board[t]]
           /\ Board' = [t \in Tasks |-> Board'[t]]
           /\ \A t \in Tasks : task_status[t] \in {0, 1, 2} /\ task_status'[t] \in {0, 1, 2}
           /\ \A t \in Tasks : BoardShows(t) /\ BoardShows(t)'
  <1>1. Board = [t \in Tasks |-> Board[t]] /\ Board' = [t \in Tasks |-> Board'[t]]
    BY DEF Board
  <1>2. \A t \in Tasks : task_status[t] \in {0, 1, 2} /\ task_status'[t] \in {0, 1, 2}
    BY DEF TypeOK
  <1>3. ASSUME NEW t \in Tasks PROVE BoardShows(t)
    BY <1>2 DEF Board, BoardShows
  <1>4. ASSUME NEW t \in Tasks PROVE BoardShows(t)'
    <2>1. Board'[t] =
            CASE task_status'[t] = 0 -> "free"
              [] task_status'[t] = 2 -> "done"
              [] OTHER -> IF assigned_to'[t] \in Pids /\ Holds(assigned_to[t], t)'
                          THEN assigned_to'[t] ELSE "lost"
      BY DEF Board
    <2> QED
      BY <1>2, <2>1 DEF BoardShows
  <1> QED
    BY <1>1, <1>2, <1>3, <1>4

\* The board stays as it is where the table and the holders do.
LEMMA BoardStays ==
    ASSUME TypeOK, TypeOK', NEW t \in Tasks,
           task_status'[t] = task_status[t], assigned_to'[t] = assigned_to[t],
           \A q \in Pids : assigned_to[t] = q => (Holds(q, t)' <=> Holds(q, t))
    PROVE  Board'[t] = Board[t]
  <1>1. BoardShows(t) /\ BoardShows(t)' /\ task_status[t] \in {0, 1, 2}
    BY BoardIs
  <1>2. CASE task_status[t] = 1 /\ assigned_to[t] \in Pids
    <2>1. Holds(assigned_to[t], t)' <=> Holds(assigned_to[t], t)
      BY <1>2
    <2>2. Holds(assigned_to[t], t)' <=> (proc'[assigned_to'[t]] = "live" /\ client_task'[assigned_to'[t]] = t)
      BY DEF Holds
    <2> QED
      BY <1>1, <1>2, <2>1, <2>2 DEF BoardShows, Holds
  <1>3. CASE ~ (task_status[t] = 1 /\ assigned_to[t] \in Pids)
    BY <1>1, <1>3 DEF BoardShows
  <1> QED
    BY <1>2, <1>3

LEMMA BoardUnchanged ==
    ASSUME TypeOK, TypeOK', UNCHANGED tableVars,
           \A q \in Pids, t \in Tasks : Holds(q, t)' <=> Holds(q, t)
    PROVE  UNCHANGED Board
  <1>1. \A t \in Tasks : Board'[t] = Board[t]
    BY BoardStays DEF tableVars
  <1> QED
    BY <1>1, BoardIs

\* Of a handler that goes on or dies, the board shows at most the loss.
LEMMA BoardOfDeath ==
    ASSUME TypeOK, TypeOK', HoldersOwnTheirTasks, NEW p \in Pids,
           UNCHANGED <<tableVars, client_task>>, proc[p] = "live",
           \A q \in Pids \ {p} : proc'[q] = proc[q]
    PROVE  [Abstract!Next]_Board
  <1>1. CASE proc'[p] = "live" \/ client_task[p] \notin Tasks
    <2>1. \A q \in Pids, t \in Tasks : Holds(q, t)' <=> Holds(q, t)
      BY <1>1 DEF Holds
    <2> QED
      BY <2>1, BoardUnchanged
  <1>2. CASE proc'[p] # "live" /\ client_task[p] \in Tasks
    <2> DEFINE t == client_task[p]
    <2>1. task_status[t] = 1 /\ assigned_to[t] = p
      BY <1>2 DEF HoldersOwnTheirTasks, Holds
    <2>2. Board[t] = p
      BY <1>2, <2>1, BoardIs DEF BoardShows, Holds
    <2>3. Board'[t] = "lost"
      <3>1. task_status'[t] = 1 /\ assigned_to'[t] = p /\ ~ Holds(p, t)'
        BY <1>2, <2>1 DEF tableVars, Holds
      <3>2. BoardShows(t)'
        BY <1>2, BoardIs
      <3>3. Holds(assigned_to[t], t)' <=> Holds(p, t)'
        BY <3>1 DEF Holds
      <3> QED
        BY <3>1, <3>2, <3>3 DEF BoardShows
    <2>4. ASSUME NEW u \in Tasks, u # t PROVE Board'[u] = Board[u]
      <3>1. \A q \in Pids : Holds(q, u)' <=> Holds(q, u)
        BY <2>4 DEF Holds
      <3> QED
        BY <3>1, BoardStays DEF tableVars
    <2>5. Board' = [Board EXCEPT ![t] = "lost"]
      BY <2>3, <2>4, BoardIs
    <2>6. Abstract!Lose(p, t)
      BY <2>2, <2>5 DEF Abstract!Lose
    <2> QED
      BY <1>2, <2>6 DEF Abstract!Next
  <1> QED
    BY <1>1, <1>2

\* Lost tasks are taken back.
LEMMA BoardOfReassign ==
    ASSUME TypeOK, TypeOK', NEW p \in Pids, reaasign_lost_tasks(p)
    PROVE  Abstract!Next
  <1>1. /\ \A t \in LostTasks : task_status'[t] = 0
        /\ \A t \in Tasks \ LostTasks : task_status'[t] = task_status[t] /\ assigned_to'[t] = assigned_to[t]
        /\ UNCHANGED <<proc, client_task>>
    BY DEF reaasign_lost_tasks, LostTasks
  <1>2. LostTasks \in SUBSET Tasks
    BY DEF LostTasks
  <1>3. \A t \in LostTasks : Board[t] = "lost"
    <2> SUFFICES ASSUME NEW t \in LostTasks PROVE Board[t] = "lost"
      OBVIOUS
    <2>1. task_status[t] = 1 /\ ~ Holds(assigned_to[t], t)
      BY DEF LostTasks, DoesNotExist, Holds
    <2> QED
      BY <1>2, <2>1, BoardIs DEF BoardShows
  <1>4. \A t \in LostTasks : Board'[t] = "free"
    BY <1>1, <1>2, BoardIs DEF BoardShows
  <1>5. \A t \in Tasks \ LostTasks : Board'[t] = Board[t]
    BY <1>1, BoardStays DEF Holds
  <1>6. Board' = [t \in Tasks |-> IF t \in LostTasks THEN "free" ELSE Board[t]]
    BY <1>4, <1>5, BoardIs
  <1>7. Abstract!TakeBack(LostTasks)
    BY <1>3, <1>6 DEF Abstract!TakeBack
  <1> QED
    BY <1>2, <1>7 DEF Abstract!Next

\* The first available task is given to a worker that has none.
LEMMA BoardOfGive ==
    ASSUME TypeOK, TypeOK', NEW p \in Pids, NEW t \in Tasks, Converses(p), get_next_task(p, t)
    PROVE  Abstract!Next
  <1>1. /\ proc[p] = "live" /\ client_task[p] = NoTask /\ task_status[t] = 0
    BY DEF get_next_task, At, FirstAvailable, Converses
  <1>2. /\ task_status'[t] = 1 /\ assigned_to'[t] = p /\ client_task'[p] = t /\ UNCHANGED proc
        /\ \A u \in Tasks \ {t} : task_status'[u] = task_status[u] /\ assigned_to'[u] = assigned_to[u]
        /\ \A q \in Pids \ {p} : client_task'[q] = client_task[q]
    <2>1. /\ task_status' = [task_status EXCEPT ![t] = 1]
          /\ assigned_to' = [assigned_to EXCEPT ![t] = p]
          /\ client_task' = [client_task EXCEPT ![p] = t] /\ UNCHANGED proc
      BY DEF get_next_task
    <2>2. /\ task_status \in [Tasks -> {0, 1, 2}] /\ assigned_to \in [Tasks -> Pids \cup {NoPid}]
          /\ client_task \in [Pids -> Tasks \cup {NoTask}]
      BY DEF TypeOK
    <2> QED
      BY <2>1, <2>2
  <1>3. Board[t] = "free"
    BY <1>1, BoardIs DEF BoardShows
  <1>4. ~ Abstract!HasTask(p)
    <2> SUFFICES ASSUME NEW u \in Tasks, Board[u] = p PROVE FALSE
      BY DEF Abstract!HasTask
    <2>1. p \notin {"free", "done", "lost"}
      BY QueueAssumption
    <2>2. BoardShows(u) /\ task_status[u] \in {0, 1, 2}
      BY BoardIs
    <2>3. Holds(p, u)
      BY <2>1, <2>2 DEF BoardShows
    <2> QED
      BY <1>1, <2>3, NoTaskIsNone DEF Holds
  <1>5. Board'[t] = p
    <2>1. Holds(p, t)' /\ BoardShows(t)'
      BY <1>1, <1>2, BoardIs DEF Holds
    <2> QED
      BY <1>2, <2>1 DEF BoardShows, Holds
  <1>6. ASSUME NEW u \in Tasks, u # t PROVE Board'[u] = Board[u]
    <2>1. \A q \in Pids : Holds(q, u)' <=> Holds(q, u)
      <3>1. ~ Holds(p, u) /\ ~ Holds(p, u)'
        BY <1>1, <1>2, <1>6, NoTaskIsNone DEF Holds
      <3>2. \A q \in Pids \ {p} : Holds(q, u)' <=> Holds(q, u)
        BY <1>2 DEF Holds
      <3> QED
        BY <3>1, <3>2
    <2> QED
      BY <1>2, <1>6, <2>1, BoardStays
  <1>7. Board' = [Board EXCEPT ![t] = p]
    BY <1>5, <1>6, BoardIs
  <1>8. Abstract!Give(p, t)
    BY <1>3, <1>4, <1>7 DEF Abstract!Give
  <1> QED
    BY <1>8 DEF Abstract!Next

\* A result finishes the task of the worker, whether or not its receipt kills it.
LEMMA BoardOfResult ==
    ASSUME TypeOK, TypeOK', HoldersOwnTheirTasks, NEW p \in Pids, HandleResult(p)
    PROVE  [Abstract!Next]_Board
  <1>1. /\ proc[p] = "live" /\ client_task'[p] = NoTask /\ UNCHANGED assigned_to
        /\ \A q \in Pids \ {p} : client_task'[q] = client_task[q] /\ proc'[q] = proc[q]
    <2>1. \A answer : Sends(p, answer) => \A q \in Pids \ {p} : proc'[q] = proc[q]
      BY DEF Sends, TypeOK
    <2> QED
      BY <2>1, ZenonT(60) DEF HandleResult, Receives, At, TypeOK
  <1>2. \A q \in Pids, u \in Tasks : u # client_task[p] => (Holds(q, u)' <=> Holds(q, u))
    <2> SUFFICES ASSUME NEW q \in Pids, NEW u \in Tasks, u # client_task[p]
                 PROVE  Holds(q, u)' <=> Holds(q, u)
      OBVIOUS
    <2>1. CASE q = p
      BY <2>1, <1>1, NoTaskIsNone DEF Holds
    <2>2. CASE q # p
      BY <2>2, <1>1 DEF Holds
    <2> QED
      BY <2>1, <2>2
  <1>3. CASE client_task[p] = NoTask
    <2>1. UNCHANGED tableVars
      BY <1>1, <1>3 DEF HandleResult, tableVars
    <2> QED
      BY <2>1, <1>2, <1>3, NoTaskIsNone, BoardUnchanged
  <1>4. CASE client_task[p] # NoTask
    <2>1. PICK t \in Tasks : t = client_task[p]
      BY <1>4 DEF TypeOK
    <2>2. /\ task_status'[t] = 2
          /\ \A u \in Tasks \ {t} : task_status'[u] = task_status[u]
      BY <1>4, <2>1 DEF HandleResult, TypeOK
    <2>3. Board[t] = p
      <3>1. Holds(p, t) /\ task_status[t] = 1 /\ assigned_to[t] = p
        BY <1>1, <2>1 DEF HoldersOwnTheirTasks, Holds
      <3> QED
        BY <3>1, BoardIs DEF BoardShows
    <2>4. Board'[t] = "done"
      BY <2>2, BoardIs DEF BoardShows
    <2>5. \A u \in Tasks \ {t} : Board'[u] = Board[u]
      BY <1>1, <1>2, <2>1, <2>2, BoardStays
    <2>6. Board' = [Board EXCEPT ![t] = "done"]
      BY <2>4, <2>5, BoardIs
    <2>7. Abstract!Finish(p, t)
      BY <2>3, <2>6 DEF Abstract!Finish
    <2> QED
      BY <2>7 DEF Abstract!Next
  <1> QED
    BY <1>3, <1>4

LEMMA BoardStep ==
    ASSUME IInv, IInv', [Next]_vars
    PROVE  [Abstract!Next]_Board
  <1>a. TypeOK /\ TypeOK' /\ HoldersOwnTheirTasks /\ \A p \in Pids : Converses(p)
    BY DEF IInv
  <1>b. proc \in [Pids -> {"none", "live", "zombie"}] /\ client_task \in [Pids -> Tasks \cup {NoTask}]
    BY <1>a DEF TypeOK
  <1>c. ASSUME UNCHANGED <<tableVars, proc, client_task>> PROVE UNCHANGED Board
    BY <1>a, <1>c, BoardUnchanged DEF Holds
  <1>1. CASE UNCHANGED vars
    BY <1>1, <1>c DEF vars, handlerVars
  <1>2. CASE Reap
    <2>1. \A q \in Pids, t \in Tasks : Holds(q, t)' <=> Holds(q, t)
      BY <1>2, <1>b DEF Reap, Holds
    <2> QED
      BY <1>2, <2>1, <1>a, BoardUnchanged DEF Reap
  <1>3. ASSUME NEW p \in Pids, Accept(p) PROVE UNCHANGED Board
    <2>1. \A q \in Pids, t \in Tasks : Holds(q, t)' <=> Holds(q, t)
      BY <1>3, <1>b, NoTaskIsNone DEF Accept, Holds
    <2> QED
      BY <1>3, <2>1, <1>a, BoardUnchanged DEF Accept
  <1>4. ASSUME NEW p \in Pids, Handler(p) PROVE [Abstract!Next]_Board
    <2>a. proc[p] = "live"
      BY <1>4 DEF Handler, RefuseSecond, StartGetTask, reaasign_lost_tasks, get_next_task,
         NoTaskAvailable, AnswerGetTask, HandleResult, HandleExit, Disconnected, WaitInVain,
         GiveUp, Receives, At
    <2>b. \A answer : Sends(p, answer) => \A q \in Pids \ {p} : proc'[q] = proc[q]
      BY <1>b DEF Sends
    <2>c. Exits(p) => UNCHANGED <<tableVars, client_task>> /\ \A q \in Pids \ {p} : proc'[q] = proc[q]
      BY <1>b DEF Exits
    <2>1. CASE RefuseSecond(p)
      BY <2>1, <2>a, <2>b, <1>a, BoardOfDeath DEF RefuseSecond
    <2>2. CASE StartGetTask(p)
      BY <2>2, <1>c DEF StartGetTask
    <2>3. CASE reaasign_lost_tasks(p)
      BY <2>3, <1>a, BoardOfReassign
    <2>4. ASSUME NEW t \in Tasks, get_next_task(p, t) PROVE Abstract!Next
      BY <2>4, <1>a, BoardOfGive
    <2>5. CASE NoTaskAvailable(p)
      BY <2>5, <1>c DEF NoTaskAvailable
    <2>6. CASE AnswerGetTask(p)
      BY <2>6, <2>a, <2>b, <1>a, BoardOfDeath DEF AnswerGetTask
    <2>7. CASE HandleResult(p)
      BY <2>7, <1>a, BoardOfResult
    <2>8. CASE HandleExit(p)
      BY <2>8, <2>a, <2>c, <1>a, BoardOfDeath DEF HandleExit
    <2>9. CASE Disconnected(p)
      BY <2>9, <2>a, <2>c, <1>a, BoardOfDeath DEF Disconnected
    <2>10. CASE WaitInVain(p)
      BY <2>10, <1>c DEF WaitInVain
    <2>11. CASE GiveUp(p)
      BY <2>11, <2>a, <2>c, <1>a, BoardOfDeath DEF GiveUp
    <2> QED
      BY <1>4, <2>1, <2>2, <2>3, <2>4, <2>5, <2>6, <2>7, <2>8, <2>9, <2>10, <2>11 DEF Handler
  <1>5. ASSUME NEW p \in Pids, Client(p) PROVE UNCHANGED Board
    <2>1. UNCHANGED <<tableVars, handlerVars>>
      BY <1>5 DEF Client, Request, GotTask, GotNoTask, SendResult, GotReceipt, AskAgain, GotRefusal,
                  Leave, Vanish, GetsReply
    <2> QED
      BY <2>1, <1>c DEF handlerVars
  <1> QED
    BY <1>1, <1>2, <1>3, <1>4, <1>5 DEF Next

(* The shared table and its handlers implement the board (server.c,        *)
(* get_next_task and handle_client): every step is a step of the board or  *)
(* leaves it as it is.                                                     *)
THEOREM BoardImplemented == Spec => ImplementsBoard
  <1>1. Init => Abstract!Init
    BY DEF Init, Abstract!Init, Board
  <1>2. IInv /\ IInv' /\ [Next]_vars => [Abstract!Next]_Board
    BY BoardStep
  <1> QED
    BY <1>1, <1>2, Invariant, PTL DEF ImplementsBoard, Spec, Abstract!Spec
=============================================================================
