----------------------------- MODULE TaskBoard -----------------------------
(* What the task queue of Assignment 5 promises: a task is given to one    *)
(* worker at a time, and stays with it until it is done or the worker is   *)
(* lost; a lost task can be given again, and a task that is done stays so. *)
EXTENDS Naturals

CONSTANTS Tasks, Workers

VARIABLE board   \* per task: "free", "lost", "done", or the worker that has it

Init == board = [t \in Tasks |-> "free"]

HasTask(w) == \E t \in Tasks : board[t] = w

Give(w, t) ==
    /\ board[t] = "free"
    /\ ~HasTask(w)
    /\ board' = [board EXCEPT ![t] = w]

Finish(w, t) ==
    /\ board[t] = w
    /\ board' = [board EXCEPT ![t] = "done"]

Lose(w, t) ==
    /\ board[t] = w
    /\ board' = [board EXCEPT ![t] = "lost"]

TakeBack(given) ==
    /\ \A t \in given : board[t] = "lost"
    /\ board' = [t \in Tasks |-> IF t \in given THEN "free" ELSE board[t]]

Next ==
    \/ \E w \in Workers, t \in Tasks : Give(w, t) \/ Finish(w, t) \/ Lose(w, t)
    \/ \E given \in SUBSET Tasks : TakeBack(given)

Spec == Init /\ [][Next]_board
=============================================================================
