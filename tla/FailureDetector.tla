-------------------------- MODULE FailureDetector --------------------------
(* What the server list of a CLDP client (Assignment 7) promises: a server *)
(* gets on it only while it runs or shortly after, and one that stopped    *)
(* Detection seconds ago has left it.                                      *)
EXTENDS Naturals

CONSTANTS Servers, Grace, Detection

VARIABLES
    listed,    \* the servers on the list
    up,        \* per server: it runs
    downFor    \* per server: for how many seconds it has been down

vars == <<listed, up, downFor>>

Init ==
    /\ listed = {}
    /\ up = [s \in Servers |-> FALSE]
    /\ downFor = [s \in Servers |-> Detection + 1]

Start(s) ==
    /\ ~ up[s]
    /\ up' = [up EXCEPT ![s] = TRUE]
    /\ downFor' = [downFor EXCEPT ![s] = 0]
    /\ UNCHANGED listed

Stop(s) ==
    /\ up[s]
    /\ up' = [up EXCEPT ![s] = FALSE]
    /\ UNCHANGED <<listed, downFor>>

Learn(s) ==
    /\ downFor[s] <= Grace
    /\ listed' = listed \cup {s}
    /\ UNCHANGED <<up, downFor>>

Forget(gone) ==
    /\ listed' = listed \ gone
    /\ UNCHANGED <<up, downFor>>

\* Seconds are counted up to Detection + 1.
AfterASecond == [s \in Servers |-> IF up[s] \/ downFor[s] > Detection THEN downFor[s]
                                   ELSE downFor[s] + 1]

\* A second passes.
Tick ==
    /\ downFor' = AfterASecond
    /\ \A s \in listed : AfterASecond[s] <= Detection
    /\ UNCHANGED <<listed, up>>

Next ==
    \/ \E s \in Servers : Start(s) \/ Stop(s) \/ Learn(s)
    \/ \E gone \in SUBSET Servers : Forget(gone)
    \/ Tick

Spec == Init /\ [][Next]_vars
=============================================================================
