----------------------------- MODULE ParallelFor -----------------------------
(***************************************************************************)
(* What ThreadPool::parallelFor promises its callers, without a word about  *)
(* threads: fn is applied to each index at most once, never before the call *)
(* and never after its return; a call that succeeds has applied fn to every *)
(* index, and it fails only if fn has thrown or no thread could be had.     *)
(***************************************************************************)
EXTENDS Integers

CONSTANTS
    Callers,    \* threads that call parallelFor
    Counts      \* numbers of indices they ask for

VARIABLES
    busy,       \* busy[c]: c is inside parallelFor
    todo,       \* todo[c]: the indices fn has not been applied to
    exec,       \* exec[c]: the indices fn is being applied to
    threw,      \* threw[c]: an application of fn has thrown
    outcome     \* outcome[c]: how the last call of c has ended

vars == <<busy, todo, exec, threw, outcome>>

Init ==
    /\ busy = [c \in Callers |-> FALSE]
    /\ todo = [c \in Callers |-> {}]
    /\ exec = [c \in Callers |-> {}]
    /\ threw = [c \in Callers |-> FALSE]
    /\ outcome = [c \in Callers |-> "none"]

Call(c, n) ==
    /\ ~busy[c]
    /\ busy' = [busy EXCEPT ![c] = TRUE]
    /\ todo' = [todo EXCEPT ![c] = 0..(n - 1)]
    /\ outcome' = [outcome EXCEPT ![c] = "none"]
    /\ UNCHANGED <<exec, threw>>

Begin(c, i) ==
    /\ busy[c]
    /\ todo' = [todo EXCEPT ![c] = @ \ {i}]
    /\ exec' = [exec EXCEPT ![c] = @ \cup {i}]
    /\ UNCHANGED <<busy, threw, outcome>>

End(c, i, throws) ==
    /\ exec' = [exec EXCEPT ![c] = @ \ {i}]
    /\ threw' = [threw EXCEPT ![c] = @ \/ throws]
    /\ UNCHANGED <<busy, todo, outcome>>

\* A call returns when nothing is being executed for it any more: with everything
\* done, or with the exception (the serial loop leaves the rest undone).
Return(c) ==
    /\ busy[c]
    /\ exec[c] = {}
    /\ \/ threw[c] /\ outcome' = [outcome EXCEPT ![c] = "failed"]
       \/ ~threw[c] /\ todo[c] = {} /\ outcome' = [outcome EXCEPT ![c] = "ok"]
    /\ busy' = [busy EXCEPT ![c] = FALSE]
    /\ todo' = [todo EXCEPT ![c] = {}]
    /\ threw' = [threw EXCEPT ![c] = FALSE]
    /\ UNCHANGED exec

\* No thread could be created: fn has not been applied at all.
Refuse(c) ==
    /\ busy[c]
    /\ exec[c] = {} /\ ~threw[c]
    /\ \E n \in Counts : todo[c] = 0..(n - 1)
    /\ outcome' = [outcome EXCEPT ![c] = "failed"]
    /\ busy' = [busy EXCEPT ![c] = FALSE]
    /\ todo' = [todo EXCEPT ![c] = {}]
    /\ UNCHANGED <<exec, threw>>

Next ==
    \E c \in Callers :
        \/ \E n \in Counts : Call(c, n)
        \/ \E i \in todo[c] : Begin(c, i)
        \/ \E i \in exec[c], throws \in BOOLEAN : End(c, i, throws)
        \/ Return(c)
        \/ Refuse(c)

Spec == Init /\ [][Next]_vars
=============================================================================
