---------------------------- MODULE MCThreadPool ----------------------------
(***************************************************************************)
(* ThreadPool for TLC: one caller with calls of every kind, and another one *)
(* that competes for the pool with a small job.                             *)
(***************************************************************************)
EXTENDS ThreadPool

CONSTANTS c1, c2

MCRequests ==
    [c \in Callers |-> IF c = c1 THEN {<<2, 1>>, <<3, 2>>, <<4, 4>>} ELSE {<<2, 2>>}]
=============================================================================
