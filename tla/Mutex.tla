------------------------------- MODULE Mutex -------------------------------
(***************************************************************************)
(* What a caller of utils.file_lock_context relies on: the body of the     *)
(* with statement runs in at most one process at a time.  A process leaves *)
(* by finishing the body, by an exception, or by dying.                    *)
(***************************************************************************)
CONSTANT Procs

VARIABLE inside      \* the processes that execute the body of the with statement

Init == inside = {}

Enter(p) ==
    /\ inside = {}
    /\ inside' = {p}

Leave(p) ==
    /\ p \in inside
    /\ inside' = inside \ {p}

Next == \E p \in Procs : Enter(p) \/ Leave(p)

Spec == Init /\ [][Next]_inside
=============================================================================
