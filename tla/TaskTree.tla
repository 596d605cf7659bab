------------------------------ MODULE TaskTree ------------------------------
(***************************************************************************)
(* What the task runtime promises of a tree of executions, whatever their  *)
(* bodies do and however promise reactions interleave: an outcome is final,*)
(* cancellation reaches the running children together with their parent,   *)
(* an execution that was asked to stop produces nothing, and an execution  *)
(* that fails outlives the executions it spawned.                          *)
(***************************************************************************)
EXTENDS Naturals

CONSTANT MaxExec
Exec == 1 .. MaxExec

VARIABLES born, parent, asked, outcome
vars == <<born, parent, asked, outcome>>

Pending(e) == e \in born /\ outcome[e] = "pending"
Children(e) == {k \in born : parent[k] = e}

Init ==
    /\ born = {}
    /\ parent = [e \in Exec |-> 0]
    /\ asked = {}
    /\ outcome = [e \in Exec |-> "pending"]

\* The root execution starts and drives main's task.
Begin ==
    /\ born = {}
    /\ born' = {1, 2}
    /\ parent' = [parent EXCEPT ![2] = 1]
    /\ UNCHANGED <<asked, outcome>>

Spawn(e, k) ==
    /\ Pending(e)
    /\ k \notin born
    /\ born' = born \cup {k}
    /\ parent' = [parent EXCEPT ![k] = e]
    /\ UNCHANGED <<asked, outcome>>

\* Some executions are asked to stop, each with its running children.
Ask(S) ==
    /\ S # {}
    /\ S \cap asked = {}
    /\ \A e \in S : Pending(e) /\ \A k \in Children(e) : Pending(k) => k \in S \cup asked
    /\ asked' = asked \cup S
    /\ UNCHANGED <<born, parent, outcome>>

Settle(e, result) ==
    /\ Pending(e)
    /\ result = "produced" => e \notin asked
    /\ result # "produced" => \A k \in Children(e) : ~Pending(k)
    /\ result = "cancelled" => e \in asked \/ \E h \in born : outcome[h] = "cancelled"
    /\ outcome' = [outcome EXCEPT ![e] = result]
    /\ UNCHANGED <<born, parent, asked>>

Next ==
    \/ Begin
    \/ \E e, k \in Exec : Spawn(e, k)
    \/ \E S \in SUBSET Exec : Ask(S)
    \/ \E e \in Exec, result \in {"produced", "cancelled", "defected"} : Settle(e, result)

Spec == Init /\ [][Next]_vars
=============================================================================
