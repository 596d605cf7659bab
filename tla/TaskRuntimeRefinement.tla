----------------------- MODULE TaskRuntimeRefinement -----------------------
(***************************************************************************)
(* The task runtime implements TaskTree: an execution is born when it is   *)
(* spawned, is asked to stop when its AbortSignal fires and has an outcome *)
(* when its promise resolved.                                              *)
(***************************************************************************)
EXTENDS TaskRuntime

\* The outcome object that #drive resolves the promise with.
OutcomeOf(e) ==
    CASE ~Settled(e) -> "pending"
      [] Settled(e) /\ fail[e] = "none" -> "produced"
      [] Settled(e) /\ fail[e] = "cancel" -> "cancelled"
      [] OTHER -> "defected"

Tree == INSTANCE TaskTree WITH
    born <- {e \in Exec : Born(e)},
    asked <- aborted,
    outcome <- [e \in Exec |-> OutcomeOf(e)]

\* Every behaviour of the runtime is one TaskTree allows.
ImplementsTaskTree == Tree!Spec
=============================================================================
