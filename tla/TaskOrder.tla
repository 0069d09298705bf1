------------------------------ MODULE TaskOrder ------------------------------
(***************************************************************************)
(* What the agents may count on of the executions that invoke them: the    *)
(* order of their tasks, and how often one is invoked.                     *)
(*                                                                         *)
(* A build follows a generation and a validation a build; generation and   *)
(* build, not validation, are retried, TASK_RETRY times at most each time  *)
(* they are reached; a retry of the whole begins out of validation.        *)
(***************************************************************************)
EXTENDS Naturals

CONSTANTS Exec, TASK_RETRY

VARIABLE task   \* what each execution is at, and the retries of that

Nothing == [at |-> "none", tries |-> 0]

Init == task = [e \in Exec |-> Nothing]

Enter(e, at) == task' = [task EXCEPT ![e] = [at |-> at, tries |-> 0]]

Begin(e) == task[e].at \in {"none", "validation"} /\ Enter(e, "generation")

Generated(e) == task[e].at = "generation" /\ Enter(e, "build")

Built(e) == task[e].at = "build" /\ Enter(e, "validation")

Retry(e) ==
    /\ task[e].at \in {"generation", "build"}
    /\ task[e].tries < TASK_RETRY
    /\ task' = [task EXCEPT ![e].tries = @ + 1]

End(e) == Enter(e, "none")

Next ==
    \E e \in Exec : Begin(e) \/ Generated(e) \/ Built(e) \/ Retry(e) \/ End(e)

Spec == Init /\ [][Next]_task
=============================================================================
