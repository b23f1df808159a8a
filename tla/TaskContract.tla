---------------------------- MODULE TaskContract ----------------------------
(***************************************************************************)
(* What a task list promises to the code that starts it, without its tree: *)
(* each function begins at most once, a halt is never taken back, a        *)
(* required failure is a halt and lets nothing begin after it, and a list  *)
(* that ends without a halt has begun its whole plan.  The promise says    *)
(* nothing on how soon a halt takes effect: see LateStartBound of TaskList.*)
(***************************************************************************)
CONSTANTS
    Tasks,      \* the tasks that may begin
    Planned     \* those that an undisturbed run begins

VARIABLES
    begun,      \* tasks whose function has begun
    halted,     \* cancellation has been requested
    failed,     \* a required function has failed
    ended       \* the list has returned

vars == <<begun, halted, failed, ended>>

Init ==
    /\ begun = {}
    /\ halted = FALSE
    /\ failed = FALSE
    /\ ended = FALSE

Begin(t) ==
    /\ ~ended /\ ~failed /\ t \notin begun
    /\ begun' = begun \cup {t}
    /\ UNCHANGED <<halted, failed, ended>>

Halt ==
    /\ halted' = TRUE
    /\ UNCHANGED <<begun, failed, ended>>

Fail ==
    /\ ~ended /\ begun # {}
    /\ failed' = TRUE /\ halted' = TRUE
    /\ UNCHANGED <<begun, ended>>

End ==
    /\ ~halted => Planned \subseteq begun
    /\ ended' = TRUE
    /\ UNCHANGED <<begun, halted, failed>>

Next == (\E t \in Tasks : Begin(t)) \/ Halt \/ Fail \/ End

Spec == Init /\ [][Next]_vars
=============================================================================
