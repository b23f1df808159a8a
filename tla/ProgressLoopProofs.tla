------------------------- MODULE ProgressLoopProofs -------------------------
(***************************************************************************)
(* The safety properties of the progress page, for any number of reports.  *)
(* Not one of them is inductive: what keeps a late stop() away from the    *)
(* finish page is that a list without an error stops a loop only once, in  *)
(* its very last notification.                                             *)
(***************************************************************************)
EXTENDS ProgressLoop, TLAPS

\* The list has come to its end, one way or the other.
Over == status \in {"COMPLETED", "CANCELLED"}

\* The last notification has cleared the flag of the loop.
LastFlagCleared == task = "ended" \/ (task = "post" /\ after = "ended")

\* The program has not cancelled the list to quit.
NotQuitting == gui \notin {"join", "exit"}

InLoop == gui \in {"test", "get", "ask", "left"}

\* What the task thread has done, by where it stands.
ListAgrees ==
    /\ broken => error
    /\ task = "raise" => error
    /\ status = "INACTIVE" => task \in {"unborn", "guard", "begin"}
    /\ task \in {"fill", "flag", "post"} => Over
    /\ task \in {"send", "check"} /\ after = "ended" => Over
    /\ NotQuitting =>
        /\ task \in {"unborn", "guard", "begin"} => status = "INACTIVE"
        /\ status = "COMPLETED" =>
            /\ after = "ended"
            /\ task \in {"send", "check", "fill", "flag", "post", "ended"}
        /\ status = "CANCELLED" => error
        /\ task = "ended" => Over

\* A loop that was told to end serves a list that is over.
LoopAgrees ==
    /\ (gui = "setup") <=> (task = "unborn")
    /\ gui = "setup" => page = "progress"
    /\ gui = "left" => ~keepRunning
    /\ InLoop /\ ~keepRunning /\ page = "progress" =>
           Over /\ (error \/ LastFlagCleared)

\* The finish page comes after the last flag was cleared.
FinishAgrees ==
    page = "finish" =>
        /\ ~error /\ Over /\ LastFlagCleared
        /\ InLoop /\ ~keepRunning => clicked

IInv == TypeOK /\ ListAgrees /\ LoopAgrees /\ FinishAgrees

-----------------------------------------------------------------------------
LEMMA Initial == Init => IInv
<1>. SUFFICES ASSUME Init PROVE IInv
  OBVIOUS
<1>1. reports \in 0..MaxReports /\ posted \in Nat
  BY ReportsAssumption DEF Init
<1>2. TypeOK
  BY <1>1 DEF Init, TypeOK, GuiPoints, TaskPoints
<1>. QED
  BY <1>2 DEF Init, IInv, ListAgrees, LoopAgrees, FinishAgrees, Over, LastFlagCleared,
              NotQuitting, InLoop

(* The task thread outside its notifications.                              *)
LEMMA WorkStep ==
  ASSUME IInv, Work
  PROVE  IInv'
<1>. USE DEF IInv, TypeOK, GuiPoints, TaskPoints, ListAgrees, LoopAgrees, FinishAgrees,
            Over, LastFlagCleared, NotQuitting, InLoop
<1>1. CASE gui # "exit" /\ PassGuard /\ UNCHANGED <<gui, page, keepRunning, posted, clicked>>
  BY <1>1, ReportsAssumption DEF PassGuard, listVars
<1>2. CASE gui # "exit" /\ Begin /\ UNCHANGED <<gui, page, keepRunning, posted, clicked>>
  BY <1>2, ReportsAssumption DEF Begin, Notify, listVars
<1>3. CASE gui # "exit" /\ Report /\ UNCHANGED <<gui, page, keepRunning, posted, clicked>>
  <2>1. reports' \in 0..MaxReports  BY <1>3, ReportsAssumption DEF Report, Notify, listVars
  <2>2. TypeOK'  BY <2>1, <1>3 DEF Report, Notify, listVars
  <2>3. ListAgrees' /\ LoopAgrees' /\ FinishAgrees'  BY <1>3 DEF Report, Notify, listVars
  <2>. QED  BY <2>2, <2>3
<1>4. CASE gui # "exit" /\ Raise /\ UNCHANGED <<gui, page, keepRunning, posted, clicked>>
  BY <1>4, ReportsAssumption DEF Raise, listVars
<1>5. CASE gui # "exit" /\ CancelRoot /\ UNCHANGED <<gui, page, keepRunning, posted, clicked>>
  BY <1>5, ReportsAssumption DEF CancelRoot, Notify, listVars
<1>6. CASE gui # "exit" /\ Unwind /\ UNCHANGED <<gui, page, keepRunning, posted, clicked>>
  <2>1. reports' \in 0..MaxReports  BY <1>6, ReportsAssumption DEF Unwind, Notify, listVars
  <2>2. TypeOK'  BY <2>1, <1>6 DEF Unwind, Notify, listVars
  <2>3. ListAgrees' /\ LoopAgrees' /\ FinishAgrees'  BY <1>6 DEF Unwind, Notify, listVars
  <2>. QED  BY <2>2, <2>3
<1>7. CASE gui # "exit" /\ FinishRoot /\ UNCHANGED <<gui, page, keepRunning, posted, clicked>>
  BY <1>7, ReportsAssumption DEF FinishRoot, Notify, listVars
<1>. QED
  BY <1>1, <1>2, <1>3, <1>4, <1>5, <1>6, <1>7 DEF Work

(* Its notifications, stop() among them.                                   *)
LEMMA OnProgressStep ==
  ASSUME IInv, OnProgress
  PROVE  IInv'
<1>. USE DEF IInv, TypeOK, GuiPoints, TaskPoints, ListAgrees, LoopAgrees, FinishAgrees,
            Over, LastFlagCleared, NotQuitting, InLoop
<1>1. CASE gui # "exit" /\ TextsSet /\ UNCHANGED <<gui, page, clicked>>
  BY <1>1 DEF TextsSet, listVars
<1>2. CASE gui # "exit" /\ CheckStatus /\ UNCHANGED <<gui, page, clicked>>
  BY <1>2 DEF CheckStatus, listVars
<1>3. CASE gui # "exit" /\ BarFilled /\ UNCHANGED <<gui, page, clicked>>
  BY <1>3 DEF BarFilled, listVars
<1>4. CASE gui # "exit" /\ ClearFlag /\ UNCHANGED <<gui, page, clicked>>
  BY <1>4 DEF ClearFlag, listVars
<1>5. CASE gui # "exit" /\ PostNull /\ UNCHANGED <<gui, page, clicked>>
  BY <1>5 DEF PostNull, listVars
<1>. QED
  BY <1>1, <1>2, <1>3, <1>4, <1>5 DEF OnProgress

(* The GUI thread by itself.                                               *)
LEMMA GuiThreadStep ==
  ASSUME IInv, GuiStep
  PROVE  IInv'
<1>. USE DEF IInv, TypeOK, GuiPoints, TaskPoints, ListAgrees, LoopAgrees, FinishAgrees,
            Over, LastFlagCleared, NotQuitting, InLoop
<1>1. CASE StartThread
  BY <1>1 DEF StartThread, taskVars, listVars
<1>2. CASE EnterLoop
  BY <1>2 DEF EnterLoop, taskVars, listVars
<1>3. CASE TestFlag
  BY <1>3 DEF TestFlag, taskVars, listVars
<1>4. CASE Answer
  BY <1>4 DEF Answer, Pumping, taskVars, listVars
<1>5. CASE TakePosted
  BY <1>5 DEF TakePosted, taskVars, listVars
<1>6. CASE SeeAlive
  BY <1>6 DEF SeeAlive, isAlive, taskVars, listVars
<1>7. CASE Cancel
  <2>1. posted' \in Nat  BY <1>7 DEF Cancel, taskVars, listVars
  <2>2. TypeOK'  BY <2>1, <1>7 DEF Cancel, taskVars, listVars
  <2>3. ListAgrees' /\ LoopAgrees' /\ FinishAgrees'  BY <1>7 DEF Cancel, taskVars, listVars
  <2>. QED  BY <2>2, <2>3
<1>8. CASE Joined
  BY <1>8 DEF Joined, isAlive, taskVars, listVars
<1>9. CASE JoinTimeout
  BY <1>9 DEF JoinTimeout, isAlive, taskVars, listVars
<1>10. CASE LeaveProgress
  BY <1>10 DEF LeaveProgress, taskVars, listVars
<1>11. CASE LeaveFinish
  BY <1>11 DEF LeaveFinish, taskVars, listVars
<1>. QED
  BY <1>1, <1>2, <1>3, <1>4, <1>5, <1>6, <1>7, <1>8, <1>9, <1>10, <1>11 DEF GuiStep

(* The user.                                                               *)
LEMMA UserStep ==
  ASSUME IInv, User
  PROVE  IInv'
<1>. USE DEF IInv, TypeOK, GuiPoints, TaskPoints, ListAgrees, LoopAgrees, FinishAgrees,
            Over, LastFlagCleared, NotQuitting, InLoop
<1>1. CASE PressCancel
  BY <1>1 DEF PressCancel, taskVars, listVars
<1>2. CASE AnswerNo
  BY <1>2 DEF AnswerNo, taskVars, listVars
<1>3. CASE Destroy
  BY <1>3 DEF Destroy, taskVars, listVars
<1>4. CASE PressFinish
  <2>1. posted' \in Nat  BY <1>4 DEF PressFinish, taskVars, listVars
  <2>2. TypeOK'  BY <2>1, <1>4 DEF PressFinish, taskVars, listVars
  <2>3. ListAgrees' /\ LoopAgrees' /\ FinishAgrees'  BY <1>4 DEF PressFinish, taskVars, listVars
  <2>. QED  BY <2>2, <2>3
<1>5. CASE CloseError
  BY <1>5 DEF CloseError, taskVars, listVars
<1>. QED
  BY <1>1, <1>2, <1>3, <1>4, <1>5 DEF User

LEMMA Inductive == IInv /\ [Next]_vars => IInv'
<1>. SUFFICES ASSUME IInv, [Next]_vars PROVE IInv'
  OBVIOUS
<1>1. CASE UNCHANGED vars
  BY <1>1 DEF IInv, TypeOK, ListAgrees, LoopAgrees, FinishAgrees, Over, LastFlagCleared,
              NotQuitting, InLoop, vars, taskVars, listVars
<1>. QED
  BY <1>1, WorkStep, OnProgressStep, GuiThreadStep, UserStep DEF Next, TaskThread, Exited

-----------------------------------------------------------------------------
(* The inductive invariant, and with it the type invariant.                *)
THEOREM Invariance == Spec => [](TypeOK /\ IInv)
<1>1. IInv => TypeOK /\ IInv  BY DEF IInv
<1>. QED  BY <1>1, Initial, Inductive, PTL DEF Spec

(* run_tasks leaves the loop of the progress page only when the list is    *)
(* over.                                                                   *)
THEOREM LoopLeftWhenOver == Spec => []LeftWhenOver
<1>1. IInv => LeftWhenOver
  BY DEF IInv, TypeOK, LoopAgrees, FinishAgrees, LeftWhenOver, InLoop, Over
<1>. QED  BY <1>1, Initial, Inductive, PTL DEF Spec

(* After a required task has failed the finish page never shows.           *)
THEOREM FailureIsSeen == Spec => []NoFinishAfterFailure
<1>1. IInv => NoFinishAfterFailure
  BY DEF IInv, ListAgrees, FinishAgrees, NoFinishAfterFailure
<1>. QED  BY <1>1, Initial, Inductive, PTL DEF Spec

(* No stop() of the task thread closes the finish page.                    *)
THEOREM FinishPageIsUsers == Spec => []FinishIsUsers
<1>1. IInv => FinishIsUsers
  BY DEF IInv, LoopAgrees, FinishAgrees, FinishIsUsers, InLoop
<1>. QED  BY <1>1, Initial, Inductive, PTL DEF Spec
=============================================================================
