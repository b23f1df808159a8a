---------------------------- MODULE ProgressLoop ----------------------------
(***************************************************************************)
(* The progress page: the message loop of the GUI thread against the       *)
(* notifications of the task thread (frontend.py, progress_page.py and the *)
(* Frontend of winui/ui.py).                                               *)
(*                                                                         *)
(* WindowsFrontend.run_tasks starts the task thread and then shows the     *)
(* progress page, whose loop runs until somebody calls Frontend.stop.  The *)
(* task thread reports every change through ProgressPage.on_progress,      *)
(* which runs on the task thread: its calls to set_text and set_position   *)
(* are cross-thread SendMessages, so they block until the GUI thread is in *)
(* GetMessage or in a message box.  When the list is no longer ACTIVE,     *)
(* on_progress calls stop, which clears a flag and then posts a message.   *)
(* The user may press Cancel (a confirmation box follows) or close the     *)
(* window; both end in on_quit, which cancels the thread and waits for it  *)
(* three seconds without handling messages.                                *)
(*                                                                         *)
(* The task thread is reduced to what on_progress and run_tasks read: the  *)
(* root's status and error.  TaskList models the tree itself.  Windows (the*)
(* message queue, SendMessage, MessageBox) is modelled from its use here.  *)
(***************************************************************************)
EXTENDS Integers

CONSTANT MaxReports     \* bound: progress reports of a task thread

ASSUME ReportsAssumption == MaxReports \in Nat

VARIABLES
    gui,        \* where the GUI thread stands
    page,       \* the page that the current loop serves
    keepRunning,\* Frontend._keep_running
    posted,     \* WM_NULL messages in the GUI thread's queue
    task,       \* where the task thread stands
    after,      \* where it goes on after the notification it is in
    delivered,  \* the GUI thread has answered its SendMessage
    reports,    \* progress reports made so far
    status,     \* tasklist.status
    error,      \* tasklist.error is set
    broken,     \* history: a required task has raised
    clicked     \* history: the user has pressed Finish

taskVars == <<task, after, delivered, reports>>
listVars == <<status, error, broken>>
vars == <<gui, page, keepRunning, posted, taskVars, listVars, clicked>>

GuiPoints == {"setup", "show", "test", "get", "ask", "quit", "cancel", "join",
              "left", "failed", "exit"}
TaskPoints == {"unborn", "guard", "begin", "work", "raise", "unwind", "ended",
               "send", "check", "fill", "flag", "post"}

\* The root's thread is alive (Thread.isAlive).
isAlive == task \notin {"unborn", "ended"}

\* The GUI thread lets the messages of other threads through.
Pumping == gui \in {"get", "ask", "failed"}

Init ==
    /\ gui = "setup" /\ page = "progress"
    /\ keepRunning = FALSE /\ posted = 0
    /\ task = "unborn" /\ after = "ended" /\ delivered = FALSE /\ reports = 0
    /\ status = "INACTIVE" /\ error = FALSE /\ broken = FALSE
    /\ clicked = FALSE

-----------------------------------------------------------------------------
(* The task thread.  It dies with the process.                             *)

\* Task._notify_listeners: begin on_progress, and go on at p afterwards.
Notify(p) == task' = "send" /\ after' = p /\ delivered' = FALSE

\* Task.__call__ of the root: the guard, then status and first notification.
PassGuard ==
    /\ task = "guard"
    /\ task' = IF status = "INACTIVE" THEN "begin" ELSE "ended"
    /\ UNCHANGED <<after, delivered, reports, listVars>>

Begin ==
    /\ task = "begin"
    /\ status' = "ACTIVE"
    /\ Notify("work")
    /\ UNCHANGED <<reports, error, broken>>

\* A task starts, reports progress or finishes.
Report ==
    /\ task = "work" /\ reports < MaxReports
    /\ reports' = reports + 1
    /\ Notify("work")
    /\ UNCHANGED listVars

\* Mutant: the exception stays in the failed task, the root's error is not set.
Raise_OwnError ==
    /\ task = "work"
    /\ broken' = TRUE
    /\ task' = "raise"
    /\ UNCHANGED <<after, delivered, reports, status, error>>

\* A required function raises: the error is stored in the root, then the root
\* is cancelled (status and notification).
Raise ==
    /\ task = "work"
    /\ broken' = TRUE /\ error' = TRUE
    /\ task' = "raise"
    /\ UNCHANGED <<after, delivered, reports, status>>

CancelRoot ==
    /\ task = "raise"
    /\ status' = "CANCELLED"
    /\ Notify("unwind")
    /\ UNCHANGED <<reports, error, broken>>

\* The calls above the failed one return; each may notify once more.
Unwind ==
    /\ task = "unwind" /\ reports < MaxReports
    /\ reports' = reports + 1
    /\ Notify("unwind")
    /\ UNCHANGED listVars

\* Mutant: finish() without its test for COMPLETED, called once more.
FinishRoot_Twice ==
    /\ task \in {"work", "unwind"}
    /\ status' = "COMPLETED"
    /\ Notify("unwind")
    /\ UNCHANGED <<reports, error, broken>>

\* The root's last step: finish() unless it is COMPLETED, then the thread ends.
FinishRoot ==
    /\ task \in {"work", "unwind"}
    /\ status' = "COMPLETED"
    /\ Notify("ended")
    /\ UNCHANGED <<reports, error, broken>>

Work ==
    /\ gui # "exit"
    /\ PassGuard \/ Begin \/ Report \/ Raise \/ CancelRoot \/ Unwind \/ FinishRoot
    /\ UNCHANGED <<gui, page, keepRunning, posted, clicked>>

\* on_progress: the texts have been set once the GUI thread answered.
TextsSet ==
    /\ task = "send" /\ delivered
    /\ task' = "check"
    /\ UNCHANGED <<after, delivered, reports, listVars, keepRunning, posted>>

\* Mutant: every notification stops the loop.
CheckStatus_Always ==
    /\ task = "check"
    /\ task' = "fill" /\ delivered' = FALSE
    /\ UNCHANGED <<after, reports, listVars, keepRunning, posted>>

\* on_progress: stop only when the list is not active.
CheckStatus ==
    /\ task = "check"
    /\ IF status = "ACTIVE"
       THEN task' = after /\ UNCHANGED delivered
       ELSE task' = "fill" /\ delivered' = FALSE
    /\ UNCHANGED <<after, reports, listVars, keepRunning, posted>>

\* on_progress: the progress bar is set to 100, a SendMessage like the others.
BarFilled ==
    /\ task = "fill" /\ delivered
    /\ task' = "flag"
    /\ UNCHANGED <<after, delivered, reports, listVars, keepRunning, posted>>

\* Frontend.stop, called on the task thread: first the flag, then the message.
ClearFlag ==
    /\ task = "flag"
    /\ keepRunning' = FALSE
    /\ task' = "post"
    /\ UNCHANGED <<after, delivered, reports, listVars, posted>>

\* (Mutant: nothing is posted, and GetMessage keeps waiting.)
PostNull_Silent ==
    /\ task = "post"
    /\ task' = after
    /\ UNCHANGED <<after, delivered, reports, listVars, keepRunning, posted>>

PostNull ==
    /\ task = "post"
    /\ posted' = posted + 1
    /\ task' = after
    /\ UNCHANGED <<after, delivered, reports, listVars, keepRunning>>

OnProgress ==
    /\ gui # "exit"
    /\ TextsSet \/ CheckStatus \/ BarFilled \/ ClearFlag \/ PostNull
    /\ UNCHANGED <<gui, page, clicked>>

TaskThread == Work \/ OnProgress

-----------------------------------------------------------------------------
(* The GUI thread.                                                         *)

\* run_tasks: the callback is in place, the thread starts.
StartThread ==
    /\ gui = "setup"
    /\ gui' = "show" /\ task' = "guard"
    /\ UNCHANGED <<page, keepRunning, posted, after, delivered, reports, listVars, clicked>>

\* Frontend.run, entered from show_page.
EnterLoop ==
    /\ gui = "show"
    /\ keepRunning' = TRUE
    /\ gui' = "test"
    /\ UNCHANGED <<page, posted, taskVars, listVars, clicked>>

\* while self._keep_running and GetMessage(...)
TestFlag ==
    /\ gui = "test"
    /\ gui' = IF keepRunning THEN "get" ELSE "left"
    /\ UNCHANGED <<page, keepRunning, posted, taskVars, listVars, clicked>>

\* A cross-thread SendMessage is answered inside GetMessage or a message box.
Answer ==
    /\ Pumping
    /\ task \in {"send", "fill"} /\ ~delivered
    /\ delivered' = TRUE
    /\ UNCHANGED <<gui, page, keepRunning, posted, task, after, reports, listVars, clicked>>

\* GetMessage returns a posted WM_NULL; a message box takes and drops it.
TakePosted ==
    /\ gui \in {"get", "ask"} /\ posted > 0
    /\ posted' = posted - 1
    /\ gui' = IF gui = "get" THEN "test" ELSE gui
    /\ UNCHANGED <<page, keepRunning, taskVars, listVars, clicked>>

\* The user presses Cancel on the progress page and is asked to confirm.
PressCancel ==
    /\ gui = "get" /\ page = "progress"
    /\ gui' = "ask"
    /\ UNCHANGED <<page, keepRunning, posted, taskVars, listVars, clicked>>

AnswerNo ==
    /\ gui = "ask"
    /\ gui' = "test"
    /\ UNCHANGED <<page, keepRunning, posted, taskVars, listVars, clicked>>

\* Yes, or the window is closed: the main window is destroyed, on_quit runs.
Destroy ==
    /\ gui \in {"get", "ask"}
    /\ gui' = "quit"
    /\ UNCHANGED <<page, keepRunning, posted, taskVars, listVars, clicked>>

\* Finish on the last page: stop() on the GUI thread itself.
PressFinish ==
    /\ gui = "get" /\ page = "finish"
    /\ clicked' = TRUE
    /\ keepRunning' = FALSE /\ posted' = posted + 1
    /\ gui' = "test"
    /\ UNCHANGED <<page, taskVars, listVars>>

\* on_quit: a thread that is not alive needs no cancelling.
SeeAlive ==
    /\ gui = "quit"
    /\ gui' = IF isAlive THEN "cancel" ELSE "exit"
    /\ UNCHANGED <<page, keepRunning, posted, taskVars, listVars, clicked>>

\* on_quit: cancel() sets event and status and notifies; on_progress now runs
\* on the GUI thread, where nothing blocks, and calls stop().
Cancel ==
    /\ gui = "cancel"
    /\ status' = "CANCELLED"
    /\ keepRunning' = FALSE /\ posted' = posted + 1
    /\ gui' = "join"
    /\ UNCHANGED <<page, taskVars, error, broken, clicked>>

\* on_quit: join(3) ends with the thread or with its timeout.
Joined ==
    /\ gui = "join" /\ ~isAlive
    /\ gui' = "exit"
    /\ UNCHANGED <<page, keepRunning, posted, taskVars, listVars, clicked>>

\* (Mutant: join() without a timeout.)
JoinTimeout_Never == FALSE

JoinTimeout ==
    /\ gui = "join" /\ isAlive
    /\ gui' = "exit"
    /\ UNCHANGED <<page, keepRunning, posted, taskVars, listVars, clicked>>

\* run_tasks after the progress page: an error of the list is raised and shown
\* by application.run; otherwise the finish page gets a loop of its own.
LeaveProgress ==
    /\ gui = "left" /\ page = "progress"
    /\ IF error THEN gui' = "failed" /\ UNCHANGED page
                ELSE gui' = "show" /\ page' = "finish"
    /\ UNCHANGED <<keepRunning, posted, taskVars, listVars, clicked>>

\* application.quit after the finish page.
LeaveFinish ==
    /\ gui = "left" /\ page = "finish"
    /\ gui' = "quit"
    /\ UNCHANGED <<page, keepRunning, posted, taskVars, listVars, clicked>>

\* The error has been read; application.run returns and the program ends.
CloseError ==
    /\ gui = "failed"
    /\ gui' = "exit"
    /\ UNCHANGED <<page, keepRunning, posted, taskVars, listVars, clicked>>

GuiStep ==
    \/ StartThread \/ EnterLoop \/ TestFlag \/ Answer \/ TakePosted \/ SeeAlive
    \/ Cancel \/ Joined \/ JoinTimeout \/ LeaveProgress \/ LeaveFinish

User == PressCancel \/ AnswerNo \/ Destroy \/ PressFinish \/ CloseError

Exited == gui = "exit" /\ UNCHANGED vars

Next == TaskThread \/ GuiStep \/ User \/ Exited

Spec == Init /\ [][Next]_vars

\* Both threads are scheduled; the GUI thread answers a SendMessage and takes a
\* posted message whatever else reaches it, because GetMessage serves them in
\* this order before any input; a question is answered.
FairSpec ==
    /\ Spec
    /\ WF_vars(TaskThread) /\ WF_vars(GuiStep)
    /\ SF_vars(Answer) /\ SF_vars(TakePosted)
    /\ WF_vars(gui = "ask" /\ (AnswerNo \/ Destroy))

-----------------------------------------------------------------------------
TypeOK ==
    /\ gui \in GuiPoints
    /\ page \in {"progress", "finish"}
    /\ keepRunning \in BOOLEAN
    /\ posted \in Nat
    /\ task \in TaskPoints
    /\ after \in {"work", "unwind", "ended"}
    /\ delivered \in BOOLEAN
    /\ reports \in 0..MaxReports
    /\ status \in {"INACTIVE", "ACTIVE", "COMPLETED", "CANCELLED"}
    /\ {error, broken, clicked} \subseteq BOOLEAN

\* run_tasks returns only when the list is over: the loop of the progress page
\* is not left while tasks may still run, unless the program quits.
LeftWhenOver == gui = "left" => status \in {"COMPLETED", "CANCELLED"}

\* The finish page ("installation complete") is never shown after a required
\* task has failed: the error is in place before the loop can end.
NoFinishAfterFailure == page = "finish" => ~broken

\* A stop() of the task thread that comes late never closes the finish page:
\* only the user leaves it.
FinishIsUsers == gui = "left" /\ page = "finish" => clicked

\* When the list is over, the progress page gives way: a stop() is not lost,
\* although run() sets the flag that stop() clears.
ProgressEnds == task = "ended" ~> page = "finish" \/ gui \in {"failed", "exit"}

\* Quitting ends, also when the task thread hangs in a SendMessage to the
\* thread that waits for it.
QuitEnds == gui = "quit" ~> gui = "exit"
=============================================================================
