------------------------------ MODULE TaskList ------------------------------
(***************************************************************************)
(* The task tree of wubi/backends/common/tasklist.py: class Task, its root *)
(* ThreadedTaskList and the two threads that touch it.                     *)
(*                                                                         *)
(* The worker thread executes Task.__call__ of the root.  A call runs the  *)
(* associated function, then the subtasks in list order, then finish().    *)
(* The function may itself add subtasks, call them, report progress (which *)
(* runs the subtasks and finishes the task when the progress reaches the   *)
(* task's size) and raise.  A task is on the call stack at most once, so   *)
(* the stack is kept as one control point per task (pc), the position of   *)
(* its loop over the subtasks (next) and the innermost call (top); the     *)
(* caller of a task is its parent.                                         *)
(*                                                                         *)
(* The GUI thread calls ThreadedTaskList.cancel() once, after having seen  *)
(* the thread alive (frontend.py:on_quit).  Its three steps and the steps  *)
(* of the worker interleave.                                               *)
(*                                                                         *)
(* Left out: names, descriptions, weights, sizes, speed and time estimates *)
(* (they are only displayed), and the listener callback (ProgressLoop      *)
(* models it).  `completed' matters only by its comparison with `size', so *)
(* a progress report is "short of the size" or "reaches the size".         *)
(***************************************************************************)
EXTENDS Naturals, Sequences, FiniteSets

CONSTANTS
    Tasks,      \* every Task object the run may create, the root included
    Root,       \* the ThreadedTaskList
    Plan,       \* the tasks given to the constructor, in order
    Required,   \* tasks with is_required
    None        \* Python's None

PlanSet == {Plan[i] : i \in 1..Len(Plan)}

ASSUME TasksAssumption ==
    /\ Root \in Tasks
    /\ None \notin Tasks
    /\ Plan \in Seq(Tasks \ {Root})
    /\ \A i, j \in 1..Len(Plan) : Plan[i] = Plan[j] => i = j
    /\ Required \subseteq Tasks

VARIABLES
    status,     \* Task.status
    parent,     \* Task.parent
    subtasks,   \* Task.subtasks
    error,      \* the root's error: the task whose exception it holds
    stopped,    \* ThreadedTaskList._stopped_event
    top,        \* the innermost active call of the worker thread
    pc,         \* where the call of each task stands
    next,       \* position of _run_subtasks in the list of each task
    told,       \* tasks whose function got True from set_progress
    gui,        \* where the GUI thread stands in on_quit
    starts,     \* history: how often each function was started
    overwrote,  \* history: the status that the GUI's cancel() replaced
    late        \* history: functions started after cancel() had returned

treeVars == <<parent, subtasks>>
guiVars  == <<gui, overwrote>>
vars == <<status, parent, subtasks, error, stopped, top, pc, next, told,
          gui, starts, overwrote, late>>

Status == {"INACTIVE", "ACTIVE", "COMPLETED", "FAILED", "CANCELLED"}

\* A call is "out" before it is made, "entered" once its guard has passed,
\* in the "function", in _run_subtasks called by set_progress ("progress")
\* or by __call__ ("subtasks"), or has "returned".
Points == {"out", "entered", "function", "progress", "subtasks", "returned"}

-----------------------------------------------------------------------------
\* The task and all its ancestors: the least set with t that is closed under
\* parent.
Lineage(t) ==
    {a \in Tasks : \A S \in SUBSET Tasks :
        (t \in S /\ \A s \in S : parent[s] \in S \cup {None}) => a \in S}

\* Mutant: the parents are not asked.
is_active_Alone(t) == status[t] = "ACTIVE"

is_active(t) == \A a \in Lineage(t) : status[a] = "ACTIVE"

\* Mutant: without ThreadedTaskList.is_cancelled, only the statuses count.
is_cancelled_NoEvent(t) == \E a \in Lineage(t) : status[a] = "CANCELLED"

is_cancelled(t) ==
    \/ Root \in Lineage(t) /\ stopped
    \/ \E a \in Lineage(t) : status[a] = "CANCELLED"

\* Mutant: the status of the task itself does not matter.
MayRun_AnyStatus(t) == parent[t] # None => is_active(parent[t])

\* The guard of Task.__call__: a call that fails it returns None at once.
MayRun(t) ==
    /\ status[t] = "INACTIVE"
    /\ parent[t] # None => is_active(parent[t])

Attached(t) == t = Root \/ parent[t] # None

Alive == pc[Root] # "returned"

Init ==
    /\ status = [t \in Tasks |-> "INACTIVE"]
    /\ parent = [t \in Tasks |-> IF t \in PlanSet THEN Root ELSE None]
    /\ subtasks = [t \in Tasks |-> IF t = Root THEN Plan ELSE <<>>]
    /\ error = None
    /\ stopped = FALSE
    /\ top = None
    /\ pc = [t \in Tasks |-> "out"]
    /\ next = [t \in Tasks |-> 1]
    /\ told = {}
    /\ gui = "idle"
    /\ starts = [t \in Tasks |-> 0]
    /\ overwrote = None
    /\ late = 0

-----------------------------------------------------------------------------
(* The worker thread.                                                      *)

\* ThreadedTaskList.run: the thread calls the root.
Run ==
    /\ top = None /\ pc[Root] = "out"
    /\ IF MayRun(Root)
       THEN top' = Root /\ pc' = [pc EXCEPT ![Root] = "entered"]
       ELSE top' = None /\ pc' = [pc EXCEPT ![Root] = "returned"]
    /\ UNCHANGED <<status, treeVars, error, stopped, next, told, guiVars, starts, late>>

\* Mutant: starting the root clears the event, as a restartable thread would.
Activate_ClearsEvent(t) ==
    /\ top = t /\ pc[t] = "entered"
    /\ status' = [status EXCEPT ![t] = "ACTIVE"]
    /\ error' = IF t = Root THEN None ELSE error
    /\ stopped' = IF t = Root THEN FALSE ELSE stopped
    /\ pc' = [pc EXCEPT ![t] = "function"]
    /\ starts' = [starts EXCEPT ![t] = @ + 1]
    /\ late' = IF gui = "cancelled" THEN late + 1 ELSE late
    /\ UNCHANGED <<treeVars, top, next, told, guiVars>>

\* __call__ after its guard: error reset, status, then the function begins.
Activate(t) ==
    /\ top = t /\ pc[t] = "entered"
    /\ status' = [status EXCEPT ![t] = "ACTIVE"]
    /\ error' = IF t = Root THEN None ELSE error
    /\ pc' = [pc EXCEPT ![t] = "function"]
    /\ starts' = [starts EXCEPT ![t] = @ + 1]
    /\ late' = IF gui = "cancelled" THEN late + 1 ELSE late
    /\ UNCHANGED <<treeVars, stopped, top, next, told, guiVars>>

\* The function of t runs; it may go on although it was told to terminate.
InFunction(t) ==
    /\ top = t /\ pc[t] = "function" /\ t # Root

\* The function adds a subtask.
AddSubtask(t, c) ==
    /\ InFunction(t)
    /\ ~Attached(c)
    /\ parent' = [parent EXCEPT ![c] = t]
    /\ subtasks' = [subtasks EXCEPT ![t] = Append(@, c)]
    /\ UNCHANGED <<status, error, stopped, top, pc, next, told, guiVars, starts, late>>

\* The function calls one of its subtasks itself, as the back end does to get
\* a result.  A call that fails the guard changes nothing.
CallSubtask(t, c) ==
    /\ InFunction(t)
    /\ parent[c] = t
    /\ MayRun(c)
    /\ top' = c
    /\ pc' = [pc EXCEPT ![c] = "entered"]
    /\ UNCHANGED <<status, treeVars, error, stopped, next, told, guiVars, starts, late>>

\* set_progress in a cancelled tree returns True and does nothing else.
ProgressRefused(t) ==
    /\ InFunction(t)
    /\ is_cancelled(t)
    /\ told' = told \cup {t}
    /\ UNCHANGED <<status, treeVars, error, stopped, top, pc, next, guiVars, starts, late>>

\* set_progress that reaches the size runs the subtasks, inside the function.
\* (Short of the size it only notifies.)
ProgressReachesSize(t) ==
    /\ InFunction(t)
    /\ ~is_cancelled(t)
    /\ pc' = [pc EXCEPT ![t] = "progress"]
    /\ next' = [next EXCEPT ![t] = 1]
    /\ UNCHANGED <<status, treeVars, error, stopped, top, told, guiVars, starts, late>>

\* The function returns; __call__ goes on to the subtasks.
Return(t) ==
    /\ top = t /\ pc[t] = "function"
    /\ pc' = [pc EXCEPT ![t] = "subtasks"]
    /\ next' = [next EXCEPT ![t] = 1]
    /\ UNCHANGED <<status, treeVars, error, stopped, top, told, guiVars, starts, late>>

\* A function that is not required raises: __call__ notes it and goes on.
RaiseOptional(t) ==
    /\ InFunction(t)
    /\ t \notin Required
    /\ status' = [status EXCEPT ![t] = "FAILED"]
    /\ pc' = [pc EXCEPT ![t] = "subtasks"]
    /\ next' = [next EXCEPT ![t] = 1]
    /\ UNCHANGED <<treeVars, error, stopped, top, told, guiVars, starts, late>>

\* Mutant: the root is not cancelled.
RaiseRequired_NoCancel(t) ==
    /\ InFunction(t)
    /\ t \in Required
    /\ status' = [status EXCEPT ![t] = "FAILED"]
    /\ error' = t
    /\ pc' = [pc EXCEPT ![t] = "returned"]
    /\ top' = parent[t]
    /\ UNCHANGED <<treeVars, stopped, next, told, guiVars, starts, late>>

\* A required function raises: __call__ stores the exception in the root,
\* cancels the root and returns without subtasks and without finish().
RaiseRequired(t) ==
    /\ InFunction(t)
    /\ t \in Required
    /\ status' = [status EXCEPT ![t] = "FAILED", ![Root] = "CANCELLED"]
    /\ error' = t
    /\ stopped' = TRUE
    /\ pc' = [pc EXCEPT ![t] = "returned"]
    /\ top' = parent[t]
    /\ UNCHANGED <<treeVars, next, told, guiVars, starts, late>>

\* One round of _run_subtasks: call the next subtask, or pass over it when
\* the call would return at once.
RunNextSubtask(t) ==
    /\ top = t /\ pc[t] \in {"progress", "subtasks"}
    /\ next[t] <= Len(subtasks[t])
    /\ next' = [next EXCEPT ![t] = @ + 1]
    /\ LET c == subtasks[t][next[t]] IN
         IF MayRun(c)
         THEN top' = c /\ pc' = [pc EXCEPT ![c] = "entered"]
         ELSE UNCHANGED <<top, pc>>
    /\ UNCHANGED <<status, treeVars, error, stopped, told, guiVars, starts, late>>

\* finish(): whatever the status was, it becomes COMPLETED.
Finish(t) == status' = [status EXCEPT ![t] = "COMPLETED"]

\* The loop of set_progress is over: finish, and back into the function.
EndProgress(t) ==
    /\ top = t /\ pc[t] = "progress"
    /\ next[t] > Len(subtasks[t])
    /\ Finish(t)
    /\ pc' = [pc EXCEPT ![t] = "function"]
    /\ UNCHANGED <<treeVars, error, stopped, top, next, told, guiVars, starts, late>>

\* Mutant: the loop of __call__ leaves before its last subtask.
EndCall_Early(t) ==
    /\ top = t /\ pc[t] = "subtasks"
    /\ next[t] >= Len(subtasks[t])
    /\ Finish(t)
    /\ pc' = [pc EXCEPT ![t] = "returned"]
    /\ top' = parent[t]
    /\ UNCHANGED <<treeVars, error, stopped, next, told, guiVars, starts, late>>

\* The loop of __call__ is over: finish, and return to the caller.
EndCall(t) ==
    /\ top = t /\ pc[t] = "subtasks"
    /\ next[t] > Len(subtasks[t])
    /\ Finish(t)
    /\ pc' = [pc EXCEPT ![t] = "returned"]
    /\ top' = parent[t]
    /\ UNCHANGED <<treeVars, error, stopped, next, told, guiVars, starts, late>>

Worker ==
    \/ Run
    \/ \E t \in Tasks :
         \/ Activate(t)
         \/ \E c \in Tasks : AddSubtask(t, c) \/ CallSubtask(t, c)
         \/ ProgressRefused(t) \/ ProgressReachesSize(t)
         \/ Return(t) \/ RaiseOptional(t) \/ RaiseRequired(t)
         \/ RunNextSubtask(t) \/ EndProgress(t) \/ EndCall(t)

-----------------------------------------------------------------------------
(* The GUI thread.                                                         *)

\* on_quit: self.tasklist.isAlive()
SeeAlive ==
    /\ gui = "idle" /\ Alive
    /\ gui' = "alive"
    /\ UNCHANGED <<status, treeVars, error, stopped, top, pc, next, told, starts,
                   overwrote, late>>

\* Mutant: Task.cancel alone, without the event.
SetStopped_Skipped ==
    /\ gui = "alive"
    /\ gui' = "event"
    /\ UNCHANGED <<status, treeVars, error, stopped, top, pc, next, told, starts,
                   overwrote, late>>

\* ThreadedTaskList.cancel, first line: the event.
SetStopped ==
    /\ gui = "alive"
    /\ stopped' = TRUE
    /\ gui' = "event"
    /\ UNCHANGED <<status, treeVars, error, top, pc, next, told, starts, overwrote, late>>

\* ThreadedTaskList.cancel, second line: Task.cancel sets the root's status.
SetCancelled ==
    /\ gui = "event"
    /\ overwrote' = status[Root]
    /\ status' = [status EXCEPT ![Root] = "CANCELLED"]
    /\ gui' = "cancelled"
    /\ UNCHANGED <<treeVars, error, stopped, top, pc, next, told, starts, late>>

Gui == SeeAlive \/ SetStopped \/ SetCancelled

\* The thread has ended: nothing is left to do but, perhaps, to cancel it.
Terminated == ~Alive /\ UNCHANGED vars

Next == Worker \/ Gui \/ Terminated

Spec == Init /\ [][Next]_vars

\* The operating system schedules the worker thread.
FairSpec == Spec /\ WF_vars(Worker)

-----------------------------------------------------------------------------
\* Lists of tasks.
TaskSeqs == Seq(Tasks)

TypeOK ==
    /\ status \in [Tasks -> Status]
    /\ parent \in [Tasks -> Tasks \cup {None}]
    /\ subtasks \in [Tasks -> TaskSeqs]
    /\ error \in Tasks \cup {None}
    /\ stopped \in BOOLEAN
    /\ top \in Tasks \cup {None}
    /\ pc \in [Tasks -> Points]
    /\ next \in [Tasks -> Nat \ {0}]
    /\ told \subseteq Tasks
    /\ gui \in {"idle", "alive", "event", "cancelled"}
    /\ starts \in [Tasks -> Nat]
    /\ overwrote \in Status \cup {None}
    /\ late \in Nat

\* No function is started twice, although set_progress and __call__ each walk
\* the whole list of subtasks and the function may call subtasks itself.
RunsAtMostOnce == \A t \in Tasks : starts[t] <= 1

\* Task.cancel of a list that is already running stops it: at most one
\* function, the one whose guard had been passed, starts after cancel().
\* (Cancelling before the worker has marked the root ACTIVE is another matter:
\* see StopMeansStop.)
LateStartBound == overwrote # "INACTIVE" => late <= 1

\* "Can be started and stopped" (tasklist.py:379): once cancel() has returned,
\* at most the function whose guard was already passed starts.
StopMeansStop == late <= 1

\* A task is COMPLETED only when nothing below it still runs: finish() comes
\* after the subtasks on both paths that reach it.
CompletedIsQuiet ==
    \A t \in Tasks : status[t] = "ACTIVE" =>
        \A a \in Lineage(t) : status[a] # "COMPLETED"

\* A thread that ends without having been stopped has completed every task of
\* its plan; only subtasks and optional failures may be missing.
CleanRunCompletes ==
    ~Alive /\ ~stopped => \A t \in PlanSet \cup {Root} : status[t] = "COMPLETED"

\* What COMPLETED is taken for by those who read it: nothing below still runs,
\* and a list that ran to its end undisturbed has done all of its plan.
CompletionMeansDone == CompletedIsQuiet /\ CleanRunCompletes

\* Once a required function has failed, no further function is started.
NoStartAfterFailure == [][error # None => starts' = starts]_vars

\* set_progress never goes back from True to False: the event outlives the
\* status, which the worker may overwrite with ACTIVE or COMPLETED.
CancelIsSticky ==
    [][\A t \in Tasks : Attached(t) /\ is_cancelled(t) => is_cancelled(t)']_vars

\* Every function terminates when set_progress tells it to.
FunctionsTerminate ==
    \A t \in Tasks : []<>~(t \in told /\ top = t /\ pc[t] = "function")

\* If they do, a stop request ends the thread, also one that arrives before the
\* worker has marked the root ACTIVE.
StopEndsThread == FunctionsTerminate => (stopped ~> ~Alive)
-----------------------------------------------------------------------------
\* What the callers of a task list rely on (run_tasks, the application).
Contract == INSTANCE TaskContract WITH
    Planned <- PlanSet,
    begun <- {t \in Tasks : starts[t] > 0},
    halted <- stopped,
    failed <- error # None,
    ended <- ~Alive

\* The tree, with both its threads, keeps the contract.
KeepsContract == Contract!Spec
=============================================================================
