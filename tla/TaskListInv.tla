---------------------------- MODULE TaskListInv -----------------------------
(***************************************************************************)
(* The inductive invariant of TaskList: what every reachable state of the  *)
(* tree and of its two threads has in common, as far as the properties of  *)
(* TaskList need it.  TLC checks it on the instance of MCTaskList, and     *)
(* TaskListProofs proves it inductive.                                     *)
(***************************************************************************)
EXTENDS TaskList

Closed(S) == \A s \in S : parent[s] \in S \cup {None}

\* The tree: the parent of an attached task is attached, subtasks lists and
\* parents agree, and every attached task descends from the root.
TreeInv ==
    /\ parent[Root] = None
    /\ \A t \in Tasks : parent[t] # None => Attached(parent[t])
    /\ \A t \in Tasks : \A i \in 1..Len(subtasks[t]) : parent[subtasks[t][i]] = t
    /\ \A S \in SUBSET Tasks :
         Closed(S) /\ (\E x \in S : Attached(x)) => Root \in S

\* The stack: only its top has just entered, and it is empty exactly before
\* the root is called and after the root has returned.
StackInv ==
    /\ \A t \in Tasks : pc[t] = "entered" => top = t
    /\ top # None => Attached(top) /\ pc[Root] \notin {"out", "returned"}
    /\ pc[Root] # "progress"

\* A call is on the stack from its entry to its return.
Called == {"entered", "function", "progress", "subtasks"}

\* The calls on the stack are those of the top and of ancestors of the top, a
\* task is ACTIVE only during its call, and below a COMPLETED task nothing is
\* entered or runs.
QuietInv ==
    /\ \A t \in Tasks : pc[t] \in Called => top # None /\ t \in Lineage(top)
    /\ \A t \in Tasks : status[t] = "ACTIVE" => pc[t] \in Called \ {"entered"}
    /\ \A t \in Tasks : pc[t] = "entered" =>
         \A a \in Lineage(t) : status[a] # "COMPLETED"
    /\ CompletedIsQuiet

\* A function that has begun was called, and a call that has returned to a list
\* that nobody has stopped went through finish().
ReturnInv ==
    /\ \A t \in Tasks : starts[t] = 1 => pc[t] # "out"
    /\ \A t \in Tasks : pc[t] = "returned" /\ ~stopped => status[t] = "COMPLETED"

\* A function has begun exactly when its task has left INACTIVE behind; only
\* the root can leave it without beginning, by being cancelled.
OnceInv ==
    /\ \A t \in Tasks : starts[t] <= 1
    /\ \A t \in Tasks : status[t] = "INACTIVE" => starts[t] = 0
    /\ \A t \in Tasks : pc[t] = "entered" => starts[t] = 0
    /\ \A t \in Tasks : pc[t] \in {"function", "progress", "subtasks"} => starts[t] = 1
    /\ \A t \in Tasks \ {Root} : status[t] # "INACTIVE" => starts[t] = 1

\* After a required failure the root is no longer active, and nothing is
\* between its guard and its start.
FailInv ==
    error # None =>
        /\ status[Root] \notin {"INACTIVE", "ACTIVE"}
        /\ \A t \in Tasks : pc[t] # "entered"

\* The event is set before any status says CANCELLED and before any error.
StopInv ==
    /\ gui \in {"event", "cancelled"} => stopped
    /\ \A t \in Tasks : status[t] = "CANCELLED" => t = Root /\ stopped
    /\ error # None => stopped

\* cancel() on an active root lets one task through: the one that had entered.
LateInv ==
    /\ gui # "cancelled" => late = 0 /\ overwrote = None
    /\ gui # "cancelled" /\ pc[Root] = "entered" => status[Root] = "INACTIVE"
    /\ gui = "cancelled" /\ overwrote # "INACTIVE" =>
         /\ status[Root] \notin {"INACTIVE", "ACTIVE"}
         /\ pc[Root] # "entered"
         /\ late <= 1
         /\ late = 1 => \A t \in Tasks : pc[t] # "entered"

\* As long as nobody has stopped it, the root works through its plan.
PlanInv ==
    /\ subtasks[Root] = Plan
    /\ ~stopped =>
         /\ pc[Root] = "out" => status[Root] = "INACTIVE"
         /\ pc[Root] \in {"function", "subtasks"} => status[Root] = "ACTIVE"
         /\ pc[Root] = "subtasks" =>
              \A i \in 1..Len(Plan) : i < next[Root] =>
                  starts[Plan[i]] = 1 \/ pc[Plan[i]] = "entered"
         /\ pc[Root] = "returned" => \A t \in PlanSet : starts[t] = 1

\* The whole: inductive for both threads.
IInv ==
    /\ TypeOK
    /\ TreeInv
    /\ StackInv
    /\ OnceInv
    /\ FailInv
    /\ StopInv
    /\ LateInv
    /\ PlanInv
    /\ QuietInv
    /\ ReturnInv
=============================================================================
