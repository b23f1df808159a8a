--------------------------- MODULE TaskListProofs ---------------------------
(***************************************************************************)
(* Theorems about the task tree, for every set of tasks, plan and choice   *)
(* of required and heeding functions.                                      *)
(***************************************************************************)
EXTENDS TaskListInv, SequenceTheorems, TLAPS

USE DEF treeVars, guiVars

-----------------------------------------------------------------------------
\* The initial state is well typed: the plan gives its tasks a parent.
LEMMA InitTypeOK == Init => TypeOK
<1> SUFFICES ASSUME Init PROVE TypeOK
  OBVIOUS
<1>1. Plan \in Seq(Tasks)
  BY TasksAssumption, SeqMonotonic DEF TasksAssumption
<1>2. subtasks \in [Tasks -> TaskSeqs]
  <2>1. <<>> \in TaskSeqs /\ Plan \in TaskSeqs
    BY <1>1 DEF TaskSeqs
  <2>2. QED
    BY <2>1 DEF Init
<1>3. parent \in [Tasks -> Tasks \cup {None}]
  BY TasksAssumption DEF TasksAssumption, Init
<1>4. next \in [Tasks -> Nat \ {0}] /\ starts \in [Tasks -> Nat] /\ late \in Nat
  BY DEF Init
<1>5. pc \in [Tasks -> Points] /\ status \in [Tasks -> Status]
  BY DEF Init, Points, Status
<1>6. QED
  BY <1>2, <1>3, <1>4, <1>5 DEF Init, TypeOK

\* Every step of either thread preserves the types.
LEMMA NextTypeOK == TypeOK /\ [Next]_vars => TypeOK'
<1> SUFFICES ASSUME TypeOK, [Next]_vars PROVE TypeOK'
  OBVIOUS
<1> USE TasksAssumption DEF TasksAssumption, TypeOK, Status, Points
<1>1. CASE Run
  BY <1>1 DEF Run
<1>2. ASSUME NEW t \in Tasks, Activate(t) PROVE TypeOK'
  BY <1>2 DEF Activate
<1>3. ASSUME NEW t \in Tasks, NEW c \in Tasks, AddSubtask(t, c) PROVE TypeOK'
  <2>1. Append(subtasks[t], c) \in TaskSeqs
    BY AppendProperties DEF TaskSeqs
  <2>2. QED
    BY <1>3, <2>1 DEF AddSubtask
<1>4. ASSUME NEW t \in Tasks, NEW c \in Tasks, CallSubtask(t, c) PROVE TypeOK'
  BY <1>4 DEF CallSubtask
<1>5. ASSUME NEW t \in Tasks, ProgressRefused(t) PROVE TypeOK'
  BY <1>5 DEF ProgressRefused
<1>6. ASSUME NEW t \in Tasks, ProgressReachesSize(t) PROVE TypeOK'
  BY <1>6 DEF ProgressReachesSize
<1>7. ASSUME NEW t \in Tasks, Return(t) PROVE TypeOK'
  BY <1>7 DEF Return
<1>8. ASSUME NEW t \in Tasks, RaiseOptional(t) PROVE TypeOK'
  BY <1>8 DEF RaiseOptional
<1>9. ASSUME NEW t \in Tasks, RaiseRequired(t) PROVE TypeOK'
  BY <1>9 DEF RaiseRequired
<1>10. ASSUME NEW t \in Tasks, RunNextSubtask(t) PROVE TypeOK'
  <2>1. subtasks[t][next[t]] \in Tasks
    BY <1>10, ElementOfSeq DEF RunNextSubtask, TaskSeqs
  <2>2. next' \in [Tasks -> Nat \ {0}]
    BY <1>10 DEF RunNextSubtask
  <2>3. CASE MayRun(subtasks[t][next[t]])
    BY <1>10, <2>1, <2>2, <2>3 DEF RunNextSubtask
  <2>4. CASE ~MayRun(subtasks[t][next[t]])
    BY <1>10, <2>1, <2>2, <2>4 DEF RunNextSubtask
  <2>5. QED
    BY <2>3, <2>4
<1>11. ASSUME NEW t \in Tasks, EndProgress(t) PROVE TypeOK'
  BY <1>11 DEF EndProgress, Finish
<1>12. ASSUME NEW t \in Tasks, EndCall(t) PROVE TypeOK'
  BY <1>12 DEF EndCall, Finish
<1>13. CASE Gui
  BY <1>13 DEF Gui, SeeAlive, SetStopped, SetCancelled
<1>14. CASE Terminated \/ UNCHANGED vars
  BY <1>14 DEF Terminated, vars
<1>15. QED
  BY <1>1, <1>2, <1>3, <1>4, <1>5, <1>6, <1>7, <1>8, <1>9, <1>10, <1>11, <1>12,
     <1>13, <1>14 DEF Next, Worker

\* The variables of the task tree and of both threads keep their types.
THEOREM TypeCorrect == Spec => []TypeOK
  BY InitTypeOK, NextTypeOK, PTL DEF Spec

-----------------------------------------------------------------------------
(* Lineages.                                                               *)

\* A task is in its own lineage.
LEMMA LineageHasSelf == ASSUME NEW t \in Tasks PROVE t \in Lineage(t)
  BY DEF Lineage

\* Every attached task descends from the root.
LEMMA LineageHasRoot ==
  ASSUME TypeOK, TreeInv, NEW t \in Tasks, Attached(t)
  PROVE  Root \in Lineage(t)
  BY TasksAssumption DEF TasksAssumption, Lineage, TreeInv, Closed, Attached

\* The root has no ancestors.
LEMMA LineageOfRoot == TreeInv => Lineage(Root) = {Root}
<1> SUFFICES ASSUME TreeInv PROVE Lineage(Root) = {Root}
  OBVIOUS
<1>1. Root \in Lineage(Root)
  BY LineageHasSelf, TasksAssumption DEF TasksAssumption
<1>2. ASSUME NEW a \in Lineage(Root) PROVE a = Root
  <2>1. {Root} \in SUBSET Tasks /\ \A s \in {Root} : parent[s] \in {Root} \cup {None}
    BY TasksAssumption DEF TasksAssumption, TreeInv
  <2>2. QED
    BY <1>2, <2>1 DEF Lineage
<1>3. QED
  BY <1>1, <1>2

\* A task that may run, other than the root, hangs under an active root.
LEMMA MayRunUnderActiveRoot ==
  ASSUME TypeOK, TreeInv, NEW t \in Tasks, NEW c \in Tasks,
         Attached(t), parent[c] = t, MayRun(c)
  PROVE  status[Root] = "ACTIVE" /\ status[c] = "INACTIVE"
<1>1. Root \in Lineage(t)
  BY LineageHasRoot
<1>2. is_active(t)
  BY TasksAssumption DEF TasksAssumption, MayRun
<1>3. QED
  BY <1>1, <1>2 DEF is_active, MayRun

\* What the loop over the subtasks of t finds is a child of t.
LEMMA NextSubtaskIsChild ==
  ASSUME TypeOK, TreeInv, NEW t \in Tasks, next[t] <= Len(subtasks[t])
  PROVE  subtasks[t][next[t]] \in Tasks /\ parent[subtasks[t][next[t]]] = t
<1>1. subtasks[t] \in Seq(Tasks)
  BY DEF TypeOK, TaskSeqs
<1>2. next[t] \in 1..Len(subtasks[t])
  BY <1>1, LenProperties DEF TypeOK
<1>3. QED
  BY <1>1, <1>2, ElementOfSeq DEF TreeInv

\* The ancestors of an ancestor are ancestors.
LEMMA LineageIsClosed ==
  ASSUME TypeOK, NEW t \in Tasks, NEW a \in Lineage(t), parent[a] # None
  PROVE  parent[a] \in Lineage(t)
<1>1. parent[a] \in Tasks
  BY DEF Lineage, TypeOK
<1>2. ASSUME NEW S \in SUBSET Tasks, t \in S, \A s \in S : parent[s] \in S \cup {None}
      PROVE  parent[a] \in S
  BY <1>2 DEF Lineage
<1>3. QED
  BY <1>1, <1>2 DEF Lineage

\* What is closed under parent and contains a task contains its lineage.
LEMMA LineageIsLeast ==
  ASSUME NEW t \in Tasks, NEW S \in SUBSET Tasks, t \in S, Closed(S)
  PROVE  Lineage(t) \subseteq S
  BY DEF Lineage, Closed

\* The lineage of a child is the child and the lineage of its parent.
LEMMA LineageOfChild ==
  ASSUME TypeOK, NEW t \in Tasks, NEW c \in Tasks, parent[c] = t
  PROVE  Lineage(c) = {c} \cup Lineage(t)
<1>1. Lineage(c) \subseteq {c} \cup Lineage(t)
  <2>1. {c} \cup Lineage(t) \in SUBSET Tasks
    BY DEF Lineage
  <2>2. t \in Lineage(t)
    BY LineageHasSelf
  <2>3. Closed({c} \cup Lineage(t))
    BY <2>2, LineageIsClosed DEF Closed
  <2>4. QED
    BY <2>1, <2>3, LineageIsLeast
<1>2. Lineage(t) \subseteq Lineage(c)
  <2>1. c \in Lineage(c) /\ Lineage(c) \in SUBSET Tasks
    BY LineageHasSelf DEF Lineage
  <2>2. Closed(Lineage(c))
    BY LineageIsClosed DEF Closed
  <2>3. t \in Lineage(c)
    BY <2>1, <2>2, TasksAssumption DEF Closed, TasksAssumption
  <2>4. QED
    BY <2>1, <2>2, <2>3, LineageIsLeast
<1>3. QED
  BY <1>1, <1>2, LineageHasSelf

\* No task is an ancestor of its parent: the tree has no cycle.
LEMMA ParentIsAbove ==
  ASSUME TypeOK, TreeInv, NEW c \in Tasks, parent[c] # None
  PROVE  c \notin Lineage(parent[c])
<1> SUFFICES ASSUME c \in Lineage(parent[c]) PROVE FALSE
  OBVIOUS
<1> DEFINE S == {s \in Lineage(c) : c \in Lineage(s)}
<1>1. S \in SUBSET Tasks /\ c \in S
  BY LineageHasSelf DEF Lineage
<1>2. ASSUME NEW s \in S PROVE parent[s] \in S \cup {None}
  <2>1. CASE parent[s] = None
    BY <2>1
  <2>2. CASE parent[s] # None
    <3>1. parent[s] \in Lineage(c) /\ parent[s] \in Tasks /\ s \in Tasks
      BY <2>2, LineageIsClosed DEF Lineage, TypeOK
    <3>2. Lineage(s) = {s} \cup Lineage(parent[s])
      BY <3>1, LineageOfChild
    <3>3. c \in Lineage(parent[s])
      BY <1>2, <3>2
    <3>4. QED
      BY <3>1, <3>3
  <2>3. QED
    BY <2>1, <2>2
<1>3. Closed(S)
  BY <1>2 DEF Closed
<1>4. Root \in S
  BY <1>1, <1>3 DEF TreeInv, Attached
<1>5. c = Root
  BY <1>4, LineageOfRoot
<1>6. QED
  BY <1>5 DEF TreeInv

\* Two tasks that are each other's ancestors are one.
LEMMA LineageAntisymmetric ==
  ASSUME TypeOK, TreeInv, NEW t \in Tasks, NEW u \in Lineage(t), t \in Lineage(u)
  PROVE  t = u
<1> SUFFICES ASSUME t # u PROVE FALSE
  OBVIOUS
<1>1. u \in Tasks
  BY DEF Lineage
<1>2. CASE parent[t] = None
  <2>1. {t} \in SUBSET Tasks /\ Closed({t})
    BY <1>2 DEF Closed
  <2>2. QED
    BY <2>1, LineageIsLeast
<1>3. CASE parent[t] # None
  <2>1. parent[t] \in Tasks
    BY <1>3 DEF TypeOK
  <2>2. u \in Lineage(parent[t])
    BY <2>1, LineageOfChild
  <2>3. Closed(Lineage(parent[t])) /\ Lineage(parent[t]) \in SUBSET Tasks
    BY <2>1, LineageIsClosed DEF Closed, Lineage
  <2>4. t \in Lineage(parent[t])
    BY <1>1, <2>2, <2>3, LineageIsLeast
  <2>5. QED
    BY <1>3, <2>4, ParentIsAbove
<1>4. QED
  BY <1>2, <1>3

\* An ancestor of an attached task is attached.
LEMMA LineageIsAttached ==
  ASSUME TypeOK, TreeInv, NEW t \in Tasks, Attached(t), NEW a \in Lineage(t)
  PROVE  Attached(a)
<1> DEFINE S == {s \in Tasks : Attached(s)}
<1>1. Closed(S)
  BY DEF Closed, TreeInv, TypeOK
<1>2. QED
  BY <1>1, LineageIsLeast

\* Attaching a task changes the lineage of no attached task.
LEMMA LineageKept ==
  ASSUME TypeOK, TreeInv, NEW t \in Tasks, NEW c \in Tasks, ~Attached(c),
         parent' = [parent EXCEPT ![c] = t], NEW u \in Tasks, Attached(u)
  PROVE  Lineage(u)' = Lineage(u)
<1>1. Lineage(u) \in SUBSET Tasks /\ c \notin Lineage(u) /\ u \in Lineage(u)
  BY LineageIsAttached, LineageHasSelf DEF Lineage
<1>2. \A s \in Lineage(u) : parent'[s] \in Lineage(u) \cup {None}
  BY <1>1, LineageIsClosed DEF TypeOK
<1>3. Lineage(u)' \subseteq Lineage(u)
  BY <1>1, <1>2 DEF Lineage
<1>4. ASSUME NEW a \in Lineage(u), NEW S \in SUBSET Tasks, u \in S,
             \A s \in S : parent'[s] \in S \cup {None}
      PROVE  a \in S
  <2>1. S \cap Lineage(u) \in SUBSET Tasks /\ u \in S \cap Lineage(u)
    BY <1>1, <1>4
  <2>2. ASSUME NEW s \in S \cap Lineage(u)
        PROVE  parent[s] \in (S \cap Lineage(u)) \cup {None}
    <3>1. parent'[s] = parent[s]
      BY <1>1, <2>2 DEF TypeOK
    <3>2. QED
      BY <1>4, <2>2, <3>1, LineageIsClosed
  <2>3. QED
    BY <2>1, <2>2 DEF Lineage
<1>5. Lineage(u) \subseteq Lineage(u)'
  BY <1>1, <1>4 DEF Lineage
<1>6. QED
  BY <1>3, <1>5

-----------------------------------------------------------------------------
(* The invariant, part by part.                                            *)

\* Adding a subtask keeps the tree a tree; nothing else touches it.
LEMMA NextTreeInv == TypeOK /\ TreeInv /\ StackInv /\ [Next]_vars => TreeInv'
<1> SUFFICES ASSUME TypeOK, TreeInv, StackInv, [Next]_vars PROVE TreeInv'
  OBVIOUS
<1> USE TasksAssumption DEF TasksAssumption, TreeInv, Attached, treeVars
<1>1. CASE Run
  BY <1>1 DEF Run, Closed
<1>2. ASSUME NEW t \in Tasks, Activate(t) PROVE TreeInv'
  BY <1>2 DEF Activate, Closed
<1>3. ASSUME NEW t \in Tasks, NEW c \in Tasks, AddSubtask(t, c) PROVE TreeInv'
  <2> USE DEF TypeOK
  <2>1. Attached(t) /\ parent[c] = None /\ c # Root /\ t # c /\ t # None
    BY <1>3 DEF AddSubtask, InFunction, StackInv
  <2>2. /\ parent' = [parent EXCEPT ![c] = t]
        /\ subtasks' = [subtasks EXCEPT ![t] = Append(@, c)]
    BY <1>3 DEF AddSubtask
  <2>3. parent'[Root] = None
    BY <2>1, <2>2
  <2>4. \A u \in Tasks : parent'[u] # None => Attached(parent[u])'
    BY <2>1, <2>2
  <2>5. ASSUME NEW u \in Tasks, NEW i \in 1..Len(subtasks'[u])
        PROVE  parent'[subtasks'[u][i]] = u
    <3>1. subtasks[u] \in Seq(Tasks)
      BY DEF TaskSeqs
    <3>2. CASE u # t
      <4>1. subtasks'[u] = subtasks[u] /\ subtasks[u][i] \in Tasks
        BY <2>2, <2>5, <3>1, <3>2, ElementOfSeq
      <4>2. QED
        BY <2>1, <2>2, <2>5, <4>1
    <3>3. CASE u = t
      <4>1. subtasks'[u] = Append(subtasks[u], c)
        BY <2>2, <3>3
      <4>2. CASE i = Len(subtasks[u]) + 1
        BY <2>2, <3>1, <3>3, <4>1, <4>2, AppendProperties
      <4>3. CASE i # Len(subtasks[u]) + 1
        <5>1. i \in 1..Len(subtasks[u]) /\ subtasks'[u][i] = subtasks[u][i]
          BY <2>5, <3>1, <4>1, <4>3, AppendProperties, LenProperties
        <5>2. subtasks[u][i] \in Tasks
          BY <3>1, <5>1, ElementOfSeq
        <5>3. QED
          BY <2>1, <2>2, <5>1, <5>2
      <4>4. QED
        BY <4>2, <4>3
    <3>4. QED
      BY <3>2, <3>3
  <2>6. ASSUME NEW S \in SUBSET Tasks, Closed(S)',
               NEW x \in S, Attached(x)'
        PROVE  Root \in S
    <3>1. Closed(S)
      BY <2>1, <2>2, <2>6 DEF Closed
    <3>2. CASE x # c
      BY <2>2, <2>6, <3>1, <3>2
    <3>3. CASE x = c
      <4>1. t \in S
        BY <2>1, <2>2, <2>6, <3>3 DEF Closed
      <4>2. \E y \in S : Attached(y)
        BY <2>1, <4>1
      <4>3. QED
        BY <3>1, <4>2
    <3>4. QED
      BY <3>2, <3>3
  <2>7. QED
    BY <2>3, <2>4, <2>5, <2>6
<1>4. ASSUME NEW t \in Tasks, NEW c \in Tasks, CallSubtask(t, c) PROVE TreeInv'
  BY <1>4 DEF CallSubtask, Closed
<1>5. ASSUME NEW t \in Tasks, ProgressRefused(t) PROVE TreeInv'
  BY <1>5 DEF ProgressRefused, Closed
<1>6. ASSUME NEW t \in Tasks, ProgressReachesSize(t) PROVE TreeInv'
  BY <1>6 DEF ProgressReachesSize, Closed
<1>7. ASSUME NEW t \in Tasks, Return(t) PROVE TreeInv'
  BY <1>7 DEF Return, Closed
<1>8. ASSUME NEW t \in Tasks, RaiseOptional(t) PROVE TreeInv'
  BY <1>8 DEF RaiseOptional, Closed
<1>9. ASSUME NEW t \in Tasks, RaiseRequired(t) PROVE TreeInv'
  BY <1>9 DEF RaiseRequired, Closed
<1>10. ASSUME NEW t \in Tasks, RunNextSubtask(t) PROVE TreeInv'
  BY <1>10 DEF RunNextSubtask, Closed
<1>11. ASSUME NEW t \in Tasks, EndProgress(t) PROVE TreeInv'
  BY <1>11 DEF EndProgress, Closed
<1>12. ASSUME NEW t \in Tasks, EndCall(t) PROVE TreeInv'
  BY <1>12 DEF EndCall, Closed
<1>13. CASE SeeAlive
  BY <1>13 DEF SeeAlive, Closed
<1>14. CASE SetStopped
  BY <1>14 DEF SetStopped, Closed
<1>15. CASE SetCancelled
  BY <1>15 DEF SetCancelled, Closed
<1>16. CASE Terminated \/ UNCHANGED vars
  BY <1>16 DEF Terminated, vars, Closed
<1>17. QED
  BY <1>1, <1>2, <1>3, <1>4, <1>5, <1>6, <1>7, <1>8, <1>9, <1>10, <1>11,
     <1>12, <1>13, <1>14, <1>15, <1>16 DEF Next, Worker, Gui

\* A call pushes the task that entered, a return pops to its parent.
LEMMA NextStackInv == TypeOK /\ TreeInv /\ StackInv /\ [Next]_vars => StackInv'
<1> SUFFICES ASSUME TypeOK, TreeInv, StackInv, [Next]_vars PROVE StackInv'
  OBVIOUS
<1> USE TasksAssumption DEF TasksAssumption, TypeOK, StackInv, Attached, treeVars
<1>1. CASE Run
  BY <1>1 DEF Run, MayRun, TreeInv
<1>2. ASSUME NEW t \in Tasks, Activate(t) PROVE StackInv'
  BY <1>2 DEF Activate
<1>3. ASSUME NEW t \in Tasks, NEW c \in Tasks, AddSubtask(t, c) PROVE StackInv'
  BY <1>3 DEF AddSubtask, InFunction
<1>4. ASSUME NEW t \in Tasks, NEW c \in Tasks, CallSubtask(t, c) PROVE StackInv'
  BY <1>4 DEF CallSubtask, InFunction
<1>5. ASSUME NEW t \in Tasks, ProgressRefused(t) PROVE StackInv'
  BY <1>5 DEF ProgressRefused, InFunction
<1>6. ASSUME NEW t \in Tasks, ProgressReachesSize(t) PROVE StackInv'
  BY <1>6 DEF ProgressReachesSize, InFunction
<1>7. ASSUME NEW t \in Tasks, Return(t) PROVE StackInv'
  BY <1>7 DEF Return
<1>8. ASSUME NEW t \in Tasks, RaiseOptional(t) PROVE StackInv'
  BY <1>8 DEF RaiseOptional, InFunction
<1>9. ASSUME NEW t \in Tasks, RaiseRequired(t) PROVE StackInv'
  BY <1>9 DEF RaiseRequired, InFunction, TreeInv
<1>10. ASSUME NEW t \in Tasks, RunNextSubtask(t) PROVE StackInv'
  <2> DEFINE n == subtasks[t][next[t]]
  <2>1. n \in Tasks /\ parent[n] = t
    BY <1>10, NextSubtaskIsChild DEF RunNextSubtask
  <2>2. n # Root
    BY <2>1 DEF TreeInv
  <2>3. CASE MayRun(n)
    BY <1>10, <2>1, <2>2, <2>3 DEF RunNextSubtask
  <2>4. CASE ~MayRun(n)
    BY <1>10, <2>4 DEF RunNextSubtask
  <2>5. QED
    BY <2>3, <2>4
<1>11. ASSUME NEW t \in Tasks, EndProgress(t) PROVE StackInv'
  BY <1>11 DEF EndProgress, Finish
<1>12. ASSUME NEW t \in Tasks, EndCall(t) PROVE StackInv'
  BY <1>12 DEF EndCall, Finish, TreeInv
<1>13. CASE SeeAlive
  BY <1>13 DEF SeeAlive
<1>14. CASE SetStopped
  BY <1>14 DEF SetStopped
<1>15. CASE SetCancelled
  BY <1>15 DEF SetCancelled
<1>16. CASE Terminated \/ UNCHANGED vars
  BY <1>16 DEF Terminated, vars
<1>17. QED
  BY <1>1, <1>2, <1>3, <1>4, <1>5, <1>6, <1>7, <1>8, <1>9, <1>10, <1>11,
     <1>12, <1>13, <1>14, <1>15, <1>16 DEF Next, Worker, Gui

\* Only Activate starts a function, of a task that was INACTIVE when it entered.
LEMMA NextOnceInv == TypeOK /\ StackInv /\ OnceInv /\ [Next]_vars => OnceInv'
<1> SUFFICES ASSUME TypeOK, StackInv, OnceInv, [Next]_vars PROVE OnceInv'
  OBVIOUS
<1> USE TasksAssumption DEF TasksAssumption, TypeOK, OnceInv, Status, treeVars
<1>1. CASE Run
  BY <1>1 DEF Run, MayRun
<1>2. ASSUME NEW t \in Tasks, Activate(t) PROVE OnceInv'
  BY <1>2 DEF Activate
<1>3. ASSUME NEW t \in Tasks, NEW c \in Tasks, AddSubtask(t, c) PROVE OnceInv'
  BY <1>3 DEF AddSubtask, InFunction
<1>4. ASSUME NEW t \in Tasks, NEW c \in Tasks, CallSubtask(t, c) PROVE OnceInv'
  BY <1>4 DEF CallSubtask, InFunction, MayRun
<1>5. ASSUME NEW t \in Tasks, ProgressRefused(t) PROVE OnceInv'
  BY <1>5 DEF ProgressRefused, InFunction
<1>6. ASSUME NEW t \in Tasks, ProgressReachesSize(t) PROVE OnceInv'
  BY <1>6 DEF ProgressReachesSize, InFunction
<1>7. ASSUME NEW t \in Tasks, Return(t) PROVE OnceInv'
  BY <1>7 DEF Return
<1>8. ASSUME NEW t \in Tasks, RaiseOptional(t) PROVE OnceInv'
  BY <1>8 DEF RaiseOptional, InFunction
<1>9. ASSUME NEW t \in Tasks, RaiseRequired(t) PROVE OnceInv'
  BY <1>9 DEF RaiseRequired, InFunction
<1>10. ASSUME NEW t \in Tasks, RunNextSubtask(t) PROVE OnceInv'
  <2> DEFINE n == subtasks[t][next[t]]
  <2>1. n \in Tasks
    BY <1>10, ElementOfSeq DEF RunNextSubtask, TaskSeqs
  <2>3. CASE MayRun(n)
    BY <1>10, <2>1, <2>3 DEF RunNextSubtask, MayRun
  <2>4. CASE ~MayRun(n)
    BY <1>10, <2>4 DEF RunNextSubtask
  <2>5. QED
    BY <2>3, <2>4
<1>11. ASSUME NEW t \in Tasks, EndProgress(t) PROVE OnceInv'
  BY <1>11 DEF EndProgress, Finish
<1>12. ASSUME NEW t \in Tasks, EndCall(t) PROVE OnceInv'
  BY <1>12 DEF EndCall, Finish
<1>13. CASE SeeAlive
  BY <1>13 DEF SeeAlive
<1>14. CASE SetStopped
  BY <1>14 DEF SetStopped
<1>15. CASE SetCancelled
  BY <1>15 DEF SetCancelled
<1>16. CASE Terminated \/ UNCHANGED vars
  BY <1>16 DEF Terminated, vars
<1>17. QED
  BY <1>1, <1>2, <1>3, <1>4, <1>5, <1>6, <1>7, <1>8, <1>9, <1>10, <1>11,
     <1>12, <1>13, <1>14, <1>15, <1>16 DEF Next, Worker, Gui

\* Whoever cancels sets the event, and nobody clears it.
LEMMA NextStopInv == TypeOK /\ StopInv /\ [Next]_vars => StopInv'
<1> SUFFICES ASSUME TypeOK, StopInv, [Next]_vars PROVE StopInv'
  OBVIOUS
<1> USE TasksAssumption DEF TasksAssumption, TypeOK, StopInv, Status, treeVars
<1>1. CASE Run
  BY <1>1 DEF Run
<1>2. ASSUME NEW t \in Tasks, Activate(t) PROVE StopInv'
  BY <1>2 DEF Activate
<1>3. ASSUME NEW t \in Tasks, NEW c \in Tasks, AddSubtask(t, c) PROVE StopInv'
  BY <1>3 DEF AddSubtask, InFunction
<1>4. ASSUME NEW t \in Tasks, NEW c \in Tasks, CallSubtask(t, c) PROVE StopInv'
  BY <1>4 DEF CallSubtask, InFunction
<1>5. ASSUME NEW t \in Tasks, ProgressRefused(t) PROVE StopInv'
  BY <1>5 DEF ProgressRefused, InFunction
<1>6. ASSUME NEW t \in Tasks, ProgressReachesSize(t) PROVE StopInv'
  BY <1>6 DEF ProgressReachesSize, InFunction
<1>7. ASSUME NEW t \in Tasks, Return(t) PROVE StopInv'
  BY <1>7 DEF Return
<1>8. ASSUME NEW t \in Tasks, RaiseOptional(t) PROVE StopInv'
  BY <1>8 DEF RaiseOptional, InFunction
<1>9. ASSUME NEW t \in Tasks, RaiseRequired(t) PROVE StopInv'
  BY <1>9 DEF RaiseRequired, InFunction
<1>10. ASSUME NEW t \in Tasks, RunNextSubtask(t) PROVE StopInv'
  BY <1>10 DEF RunNextSubtask
<1>11. ASSUME NEW t \in Tasks, EndProgress(t) PROVE StopInv'
  BY <1>11 DEF EndProgress, Finish
<1>12. ASSUME NEW t \in Tasks, EndCall(t) PROVE StopInv'
  BY <1>12 DEF EndCall, Finish
<1>13. CASE SeeAlive
  BY <1>13 DEF SeeAlive
<1>14. CASE SetStopped
  BY <1>14 DEF SetStopped
<1>15. CASE SetCancelled
  BY <1>15 DEF SetCancelled
<1>16. CASE Terminated \/ UNCHANGED vars
  BY <1>16 DEF Terminated, vars
<1>17. QED
  BY <1>1, <1>2, <1>3, <1>4, <1>5, <1>6, <1>7, <1>8, <1>9, <1>10, <1>11,
     <1>12, <1>13, <1>14, <1>15, <1>16 DEF Next, Worker, Gui

\* After a required failure the root stays inactive, so that no call passes its
\* guard: the failure happened in a function, when nothing had entered.
LEMMA NextFailInv == TypeOK /\ TreeInv /\ StackInv /\ FailInv /\ [Next]_vars => FailInv'
<1> SUFFICES ASSUME TypeOK, TreeInv, StackInv, FailInv, [Next]_vars PROVE FailInv'
  OBVIOUS
<1> USE TasksAssumption DEF TasksAssumption, TypeOK, FailInv, Status, Points, treeVars
<1>1. CASE Run
  BY <1>1 DEF Run, MayRun
<1>2. ASSUME NEW t \in Tasks, Activate(t) PROVE FailInv'
  BY <1>2 DEF Activate
<1>3. ASSUME NEW t \in Tasks, NEW c \in Tasks, AddSubtask(t, c) PROVE FailInv'
  BY <1>3 DEF AddSubtask, InFunction
<1>4. ASSUME NEW t \in Tasks, NEW c \in Tasks, CallSubtask(t, c) PROVE FailInv'
  <2>1. status[Root] = "ACTIVE"
    BY <1>4, MayRunUnderActiveRoot DEF CallSubtask, InFunction, StackInv, Attached
  <2>2. c # Root
    BY <1>4 DEF CallSubtask, TreeInv
  <2>3. QED
    BY <1>4, <2>1, <2>2 DEF CallSubtask
<1>5. ASSUME NEW t \in Tasks, ProgressRefused(t) PROVE FailInv'
  BY <1>5 DEF ProgressRefused, InFunction
<1>6. ASSUME NEW t \in Tasks, ProgressReachesSize(t) PROVE FailInv'
  BY <1>6 DEF ProgressReachesSize, InFunction
<1>7. ASSUME NEW t \in Tasks, Return(t) PROVE FailInv'
  BY <1>7 DEF Return
<1>8. ASSUME NEW t \in Tasks, RaiseOptional(t) PROVE FailInv'
  BY <1>8 DEF RaiseOptional, InFunction
<1>9. ASSUME NEW t \in Tasks, RaiseRequired(t) PROVE FailInv'
  <2>1. t # Root /\ top = t /\ pc[t] = "function"
    BY <1>9 DEF RaiseRequired, InFunction
  <2>2. \A u \in Tasks : pc[u] # "entered"
    BY <2>1 DEF StackInv
  <2>3. QED
    BY <1>9, <2>1, <2>2 DEF RaiseRequired
<1>10. ASSUME NEW t \in Tasks, RunNextSubtask(t) PROVE FailInv'
  <2> DEFINE n == subtasks[t][next[t]]
  <2>1. n \in Tasks /\ parent[n] = t
    BY <1>10, NextSubtaskIsChild DEF RunNextSubtask
  <2>2. n # Root
    BY <2>1 DEF TreeInv
  <2>3. CASE MayRun(n)
    <3>1. status[Root] = "ACTIVE"
      BY <1>10, <2>1, <2>3, MayRunUnderActiveRoot DEF RunNextSubtask, StackInv, Attached
    <3>2. QED
      BY <1>10, <2>1, <2>2, <2>3, <3>1 DEF RunNextSubtask
  <2>4. CASE ~MayRun(n)
    BY <1>10, <2>4 DEF RunNextSubtask
  <2>5. QED
    BY <2>3, <2>4
<1>11. ASSUME NEW t \in Tasks, EndProgress(t) PROVE FailInv'
  BY <1>11 DEF EndProgress, Finish
<1>12. ASSUME NEW t \in Tasks, EndCall(t) PROVE FailInv'
  BY <1>12 DEF EndCall, Finish
<1>13. CASE SeeAlive
  BY <1>13 DEF SeeAlive
<1>14. CASE SetStopped
  BY <1>14 DEF SetStopped
<1>15. CASE SetCancelled
  BY <1>15 DEF SetCancelled
<1>16. CASE Terminated \/ UNCHANGED vars
  BY <1>16 DEF Terminated, vars
<1>17. QED
  BY <1>1, <1>2, <1>3, <1>4, <1>5, <1>6, <1>7, <1>8, <1>9, <1>10, <1>11,
     <1>12, <1>13, <1>14, <1>15, <1>16 DEF Next, Worker, Gui

\* cancel() on an active root deactivates it: only what had entered still starts.
LEMMA NextLateInv == TypeOK /\ TreeInv /\ StackInv /\ LateInv /\ [Next]_vars => LateInv'
<1> SUFFICES ASSUME TypeOK, TreeInv, StackInv, LateInv, [Next]_vars PROVE LateInv'
  OBVIOUS
<1> USE TasksAssumption DEF TasksAssumption, TypeOK, LateInv, Status, Points, treeVars
<1>1. CASE Run
  BY <1>1 DEF Run, MayRun, StackInv
<1>2. ASSUME NEW t \in Tasks, Activate(t) PROVE LateInv'
  <2>1. top = t /\ pc[t] = "entered" /\ \A u \in Tasks : pc[u] = "entered" => u = t
    BY <1>2 DEF Activate, StackInv
  <2>2. \A u \in Tasks : pc'[u] # "entered"
    BY <1>2, <2>1 DEF Activate
  <2>3. CASE gui = "cancelled"
    BY <1>2, <2>1, <2>2, <2>3 DEF Activate
  <2>4. CASE gui # "cancelled"
    BY <1>2, <2>1, <2>2, <2>4 DEF Activate
  <2>5. QED
    BY <2>3, <2>4
<1>3. ASSUME NEW t \in Tasks, NEW c \in Tasks, AddSubtask(t, c) PROVE LateInv'
  BY <1>3 DEF AddSubtask, InFunction
<1>4. ASSUME NEW t \in Tasks, NEW c \in Tasks, CallSubtask(t, c) PROVE LateInv'
  <2>1. status[Root] = "ACTIVE"
    BY <1>4, MayRunUnderActiveRoot DEF CallSubtask, InFunction, StackInv, Attached
  <2>2. c # Root
    BY <1>4 DEF CallSubtask, TreeInv
  <2>3. QED
    BY <1>4, <2>1, <2>2 DEF CallSubtask
<1>5. ASSUME NEW t \in Tasks, ProgressRefused(t) PROVE LateInv'
  BY <1>5 DEF ProgressRefused, InFunction
<1>6. ASSUME NEW t \in Tasks, ProgressReachesSize(t) PROVE LateInv'
  BY <1>6 DEF ProgressReachesSize, InFunction
<1>7. ASSUME NEW t \in Tasks, Return(t) PROVE LateInv'
  BY <1>7 DEF Return
<1>8. ASSUME NEW t \in Tasks, RaiseOptional(t) PROVE LateInv'
  BY <1>8 DEF RaiseOptional, InFunction
<1>9. ASSUME NEW t \in Tasks, RaiseRequired(t) PROVE LateInv'
  <2>1. t # Root /\ top = t /\ pc[t] = "function"
    BY <1>9 DEF RaiseRequired, InFunction
  <2>2. \A u \in Tasks : pc[u] # "entered"
    BY <2>1 DEF StackInv
  <2>3. QED
    BY <1>9, <2>1, <2>2 DEF RaiseRequired
<1>10. ASSUME NEW t \in Tasks, RunNextSubtask(t) PROVE LateInv'
  <2> DEFINE n == subtasks[t][next[t]]
  <2>1. n \in Tasks /\ parent[n] = t
    BY <1>10, NextSubtaskIsChild DEF RunNextSubtask
  <2>2. n # Root
    BY <2>1 DEF TreeInv
  <2>3. CASE MayRun(n)
    <3>1. status[Root] = "ACTIVE"
      BY <1>10, <2>1, <2>3, MayRunUnderActiveRoot DEF RunNextSubtask, StackInv, Attached
    <3>2. QED
      BY <1>10, <2>1, <2>2, <2>3, <3>1 DEF RunNextSubtask
  <2>4. CASE ~MayRun(n)
    BY <1>10, <2>4 DEF RunNextSubtask
  <2>5. QED
    BY <2>3, <2>4
<1>11. ASSUME NEW t \in Tasks, EndProgress(t) PROVE LateInv'
  BY <1>11 DEF EndProgress, Finish
<1>12. ASSUME NEW t \in Tasks, EndCall(t) PROVE LateInv'
  BY <1>12 DEF EndCall, Finish
<1>13. CASE SeeAlive
  BY <1>13 DEF SeeAlive
<1>14. CASE SetStopped
  BY <1>14 DEF SetStopped
<1>15. CASE SetCancelled
  BY <1>15 DEF SetCancelled
<1>16. CASE Terminated \/ UNCHANGED vars
  BY <1>16 DEF Terminated, vars
<1>17. QED
  BY <1>1, <1>2, <1>3, <1>4, <1>5, <1>6, <1>7, <1>8, <1>9, <1>10, <1>11,
     <1>12, <1>13, <1>14, <1>15, <1>16 DEF Next, Worker, Gui

\* The plan lists tasks, and not the root.
LEMMA PlanTasks == Len(Plan) \in Nat /\ \A i \in 1..Len(Plan) : Plan[i] \in Tasks \ {Root}
  BY TasksAssumption, ElementOfSeq, LenProperties DEF TasksAssumption

\* The root's loop starts every task of the plan that it passes, as long as the
\* list is not stopped: the root is active, so only a started task is passed over.
LEMMA NextPlanInv == TypeOK /\ TreeInv /\ StackInv /\ OnceInv /\ StopInv /\ PlanInv /\ [Next]_vars => PlanInv'
<1> SUFFICES ASSUME TypeOK, TreeInv, StackInv, OnceInv, StopInv, PlanInv, [Next]_vars PROVE PlanInv'
  OBVIOUS
<1> USE TasksAssumption DEF TasksAssumption, TypeOK, PlanInv, PlanSet, Status, Points, treeVars
<1>1. CASE Run
  BY <1>1 DEF Run, MayRun, TreeInv
<1>2. ASSUME NEW t \in Tasks, Activate(t) PROVE PlanInv'
  <2>1. top = t /\ pc[t] = "entered" /\ starts[t] = 0
    BY <1>2 DEF Activate, OnceInv
  <2>2. pc[Root] # "entered" \/ t = Root
    BY <2>1 DEF StackInv
  <2>3. \A i \in 1..Len(Plan) : Plan[i] \in Tasks
    BY PlanTasks
  <2>4. QED
    BY <1>2, <2>1, <2>2, <2>3 DEF Activate
<1>3. ASSUME NEW t \in Tasks, NEW c \in Tasks, AddSubtask(t, c) PROVE PlanInv'
  BY <1>3 DEF AddSubtask, InFunction
<1>4. ASSUME NEW t \in Tasks, NEW c \in Tasks, CallSubtask(t, c) PROVE PlanInv'
  BY <1>4 DEF CallSubtask, InFunction
<1>5. ASSUME NEW t \in Tasks, ProgressRefused(t) PROVE PlanInv'
  BY <1>5 DEF ProgressRefused, InFunction
<1>6. ASSUME NEW t \in Tasks, ProgressReachesSize(t) PROVE PlanInv'
  BY <1>6 DEF ProgressReachesSize, InFunction
<1>7. ASSUME NEW t \in Tasks, Return(t) PROVE PlanInv'
  BY <1>7 DEF Return
<1>8. ASSUME NEW t \in Tasks, RaiseOptional(t) PROVE PlanInv'
  BY <1>8 DEF RaiseOptional, InFunction
<1>9. ASSUME NEW t \in Tasks, RaiseRequired(t) PROVE PlanInv'
  BY <1>9 DEF RaiseRequired, InFunction
<1>10. ASSUME NEW t \in Tasks, RunNextSubtask(t) PROVE PlanInv'
  <2> DEFINE n == subtasks[t][next[t]]
  <2>1. n \in Tasks /\ parent[n] = t /\ n # Root
    <3>1. n \in Tasks /\ parent[n] = t
      BY <1>10, NextSubtaskIsChild DEF RunNextSubtask
    <3>2. QED
      BY <3>1 DEF TreeInv
  <2>2. \A i \in 1..Len(Plan) : Plan[i] \in Tasks \ {Root}
    BY PlanTasks
  <2>3. /\ status' = status /\ starts' = starts /\ stopped' = stopped /\ subtasks' = subtasks
        /\ next' = [next EXCEPT ![t] = @ + 1]
        /\ pc' = IF MayRun(n) THEN [pc EXCEPT ![n] = "entered"] ELSE pc
    BY <1>10 DEF RunNextSubtask
  <2>4. pc'[Root] = pc[Root]
    BY <2>1, <2>3
  <2>5. \A u \in Tasks : pc[u] = "entered" => pc'[u] = "entered"
    BY <2>1, <2>3
  <2>6. CASE t # Root
    BY <2>2, <2>3, <2>4, <2>5, <2>6
  <2>7. CASE t = Root
    <3>1. ASSUME ~stopped, pc[Root] = "subtasks"
          PROVE  starts[n] = 1 \/ pc'[n] = "entered"
      <4>1. is_active(Root)
        BY <3>1, LineageOfRoot DEF is_active
      <4>2. MayRun(n) \/ status[n] # "INACTIVE"
        BY <2>1, <2>7, <4>1 DEF MayRun
      <4>3. QED
        BY <2>1, <2>3, <4>2 DEF OnceInv
    <3>2. n = Plan[next[Root]] /\ next'[Root] = next[Root] + 1 /\ next[Root] \in Nat
      BY <2>3, <2>7
    <3>3. ASSUME ~stopped, pc[Root] = "subtasks",
                 NEW i \in 1..Len(Plan), i < next[Root] + 1
          PROVE  starts[Plan[i]] = 1 \/ pc'[Plan[i]] = "entered"
      <4>1. CASE i = next[Root]
        BY <3>1, <3>2, <3>3, <4>1
      <4>2. CASE i # next[Root]
        <5>1. i < next[Root]
          BY <3>2, <3>3, <4>2, PlanTasks
        <5>2. starts[Plan[i]] = 1 \/ pc[Plan[i]] = "entered"
          BY <3>3, <5>1
        <5>3. QED
          BY <2>2, <2>5, <5>2
      <4>3. QED
        BY <4>1, <4>2
    <3>4. QED
      BY <2>3, <2>4, <3>2, <3>3
  <2>8. QED
    BY <2>6, <2>7
<1>11. ASSUME NEW t \in Tasks, EndProgress(t) PROVE PlanInv'
  <2>1. t # Root
    BY <1>11 DEF EndProgress, StackInv
  <2>2. QED
    BY <1>11, <2>1, PlanTasks DEF EndProgress, Finish
<1>12. ASSUME NEW t \in Tasks, EndCall(t) PROVE PlanInv'
  <2>1. \A i \in 1..Len(Plan) : Plan[i] \in Tasks \ {Root}
    BY PlanTasks
  <2>2. Len(Plan) \in Nat
    BY PlanTasks
  <2>3. CASE t = Root
    <3>1. \A u \in Tasks \ {Root} : pc[u] # "entered"
      BY <1>12, <2>3 DEF EndCall, StackInv
    <3>2. next[Root] > Len(Plan) /\ pc[Root] = "subtasks"
      BY <1>12, <2>3 DEF EndCall
    <3>3. ~stopped => \A i \in 1..Len(Plan) : starts[Plan[i]] = 1
      BY <2>1, <2>2, <3>1, <3>2
    <3>4. /\ pc'[Root] = "returned" /\ starts' = starts
          /\ stopped' = stopped /\ subtasks' = subtasks
      BY <1>12, <2>3 DEF EndCall
    <3>5. QED
      BY <3>3, <3>4
  <2>4. CASE t # Root
    BY <1>12, <2>1, <2>4 DEF EndCall, Finish
  <2>5. QED
    BY <2>3, <2>4
<1>13. CASE SeeAlive
  BY <1>13 DEF SeeAlive
<1>14. CASE SetStopped
  BY <1>14 DEF SetStopped
<1>15. CASE SetCancelled
  BY <1>15 DEF SetCancelled, StopInv
<1>16. CASE Terminated \/ UNCHANGED vars
  BY <1>16 DEF Terminated, vars
<1>17. QED
  BY <1>1, <1>2, <1>3, <1>4, <1>5, <1>6, <1>7, <1>8, <1>9, <1>10, <1>11,
     <1>12, <1>13, <1>14, <1>15, <1>16 DEF Next, Worker, Gui

\* What is on the stack when its top returns, other than the top, is in the
\* lineage of the caller; nothing but the root has no caller.
LEMMA StackWithoutTop ==
  ASSUME TypeOK, TreeInv, StackInv, QuietInv, NEW t \in Tasks, top = t,
         NEW u \in Tasks, u # t, pc[u] \in Called
  PROVE  parent[t] # None /\ u \in Lineage(parent[t])
<1>1. u \in Lineage(t) /\ Attached(t)
  BY DEF QuietInv, StackInv
<1>2. t # Root
  BY <1>1, LineageOfRoot
<1>3. parent[t] \in Tasks
  BY <1>1, <1>2 DEF Attached, TypeOK
<1>4. QED
  BY <1>1, <1>3, LineageOfChild, TasksAssumption DEF TasksAssumption

\* When finish() marks the top of the stack, nothing below it is entered or
\* ACTIVE: what is on the stack is above it.
LEMMA FinishIsQuiet ==
  ASSUME TypeOK, TreeInv, StackInv, QuietInv, NEW t \in Tasks, top = t,
         pc[t] \in {"progress", "subtasks"},
         NEW u \in Tasks, u # t, t \in Lineage(u)
  PROVE  pc[u] # "entered" /\ status[u] # "ACTIVE"
<1> SUFFICES ASSUME pc[u] \in Called PROVE FALSE
  BY DEF QuietInv, Called
<1>1. u \in Lineage(t)
  BY DEF QuietInv
<1>2. QED
  BY <1>1, LineageAntisymmetric

\* What a step that keeps the lineages has to show.
LEMMA QuietAfter ==
  ASSUME top' \in Tasks \cup {None},
         \A u \in Tasks : Lineage(u)' = Lineage(u),
         \A u \in Tasks : pc'[u] \in Called => top' # None /\ u \in Lineage(top'),
         \A u \in Tasks : status'[u] = "ACTIVE" => pc'[u] \in Called \ {"entered"},
         \A u \in Tasks : pc'[u] = "entered" \/ status'[u] = "ACTIVE" =>
            \A a \in Lineage(u) : status'[a] # "COMPLETED"
  PROVE  QuietInv'
<1>1. \A u \in Tasks : pc'[u] \in Called => top' # None /\ u \in Lineage(top)'
  <2>1. top' # None => Lineage(top)' = Lineage(top')
    OBVIOUS
  <2>2. QED
    BY <2>1
<1>2. \A u \in Tasks : pc'[u] = "entered" \/ status'[u] = "ACTIVE" =>
        \A a \in Lineage(u)' : status'[a] # "COMPLETED"
  OBVIOUS
<1>3. QED
  BY <1>1, <1>2 DEF QuietInv, CompletedIsQuiet

\* A step that leaves the stack alone and makes nothing ACTIVE or COMPLETED.
LEMMA QuietKept ==
  ASSUME TypeOK, QuietInv, top' = top, parent' = parent,
         \A u \in Tasks : /\ pc'[u] \in Called => pc[u] \in Called
                          /\ pc'[u] = "entered" => pc[u] = "entered"
                          /\ pc[u] \in Called \ {"entered"} => pc'[u] \in Called \ {"entered"},
         \A u \in Tasks : /\ status'[u] = "ACTIVE" => status[u] = "ACTIVE"
                          /\ status'[u] = "COMPLETED" => status[u] = "COMPLETED"
  PROVE  QuietInv'
<1>1. \A u \in Tasks : Lineage(u)' = Lineage(u)
  BY DEF Lineage
<1>2. top' \in Tasks \cup {None}
  BY DEF TypeOK
<1>3. ASSUME NEW u \in Tasks, pc'[u] \in Called PROVE top' # None /\ u \in Lineage(top')
  <2>1. pc[u] \in Called
    BY <1>3
  <2>2. top # None /\ u \in Lineage(top)
    BY <2>1 DEF QuietInv
  <2>3. QED
    BY <2>2
<1>4. ASSUME NEW u \in Tasks, status'[u] = "ACTIVE" PROVE pc'[u] \in Called \ {"entered"}
  <2>1. status[u] = "ACTIVE"
    BY <1>4
  <2>2. pc[u] \in Called \ {"entered"}
    BY <2>1 DEF QuietInv
  <2>3. QED
    BY <2>2
<1>5. ASSUME NEW u \in Tasks, pc'[u] = "entered" \/ status'[u] = "ACTIVE",
             NEW a \in Lineage(u)
      PROVE  status'[a] # "COMPLETED"
  <2>1. a \in Tasks /\ (pc[u] = "entered" \/ status[u] = "ACTIVE")
    BY <1>5 DEF Lineage
  <2>2. status[a] # "COMPLETED"
    BY <2>1, <1>5 DEF QuietInv, CompletedIsQuiet
  <2>3. QED
    BY <2>1, <2>2
<1>6. QED
  BY <1>1, <1>2, <1>3, <1>4, <1>5, QuietAfter

\* The step of a call whose guard has passed: the callee goes onto the stack,
\* below ancestors that are all ACTIVE.
LEMMA CallIsQuiet ==
  ASSUME TypeOK, TreeInv, StackInv, QuietInv, NEW t \in Tasks, NEW c \in Tasks,
         top = t, parent[c] = t, MayRun(c), top' = c,
         pc' = [pc EXCEPT ![c] = "entered"], status' = status, parent' = parent
  PROVE  QuietInv'
<1>1. \A u \in Tasks : Lineage(u)' = Lineage(u)
  BY DEF Lineage
<1>2. Lineage(c) = {c} \cup Lineage(t) /\ c # None
  BY LineageOfChild, TasksAssumption DEF TasksAssumption
<1>3. status[c] = "INACTIVE" /\ \A a \in Lineage(t) : status[a] = "ACTIVE"
  BY TasksAssumption DEF MayRun, is_active, TasksAssumption
<1>4. \A u \in Tasks : pc'[u] \in Called => top' # None /\ u \in Lineage(top')
  BY <1>2 DEF QuietInv, TypeOK
<1>5. \A u \in Tasks : status[u] = "ACTIVE" => pc'[u] \in Called \ {"entered"}
  BY <1>3 DEF QuietInv, TypeOK
<1>6. \A u \in Tasks : pc'[u] = "entered" => \A a \in Lineage(u) : status[a] # "COMPLETED"
  BY <1>2, <1>3 DEF QuietInv, TypeOK
<1>7. QED
  BY <1>1, <1>4, <1>5, <1>6 DEF QuietInv, CompletedIsQuiet

\* The step of a task that leaves the stack.
LEMMA ReturnIsQuiet ==
  ASSUME TypeOK, TreeInv, StackInv, QuietInv, NEW t \in Tasks, top = t,
         pc[t] \in {"function", "subtasks"}, top' = parent[t],
         pc' = [pc EXCEPT ![t] = "returned"], parent' = parent,
         \/ /\ pc[t] = "subtasks"
            /\ status' = [status EXCEPT ![t] = "COMPLETED"]
         \/ status' = [status EXCEPT ![t] = "FAILED", ![Root] = "CANCELLED"]
  PROVE  QuietInv'
<1>1. \A u \in Tasks : Lineage(u)' = Lineage(u)
  BY DEF Lineage
<1>2. \A u \in Tasks : pc'[u] \in Called => u # t /\ pc[u] \in Called
  BY DEF TypeOK, Called
<1>3. \A u \in Tasks : pc'[u] \in Called => top' # None /\ u \in Lineage(top')
  BY <1>2, StackWithoutTop
<1>4. \A u \in Tasks : status'[u] = "ACTIVE" => u # t /\ status[u] = "ACTIVE"
  BY TasksAssumption DEF TypeOK, TasksAssumption
<1>5. \A u \in Tasks : status'[u] = "ACTIVE" => pc'[u] \in Called \ {"entered"}
  BY <1>4 DEF QuietInv, TypeOK
<1>6. \A a \in Tasks : status'[a] = "COMPLETED" =>
        status[a] = "COMPLETED" \/ (a = t /\ pc[t] = "subtasks")
  BY TasksAssumption DEF TypeOK, TasksAssumption
<1>7. ASSUME NEW u \in Tasks, pc'[u] = "entered" \/ status'[u] = "ACTIVE",
             NEW a \in Lineage(u)
      PROVE  status'[a] # "COMPLETED"
  <2>1. u # t /\ (pc[u] = "entered" \/ status[u] = "ACTIVE") /\ a \in Tasks
    BY <1>4, <1>7 DEF TypeOK, Lineage
  <2>2. status[a] # "COMPLETED"
    BY <2>1, <1>7 DEF QuietInv, CompletedIsQuiet
  <2>3. pc[t] = "subtasks" => a # t
    BY <2>1, <1>7, FinishIsQuiet
  <2>4. QED
    BY <1>6, <2>1, <2>2, <2>3
<1>8. top' \in Tasks \cup {None}
  BY DEF TypeOK
<1>9. QED
  BY <1>1, <1>3, <1>5, <1>7, <1>8, QuietAfter

\* finish() only ever marks the top of the stack, and a call only enters below
\* ancestors that are ACTIVE, so nothing runs below a COMPLETED task.
LEMMA NextQuietInv ==
  TypeOK /\ TreeInv /\ StackInv /\ QuietInv /\ [Next]_vars => QuietInv'
<1> SUFFICES ASSUME TypeOK, TreeInv, StackInv, QuietInv, [Next]_vars PROVE QuietInv'
  OBVIOUS
<1> USE TasksAssumption DEF TasksAssumption, treeVars
<1>1. ASSUME parent' = parent PROVE \A u \in Tasks : Lineage(u)' = Lineage(u)
  BY <1>1 DEF Lineage
<1>2. CASE Run
  <2>1. \A u \in Tasks : pc[u] \notin Called
    BY <1>2 DEF Run, QuietInv
  <2>2. Root \in Lineage(Root) /\ \A a \in Lineage(Root) : a = Root
    BY LineageOfRoot
  <2>3. parent' = parent /\ status' = status
    BY <1>2 DEF Run
  <2>4. \A u \in Tasks : status[u] # "ACTIVE"
    BY <2>1 DEF QuietInv
  <2>5. \/ top' = Root /\ pc' = [pc EXCEPT ![Root] = "entered"] /\ status[Root] = "INACTIVE"
        \/ top' = None /\ pc' = [pc EXCEPT ![Root] = "returned"]
    BY <1>2 DEF Run, MayRun
  <2>6. \A u \in Tasks : pc'[u] \in Called =>
          u = Root /\ top' = Root /\ status[Root] = "INACTIVE"
    BY <2>1, <2>5 DEF TypeOK, Called
  <2>7. QED
    BY <1>1, <2>2, <2>3, <2>4, <2>6 DEF QuietInv, CompletedIsQuiet, Called
<1>3. ASSUME NEW t \in Tasks, Activate(t) PROVE QuietInv'
  <2>1. /\ top' = top /\ parent' = parent /\ pc[t] = "entered"
        /\ status' = [status EXCEPT ![t] = "ACTIVE"]
        /\ pc' = [pc EXCEPT ![t] = "function"]
    BY <1>3 DEF Activate
  <2>2. \A u \in Tasks : Lineage(u)' = Lineage(u)
    BY <1>1, <2>1
  <2>3. \A u \in Tasks : pc'[u] \in Called => top' # None /\ u \in Lineage(top')
    BY <2>1 DEF QuietInv, TypeOK, Called
  <2>4. \A u \in Tasks : status'[u] = "ACTIVE" => pc'[u] \in Called \ {"entered"}
    BY <2>1 DEF QuietInv, TypeOK, Called
  <2>5. ASSUME NEW u \in Tasks, pc'[u] = "entered" \/ status'[u] = "ACTIVE",
               NEW a \in Lineage(u)
        PROVE  status'[a] # "COMPLETED"
    <3>1. a \in Tasks /\ (pc[u] = "entered" \/ status[u] = "ACTIVE")
      BY <2>1, <2>5 DEF TypeOK, Lineage
    <3>2. status[a] # "COMPLETED"
      BY <3>1, <2>5 DEF QuietInv, CompletedIsQuiet
    <3>3. QED
      BY <2>1, <3>1, <3>2 DEF TypeOK
  <2>6. top' \in Tasks \cup {None}
    BY <2>1 DEF TypeOK
  <2>7. QED
    BY <2>2, <2>3, <2>4, <2>5, <2>6, QuietAfter
<1>4. ASSUME NEW t \in Tasks, NEW c \in Tasks, AddSubtask(t, c) PROVE QuietInv'
  <2>1. /\ ~Attached(c) /\ parent' = [parent EXCEPT ![c] = t]
        /\ status' = status /\ pc' = pc /\ top' = top
    BY <1>4 DEF AddSubtask
  <2>2. \A u \in Tasks : Attached(u) => Lineage(u)' = Lineage(u)
    BY <2>1, LineageKept
  <2>3. \A u \in Tasks : pc[u] \in Called => Attached(u)
    BY LineageIsAttached DEF QuietInv, StackInv, TypeOK
  <2>4. \A u \in Tasks : pc[u] = "entered" \/ status[u] = "ACTIVE" => Attached(u)
    BY <2>3 DEF QuietInv, Called
  <2>5. top # None => Attached(top) /\ top \in Tasks
    BY DEF StackInv, TypeOK
  <2>6. QED
    BY <2>1, <2>2, <2>4, <2>5 DEF QuietInv, CompletedIsQuiet
<1>5. ASSUME NEW t \in Tasks, NEW c \in Tasks, CallSubtask(t, c) PROVE QuietInv'
  BY <1>5, CallIsQuiet DEF CallSubtask, InFunction
<1>6. ASSUME NEW t \in Tasks, ProgressReachesSize(t) \/ Return(t) \/ RaiseOptional(t)
      PROVE  QuietInv'
  <2>1. /\ top' = top /\ parent' = parent /\ pc[t] = "function"
        /\ \/ status' = status
           \/ status' = [status EXCEPT ![t] = "FAILED"]
        /\ \/ pc' = [pc EXCEPT ![t] = "progress"]
           \/ pc' = [pc EXCEPT ![t] = "subtasks"]
    BY <1>6 DEF ProgressReachesSize, Return, RaiseOptional, InFunction
  <2>2. \A u \in Tasks : /\ pc'[u] \in Called => pc[u] \in Called
                         /\ pc'[u] = "entered" => pc[u] = "entered"
                         /\ pc[u] \in Called \ {"entered"} => pc'[u] \in Called \ {"entered"}
    BY <2>1 DEF TypeOK, Called
  <2>3. \A u \in Tasks : /\ status'[u] = "ACTIVE" => status[u] = "ACTIVE"
                         /\ status'[u] = "COMPLETED" => status[u] = "COMPLETED"
    BY <2>1 DEF TypeOK
  <2>4. QED
    BY <2>1, <2>2, <2>3, QuietKept
<1>7. ASSUME NEW t \in Tasks, RaiseRequired(t) PROVE QuietInv'
  BY <1>7, ReturnIsQuiet DEF RaiseRequired, InFunction
<1>8. ASSUME NEW t \in Tasks, RunNextSubtask(t) PROVE QuietInv'
  <2> DEFINE n == subtasks[t][next[t]]
  <2>1. n \in Tasks /\ parent[n] = t
    BY <1>8, NextSubtaskIsChild DEF RunNextSubtask
  <2>2. CASE MayRun(n)
    <3>1. /\ top = t /\ top' = n /\ pc' = [pc EXCEPT ![n] = "entered"]
          /\ status' = status /\ parent' = parent
      BY <1>8, <2>2 DEF RunNextSubtask
    <3>2. QED
      BY <2>1, <2>2, <3>1, CallIsQuiet
  <2>3. CASE ~MayRun(n)
    <3>1. top' = top /\ pc' = pc /\ status' = status /\ parent' = parent
      BY <1>8, <2>3 DEF RunNextSubtask
    <3>2. QED
      BY <3>1, QuietKept
  <2>4. QED
    BY <2>2, <2>3
<1>9. ASSUME NEW t \in Tasks, EndProgress(t) PROVE QuietInv'
  <2>1. /\ top = t /\ top' = top /\ parent' = parent /\ pc[t] = "progress"
        /\ status' = [status EXCEPT ![t] = "COMPLETED"]
        /\ pc' = [pc EXCEPT ![t] = "function"]
    BY <1>9 DEF EndProgress, Finish
  <2>2. \A u \in Tasks : Lineage(u)' = Lineage(u)
    BY <1>1, <2>1
  <2>3. \A u \in Tasks : pc'[u] \in Called => top' # None /\ u \in Lineage(top')
    BY <2>1 DEF QuietInv, TypeOK, Called
  <2>4. \A u \in Tasks : status'[u] = "ACTIVE" => pc'[u] \in Called \ {"entered"}
    BY <2>1 DEF QuietInv, TypeOK, Called
  <2>5. ASSUME NEW u \in Tasks, pc'[u] = "entered" \/ status'[u] = "ACTIVE",
               NEW a \in Lineage(u)
        PROVE  status'[a] # "COMPLETED"
    <3>1. a \in Tasks /\ u # t /\ (pc[u] = "entered" \/ status[u] = "ACTIVE")
      BY <2>1, <2>5 DEF TypeOK, Lineage
    <3>2. status[a] # "COMPLETED"
      BY <3>1, <2>5 DEF QuietInv, CompletedIsQuiet
    <3>3. a # t
      BY <2>1, <2>5, <3>1, FinishIsQuiet
    <3>4. QED
      BY <2>1, <3>1, <3>2, <3>3 DEF TypeOK
  <2>6. top' \in Tasks \cup {None}
    BY <2>1 DEF TypeOK
  <2>7. QED
    BY <2>2, <2>3, <2>4, <2>5, <2>6, QuietAfter
<1>10. ASSUME NEW t \in Tasks, EndCall(t) PROVE QuietInv'
  BY <1>10, ReturnIsQuiet DEF EndCall, Finish
<1>11. CASE SetCancelled
  <2>1. /\ top' = top /\ parent' = parent /\ pc' = pc
        /\ status' = [status EXCEPT ![Root] = "CANCELLED"]
    BY <1>11 DEF SetCancelled
  <2>2. \A u \in Tasks : /\ status'[u] = "ACTIVE" => status[u] = "ACTIVE"
                         /\ status'[u] = "COMPLETED" => status[u] = "COMPLETED"
    BY <2>1 DEF TypeOK
  <2>3. QED
    BY <2>1, <2>2, QuietKept
<1>12. ASSUME \/ \E t \in Tasks : ProgressRefused(t)
              \/ SeeAlive \/ SetStopped \/ Terminated \/ UNCHANGED vars
       PROVE  QuietInv'
  <2>1. top' = top /\ parent' = parent /\ pc' = pc /\ status' = status
    BY <1>12 DEF ProgressRefused, SeeAlive, SetStopped, Terminated, vars
  <2>2. QED
    BY <2>1, QuietKept
<1>13. QED
  BY <1>2, <1>3, <1>4, <1>5, <1>6, <1>7, <1>8, <1>9, <1>10, <1>11, <1>12
     DEF Next, Worker, Gui

\* A call returns through finish(), or the list has been stopped.
LEMMA NextReturnInv ==
  TypeOK /\ TreeInv /\ OnceInv /\ StopInv /\ PlanInv /\ ReturnInv /\ [Next]_vars => ReturnInv'
<1> SUFFICES ASSUME TypeOK, TreeInv, OnceInv, StopInv, PlanInv, ReturnInv, [Next]_vars
             PROVE  ReturnInv'
  OBVIOUS
<1> USE TasksAssumption DEF TasksAssumption, TypeOK, ReturnInv, treeVars
<1>1. CASE Run
  <2>1. ~stopped => MayRun(Root)
    BY <1>1 DEF Run, MayRun, PlanInv, TreeInv
  <2>2. QED
    BY <1>1, <2>1 DEF Run
<1>2. ASSUME NEW t \in Tasks, Activate(t) PROVE ReturnInv'
  BY <1>2 DEF Activate
<1>3. ASSUME NEW t \in Tasks, NEW c \in Tasks, CallSubtask(t, c) PROVE ReturnInv'
  BY <1>3 DEF CallSubtask, MayRun
<1>4. ASSUME NEW t \in Tasks, RunNextSubtask(t) PROVE ReturnInv'
  <2> DEFINE n == subtasks[t][next[t]]
  <2>1. \/ pc' = pc
        \/ n \in Tasks /\ pc' = [pc EXCEPT ![n] = "entered"]
    BY <1>4, NextSubtaskIsChild DEF RunNextSubtask
  <2>2. QED
    BY <1>4, <2>1 DEF RunNextSubtask
<1>5. ASSUME NEW t \in Tasks, RaiseOptional(t) PROVE ReturnInv'
  BY <1>5 DEF RaiseOptional, InFunction
<1>6. ASSUME NEW t \in Tasks, RaiseRequired(t) PROVE ReturnInv'
  BY <1>6 DEF RaiseRequired, InFunction
<1>7. ASSUME NEW t \in Tasks, EndProgress(t) PROVE ReturnInv'
  BY <1>7 DEF EndProgress, Finish
<1>8. ASSUME NEW t \in Tasks, EndCall(t) PROVE ReturnInv'
  BY <1>8 DEF EndCall, Finish
<1>9. CASE SetCancelled
  BY <1>9 DEF SetCancelled, StopInv
<1>10. ASSUME NEW t \in Tasks, ProgressReachesSize(t) \/ Return(t) PROVE ReturnInv'
  BY <1>10 DEF ProgressReachesSize, Return, InFunction
<1>11. ASSUME \/ \E t \in Tasks : ProgressRefused(t) \/ \E c \in Tasks : AddSubtask(t, c)
              \/ SeeAlive \/ SetStopped \/ Terminated \/ UNCHANGED vars
       PROVE  ReturnInv'
  BY <1>11 DEF ProgressRefused, AddSubtask, SeeAlive, SetStopped, Terminated, vars
<1>12. QED
  BY <1>1, <1>2, <1>3, <1>4, <1>5, <1>6, <1>7, <1>8, <1>9, <1>10, <1>11
     DEF Next, Worker, Gui

-----------------------------------------------------------------------------
(* The theorems.                                                           *)

\* The initial state satisfies every part.
LEMMA InitIInv == Init => IInv
<1> SUFFICES ASSUME Init PROVE IInv
  OBVIOUS
<1> USE TasksAssumption DEF TasksAssumption, Init
<1>1. TypeOK
  BY InitTypeOK
<1>2. TreeInv
  <2>1. parent[Root] = None
    <3>1. Root \notin PlanSet
      BY PlanTasks DEF PlanSet
    <3>2. QED
      BY <3>1
  <2>2. \A t \in Tasks : parent[t] # None => Attached(parent[t])
    BY DEF Attached
  <2>3. \A t \in Tasks : \A i \in 1..Len(subtasks[t]) : parent[subtasks[t][i]] = t
    BY PlanTasks, EmptySeq DEF PlanSet
  <2>4. ASSUME NEW S \in SUBSET Tasks, Closed(S), NEW x \in S, Attached(x)
        PROVE  Root \in S
    BY <2>4 DEF Closed, Attached
  <2>5. QED
    BY <2>1, <2>2, <2>3, <2>4 DEF TreeInv
<1>3. StackInv /\ OnceInv /\ FailInv /\ StopInv /\ LateInv
  BY DEF StackInv, OnceInv, FailInv, StopInv, LateInv
<1>4. PlanInv
  BY DEF PlanInv
<1>5. QuietInv /\ ReturnInv
  BY DEF QuietInv, ReturnInv, CompletedIsQuiet, Called
<1>6. QED
  BY <1>1, <1>2, <1>3, <1>4, <1>5 DEF IInv

\* Every step of either thread preserves every part.
LEMMA NextIInv == IInv /\ [Next]_vars => IInv'
  BY NextTypeOK, NextTreeInv, NextStackInv, NextOnceInv, NextFailInv, NextStopInv,
     NextLateInv, NextPlanInv, NextQuietInv, NextReturnInv DEF IInv

\* The inductive invariant holds throughout.
THEOREM Invariant == Spec => []IInv
  BY InitIInv, NextIInv, PTL DEF Spec

\* No function of any task is started twice (Task.__call__).
THEOREM AtMostOnce == Spec => []RunsAtMostOnce
<1>1. IInv => RunsAtMostOnce
  BY DEF IInv, OnceInv, RunsAtMostOnce
<1>2. QED
  BY <1>1, Invariant, PTL

\* A COMPLETED status is worth what the callers take it for: nothing below it
\* still runs (finish() comes last on both of its paths), and a list that ended
\* without having been stopped has completed all of its plan.
THEOREM CompletionIsDone == Spec => []CompletionMeansDone
<1>1. ASSUME IInv, ~Alive, ~stopped PROVE \A t \in PlanSet \cup {Root} : status[t] = "COMPLETED"
  <2>1. pc[Root] = "returned"
    BY <1>1 DEF Alive
  <2>2. top = None /\ \A t \in Tasks : pc[t] \notin Called
    BY <1>1, <2>1 DEF IInv, StackInv, QuietInv
  <2>3. \A t \in PlanSet : t \in Tasks /\ starts[t] = 1
    BY <1>1, <2>1, PlanTasks DEF IInv, PlanInv, PlanSet
  <2>4. \A t \in PlanSet : pc[t] = "returned"
    BY <1>1, <2>2, <2>3 DEF IInv, ReturnInv, TypeOK, Points, Called
  <2>5. QED
    BY <1>1, <2>1, <2>3, <2>4, TasksAssumption DEF TasksAssumption, IInv, ReturnInv
<1>2. IInv => CompletionMeansDone
  BY <1>1 DEF CompletionMeansDone, CleanRunCompletes, IInv, QuietInv
<1>3. QED
  BY <1>2, Invariant, PTL

\* Cancelling an active list lets at most one function start afterwards.
THEOREM CancelTakesEffect == Spec => []LateStartBound
<1>1. IInv => LateStartBound
  BY DEF IInv, LateInv, LateStartBound, TypeOK
<1>2. QED
  BY <1>1, Invariant, PTL

\* No function starts after a required one has failed (Task.__call__ cancels
\* the root before it returns).
THEOREM FailureStopsTheList == Spec => NoStartAfterFailure
<1>1. IInv /\ [Next]_vars => [error # None => starts' = starts]_vars
  <2> SUFFICES ASSUME IInv, Next, error # None PROVE starts' = starts
    BY DEF vars
  <2>1. \A t \in Tasks : ~Activate(t)
    BY DEF IInv, FailInv, Activate
  <2>2. QED
    BY <2>1 DEF Next, Worker, Gui, Terminated, vars, Run, AddSubtask, CallSubtask,
       ProgressRefused, ProgressReachesSize, Return, RaiseOptional, RaiseRequired,
       RunNextSubtask, EndProgress, EndCall, SeeAlive, SetStopped, SetCancelled
<1>2. QED
  BY <1>1, Invariant, PTL DEF Spec, NoStartAfterFailure

\* An attached task stays attached: nothing detaches a task.
LEMMA AttachedStays == \A t \in Tasks : TypeOK /\ Attached(t) /\ [Next]_vars => Attached(t)'
<1> SUFFICES ASSUME NEW t \in Tasks, TypeOK, Attached(t), [Next]_vars PROVE Attached(t)'
  OBVIOUS
<1>1. ASSUME NEW u \in Tasks, NEW c \in Tasks, AddSubtask(u, c) PROVE Attached(t)'
  BY <1>1 DEF AddSubtask, Attached, TypeOK
<1>2. CASE parent' = parent
  BY <1>2 DEF Attached
<1>3. QED
  BY <1>1, <1>2 DEF Next, Worker, Gui, Terminated, vars, Run, Activate, CallSubtask,
     ProgressRefused, ProgressReachesSize, Return, RaiseOptional, RaiseRequired,
     RunNextSubtask, EndProgress, EndCall, SeeAlive, SetStopped, SetCancelled

\* In a reachable state an attached task is cancelled exactly when the root's
\* event is set.
LEMMA CancelledIsStopped ==
  ASSUME IInv, NEW t \in Tasks, Attached(t) PROVE is_cancelled(t) <=> stopped
<1>1. Root \in Lineage(t)
  BY LineageHasRoot DEF IInv
<1>2. \A a \in Lineage(t) : a \in Tasks
  BY DEF Lineage
<1>3. QED
  BY <1>1, <1>2 DEF is_cancelled, IInv, StopInv

\* Once set_progress has answered True it never answers False again.
THEOREM CancelStays == Spec => CancelIsSticky
<1>1. IInv /\ IInv' /\ [Next]_vars =>
        [\A t \in Tasks : Attached(t) /\ is_cancelled(t) => is_cancelled(t)']_vars
  <2> SUFFICES ASSUME IInv, IInv', [Next]_vars,
                      NEW t \in Tasks, Attached(t), is_cancelled(t)
               PROVE  is_cancelled(t)'
    OBVIOUS
  <2>1. stopped
    BY CancelledIsStopped
  <2>2. stopped'
    BY <2>1 DEF Next, Worker, Gui, Terminated, vars, Run, Activate, AddSubtask,
       CallSubtask, ProgressRefused, ProgressReachesSize, Return, RaiseOptional,
       RaiseRequired, RunNextSubtask, EndProgress, EndCall, SeeAlive, SetStopped,
       SetCancelled
  <2>3. Attached(t)'
    BY AttachedStays DEF IInv
  <2>4. Root \in Lineage(t)'
    BY <2>3, TasksAssumption
       DEF TasksAssumption, Lineage, IInv, TreeInv, Closed, Attached, TypeOK
  <2>5. QED
    BY <2>2, <2>4 DEF is_cancelled
<1>2. QED
  BY <1>1, Invariant, PTL DEF Spec, CancelIsSticky

-----------------------------------------------------------------------------
(* The tree implements the contract.                                       *)

\* What has begun, as the contract sees it.
Begun == {t \in Tasks : starts[t] > 0}

\* The initial states agree.
LEMMA InitContract == Init => Contract!Init
  BY TasksAssumption DEF TasksAssumption, Init, Contract!Init, Alive

\* Every step of the tree is a step of the contract, or changes nothing that
\* the contract can see.
LEMMA NextContract == IInv /\ IInv' /\ [Next]_vars => [Contract!Next]_(Contract!vars)
<1> SUFFICES ASSUME IInv, IInv', [Next]_vars PROVE [Contract!Next]_(Contract!vars)
  OBVIOUS
<1> USE TasksAssumption DEF TasksAssumption, Contract!vars, Alive
<1>1. CASE Run
  <2>1. starts' = starts /\ stopped' = stopped /\ error' = error
    BY <1>1 DEF Run
  <2>2. CASE MayRun(Root)
    BY <1>1, <2>1, <2>2 DEF Run, IInv, TypeOK
  <2>3. CASE ~MayRun(Root)
    <3>1. stopped
      BY <1>1, <2>3 DEF Run, MayRun, IInv, PlanInv, TreeInv
    <3>2. Contract!End
      BY <1>1, <2>1, <2>3, <3>1 DEF Run, Contract!End, IInv, TypeOK
    <3>3. QED
      BY <3>2 DEF Contract!Next
  <2>4. QED
    BY <2>2, <2>3
<1>2. ASSUME NEW t \in Tasks, Activate(t) PROVE [Contract!Next]_(Contract!vars)
  <2>1. error = None /\ error' = None
    BY <1>2 DEF Activate, IInv, FailInv
  <2>2. starts[t] = 0 /\ pc[Root] # "returned"
    BY <1>2 DEF Activate, IInv, OnceInv, StackInv
  <2>3. starts' = [starts EXCEPT ![t] = 1] /\ stopped' = stopped /\ pc'[Root] # "returned"
    BY <1>2, <2>2 DEF Activate, IInv, TypeOK
  <2>4. Begun' = Begun \cup {t} /\ t \notin Begun
    BY <2>2, <2>3 DEF Begun, IInv, TypeOK
  <2>5. Contract!Begin(t)
    BY <2>1, <2>2, <2>3, <2>4 DEF Contract!Begin, Begun
  <2>6. QED
    BY <2>5 DEF Contract!Next
<1>3. ASSUME NEW t \in Tasks, RaiseRequired(t) PROVE [Contract!Next]_(Contract!vars)
  <2>1. t # Root /\ top = t /\ pc[t] = "function" /\ t # None
    BY <1>3 DEF RaiseRequired, InFunction
  <2>2. starts[t] = 1 /\ pc[Root] # "returned"
    BY <2>1 DEF IInv, OnceInv, StackInv
  <2>3. Begun # {}
    BY <2>2 DEF Begun
  <2>4. /\ starts' = starts /\ stopped' = TRUE /\ error' = t
        /\ pc'[Root] = pc[Root]
    BY <1>3, <2>1 DEF RaiseRequired, IInv, TypeOK
  <2>5. Contract!Fail
    BY <2>1, <2>2, <2>3, <2>4 DEF Contract!Fail, Begun
  <2>6. QED
    BY <2>5 DEF Contract!Next
<1>4. ASSUME NEW t \in Tasks, EndCall(t) PROVE [Contract!Next]_(Contract!vars)
  <2>1. starts' = starts /\ stopped' = stopped /\ error' = error
    BY <1>4 DEF EndCall
  <2>2. CASE t # Root
    BY <1>4, <2>1, <2>2 DEF EndCall, IInv, TypeOK
  <2>3. CASE t = Root
    <3>1. pc'[Root] = "returned"
      BY <1>4, <2>3 DEF EndCall, IInv, TypeOK
    <3>2. ~stopped => \A u \in PlanSet : starts[u] = 1
      BY <2>1, <3>1 DEF IInv, PlanInv
    <3>3. PlanSet \subseteq Tasks
      BY PlanTasks DEF PlanSet
    <3>4. Contract!End
      BY <2>1, <3>1, <3>2, <3>3 DEF Contract!End
    <3>5. QED
      BY <3>4 DEF Contract!Next
  <2>4. QED
    BY <2>2, <2>3
<1>5. ASSUME NEW t \in Tasks,
             \/ \E c \in Tasks : AddSubtask(t, c) \/ CallSubtask(t, c)
             \/ ProgressRefused(t) \/ ProgressReachesSize(t)
             \/ Return(t) \/ RaiseOptional(t) \/ RunNextSubtask(t) \/ EndProgress(t)
      PROVE  [Contract!Next]_(Contract!vars)
  <2>1. starts' = starts /\ stopped' = stopped /\ error' = error
    BY <1>5 DEF AddSubtask, CallSubtask, ProgressRefused, ProgressReachesSize, Return,
       RaiseOptional, RunNextSubtask, EndProgress
  <2>2. pc[Root] # "returned"
    BY <1>5 DEF AddSubtask, CallSubtask, ProgressRefused, ProgressReachesSize, Return,
       RaiseOptional, RunNextSubtask, EndProgress, InFunction, IInv, StackInv
  <2>3. pc'[Root] # "returned"
    <3>1. \/ pc' = pc
          \/ \E u : \E v \in Points \ {"returned"} : pc' = [pc EXCEPT ![u] = v]
      BY <1>5 DEF AddSubtask, CallSubtask, ProgressRefused, ProgressReachesSize,
         Return, RaiseOptional, RunNextSubtask, EndProgress, Points
    <3>2. QED
      BY <2>2, <3>1 DEF IInv, TypeOK
  <2>4. QED
    BY <2>1, <2>2, <2>3
<1>6. CASE SetStopped
  <2>1. Contract!Halt
    BY <1>6 DEF SetStopped, Contract!Halt
  <2>2. QED
    BY <2>1 DEF Contract!Next
<1>7. CASE SeeAlive \/ SetCancelled \/ Terminated \/ UNCHANGED vars
  BY <1>7 DEF SeeAlive, SetCancelled, Terminated, vars
<1>8. QED
  BY <1>1, <1>2, <1>3, <1>4, <1>5, <1>6, <1>7 DEF Next, Worker, Gui

\* Task.__call__, set_progress and cancel, in both threads, do what the
\* contract promises to the code that runs a list.
THEOREM ImplementsContract == Spec => KeepsContract
  BY InitContract, NextContract, Invariant, PTL DEF Spec, KeepsContract, Contract!Spec
=============================================================================
