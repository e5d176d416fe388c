------------------------------- MODULE Mtask -------------------------------
(***************************************************************************)
(* The scheduler of MTASK.C on one processor: the pool of tasks, the       *)
(* levels, each an array of running tasks with a cursor, and the variables *)
(* that say which level is served.  Each action is one call of the         *)
(* scheduler as an interrupt handler or a task makes it; the calls are     *)
(* steps because those that matter run with interrupts disabled.           *)
(* UnmaskedPut drops that assumption.                                      *)
(*                                                                         *)
(* cpu is the task whose registers the processor really holds: it changes  *)
(* only where the code calls asm_task_switch32.  The code never stores it; *)
(* it recomputes it from the level arrays in task_now.  Bits 2 and 3 of    *)
(* flags_a (preempted, to be destroyed) are only tested together with      *)
(* (1<<2)==0 and (1<<3)==1, which are 0, so they decide nothing and are    *)
(* left out; the click that sets bit 3 then wakes the task as TaskRun does.*)
(***************************************************************************)
EXTENDS Integers

CONSTANTS
  MaxTasks,     \* MAX_TASKS, the size of the pool taskctl->tasks0
  MaxLevels,    \* MAX_TASKLEVELS
  MaxTasksLv,   \* MAX_TASKS_LV, the size of a level's array
  RunLevels     \* the levels the kernel passes to task_run

ASSUME MtaskAssumption ==
  /\ MaxTasks \in Nat /\ MaxTasks >= 2
  /\ MaxLevels \in Nat /\ MaxLevels >= 3
  /\ MaxTasksLv \in Nat \ {0}
  /\ RunLevels \subseteq 1 .. MaxLevels - 2

Tasks == 0 .. MaxTasks - 1
Levels == 0 .. MaxLevels - 1
SlotIndex == 0 .. MaxTasksLv - 1

\* The first two tasks task_init allocates: HariMain itself and task_idle.
TaskA == 0
Idle == 1
IdleLevel == MaxLevels - 1

NoLevel == -1   \* task->level of a task that task_run never saw
NoTask == -1    \* a place of level->tasks nothing was written to

VARIABLES
  flags,      \* task->flags: 0 unused, 1 allocated or sleeping, 2 running
  level,      \* task->level
  running,    \* taskctl->level[l].running
  now,        \* taskctl->level[l].now
  tasks,      \* taskctl->level[l].tasks
  now_lv,     \* taskctl->now_lv
  lv_change,  \* taskctl->lv_change
  cpu,        \* the task whose registers are in the processor
  overrun     \* TRUE once task_add wrote behind the end of a level's array

levelvars == <<running, now, tasks>>
vars == <<flags, level, running, now, tasks, now_lv, lv_change, cpu, overrun>>

-----------------------------------------------------------------------------
\* task_now
TaskNow == tasks[now_lv][now[now_lv]]

\* Places of l that hold running tasks.
Active(l) == 0 .. running[l] - 1

\* task_remove's search: the first active place of l that holds t, or
\* running[l] when there is none.
IndexOf(l, t) ==
  IF \E i \in Active(l) : tasks[l][i] = t
  THEN CHOOSE i \in Active(l) :
         tasks[l][i] = t /\ \A j \in 0 .. i - 1 : tasks[l][j] # t
  ELSE running[l]

\* Mutant of NowWithout: the cursor does not follow the running task when a
\* task in front of it goes away.
NowWithoutFixed(l, i) == IF now[l] >= running[l] - 1 THEN 0 ELSE now[l]

\* level->now after the task at place i of l is removed.
NowWithout(l, i) ==
  LET n == IF i < now[l] THEN now[l] - 1 ELSE now[l]
  IN  IF n >= running[l] - 1 THEN 0 ELSE n

\* Mutant of TasksWithout: the place that got free is not filled.
TasksWithoutHole(l, i) == tasks[l]

\* level->tasks after it: the tasks behind i move up, the last place keeps
\* its stale pointer.
TasksWithout(l, i) ==
  [k \in SlotIndex |->
     IF i <= k /\ k < running[l] - 1 THEN tasks[l][k + 1] ELSE tasks[l][k]]

\* task_switchsub on running counts r: the first level with running tasks.
TopLevel(r) == CHOOSE l \in Levels : r[l] > 0 /\ \A m \in 0 .. l - 1 : r[m] = 0

-----------------------------------------------------------------------------
\* task_init: HariMain runs alone on level 0, idle on the last level.
Init ==
  /\ flags = [t \in Tasks |-> IF t \in {TaskA, Idle} THEN 2 ELSE 0]
  /\ level = [t \in Tasks |-> CASE t = TaskA -> 0
                                [] t = Idle  -> IdleLevel
                                [] OTHER     -> NoLevel]
  /\ running = [l \in Levels |-> IF l \in {0, IdleLevel} THEN 1 ELSE 0]
  /\ now = [l \in Levels |-> 0]
  /\ tasks = [l \in Levels |->
               [k \in SlotIndex |-> CASE k = 0 /\ l = 0         -> TaskA
                                      [] k = 0 /\ l = IdleLevel -> Idle
                                      [] OTHER                  -> NoTask]]
  /\ now_lv = 0
  /\ lv_change = TRUE
  /\ cpu = TaskA
  /\ overrun = FALSE

\* HariMain still has to move itself to level 1, with task_run(task_a, 1, 2).
Booting == level[TaskA] = 0

Boot ==
  /\ Booting /\ cpu = TaskA
  /\ LET i == IndexOf(0, TaskA)
     IN  /\ running' = [running EXCEPT ![0] = @ - 1, ![1] = @ + 1]
         /\ now' = [now EXCEPT ![0] = NowWithout(0, i)]
         /\ tasks' = [tasks EXCEPT ![0] = TasksWithout(0, i),
                                   ![1][running[1]] = TaskA]
  /\ level' = [level EXCEPT ![TaskA] = 1]
  /\ lv_change' = TRUE
  /\ UNCHANGED <<flags, now_lv, cpu, overrun>>

\* task_alloc: the first unused task of the pool.
TaskAlloc(t) ==
  /\ ~Booting /\ cpu # Idle
  /\ flags[t] = 0 /\ \A u \in 0 .. t - 1 : flags[u] # 0
  /\ flags' = [flags EXCEPT ![t] = 1]
  /\ UNCHANGED <<level, levelvars, now_lv, lv_change, cpu, overrun>>

\* task_add of t to level l, whose array may be full.
TaskAdd(t, l) ==
  /\ level' = [level EXCEPT ![t] = l]
  /\ flags' = [flags EXCEPT ![t] = 2]
  /\ IF running[l] < MaxTasksLv
     THEN /\ tasks' = [tasks EXCEPT ![l][running[l]] = t]
          /\ running' = [running EXCEPT ![l] = @ + 1]
          /\ UNCHANGED overrun
     ELSE /\ overrun' = TRUE
          /\ UNCHANGED <<tasks, running>>

\* Mutant of TaskRun: lv_change is not set.
TaskRunQuiet(t, l) ==
  /\ ~Booting /\ flags[t] = 1 /\ l \in Levels
  /\ TaskAdd(t, l)
  /\ UNCHANGED <<now, now_lv, lv_change, cpu>>

\* task_run of a task that does not run: a new task on level l, or, with
\* level -1, a sleeping one on the level it had (fifo32_put wakes this way).
TaskRun(t, l) ==
  /\ ~Booting /\ flags[t] = 1 /\ l \in Levels
  /\ TaskAdd(t, l)
  /\ lv_change' = TRUE
  /\ UNCHANGED <<now, now_lv, cpu>>

\* task_run of a task that runs already, on its own level.
TaskRunAgain(t) ==
  /\ flags[t] = 2
  /\ lv_change' = TRUE
  /\ UNCHANGED <<flags, level, levelvars, now_lv, cpu, overrun>>

\* task_sleep of a running task: by the task itself, or by the task that
\* tears it down.  When the caller sleeps, the highest level is served at
\* once and the processor goes to the task its cursor is at.
TaskSleep(t) ==
  /\ ~Booting /\ flags[t] = 2
  /\ t = cpu \/ (t # TaskA /\ cpu # Idle)
  /\ t # Idle
  /\ LET l == level[t]
         i == IndexOf(l, t)
     IN  /\ running' = [running EXCEPT ![l] = @ - 1]
         /\ now' = [now EXCEPT ![l] = NowWithout(l, i)]
         /\ tasks' = [tasks EXCEPT ![l] = TasksWithout(l, i)]
         /\ flags' = [flags EXCEPT ![t] = 1]
         /\ IF t = TaskNow
            THEN LET new == tasks'[now_lv'][now'[now_lv']]
                 IN  /\ now_lv' = TopLevel(running')
                     /\ lv_change' = FALSE
                     /\ cpu' = new
            ELSE UNCHANGED <<now_lv, lv_change, cpu>>
  /\ UNCHANGED <<level, overrun>>

\* close_constask and system_mainloop give a task they put to sleep back to
\* the pool.
Free(t) ==
  /\ flags[t] = 1 /\ level[t] # NoLevel
  /\ t \notin {TaskA, Idle, cpu} /\ cpu # Idle
  /\ flags' = [flags EXCEPT ![t] = 0]
  /\ UNCHANGED <<level, levelvars, now_lv, lv_change, cpu, overrun>>

\* Mutant of NextNow: the cursor wraps one place early.
NextNowEarly == IF now[now_lv] + 2 >= running[now_lv] THEN 0 ELSE now[now_lv] + 1

\* The cursor of the served level after task_switch moved it.
NextNow == IF now[now_lv] + 1 = running[now_lv] THEN 0 ELSE now[now_lv] + 1

\* Mutant of TaskSwitch: a level change is not looked at.
TaskSwitchSameLevel ==
  /\ now' = [now EXCEPT ![now_lv] = NextNow]
  /\ LET old == TaskNow
         new == tasks[now_lv][now'[now_lv]]
     IN  /\ new \in Tasks
         /\ cpu' = IF new # old THEN new ELSE cpu
  /\ lv_change' = FALSE
  /\ UNCHANGED <<flags, level, running, tasks, now_lv, overrun>>

\* task_switch, called by the timer interrupt when task_timer fires.  Its
\* last test, for a task that is to be destroyed, masks flags_a with
\* (1<<3)==1, which is 0, so it never does anything.
TaskSwitch ==
  /\ now' = [now EXCEPT ![now_lv] = NextNow]
  /\ now_lv' = IF lv_change THEN TopLevel(running) ELSE now_lv
  /\ lv_change' = FALSE
  /\ LET old == TaskNow
         new == tasks[now_lv'][now'[now_lv']]
     IN  /\ cpu' = IF new # old THEN new ELSE cpu
  /\ UNCHANGED <<flags, level, running, tasks, overrun>>

\* The levels a call of task_run on a task that does not run can pass: only
\* the code that created a task chooses its level.
CallLevels(t) ==
  (IF cpu = Idle \/ t = TaskA THEN {} ELSE RunLevels) \cup ({level[t]} \ {NoLevel})

Next ==
  /\ ~overrun
  /\ \/ Boot
     \/ TaskSwitch
     \/ \E t \in Tasks :
          \/ TaskAlloc(t)
          \/ \E l \in CallLevels(t) : TaskRun(t, l)
          \/ TaskRunAgain(t)
          \/ TaskSleep(t)
          \/ Free(t)

Spec == Init /\ [][Next]_vars

\* A step in which a task puts another one to sleep to tear it down.
Teardown == \E t \in Tasks : t # cpu /\ flags[t] = 2 /\ flags'[t] = 1

\* The timer interrupt never stops coming (task_switch re-arms task_timer).
FairSpec == Init /\ [][Next]_vars /\ WF_vars(~overrun /\ TaskSwitch)

-----------------------------------------------------------------------------
(* Every variable has the values its C type and the pool allow. *)
TypeOK ==
  /\ flags \in [Tasks -> 0 .. 2]
  /\ level \in [Tasks -> Levels \cup {NoLevel}]
  /\ running \in [Levels -> 0 .. MaxTasksLv]
  /\ now \in [Levels -> SlotIndex \cup {1}]
  /\ tasks \in [Levels -> [SlotIndex -> Tasks \cup {NoTask}]]
  /\ now_lv \in Levels
  /\ lv_change \in BOOLEAN
  /\ cpu \in Tasks
  /\ overrun \in BOOLEAN

\* Only running tasks are listed, each at its own level.
ListedRun ==
  \A l \in Levels : \A i \in Active(l) :
    tasks[l][i] \in Tasks /\ flags[tasks[l][i]] = 2 /\ level[tasks[l][i]] = l

\* No task is listed twice.
ListedOnce ==
  \A l \in Levels : \A i, j \in Active(l) : tasks[l][i] = tasks[l][j] => i = j

\* Every running task is listed.
RunListed ==
  \A t \in Tasks : flags[t] = 2 =>
    level[t] \in Levels /\ \E i \in Active(level[t]) : tasks[level[t]][i] = t

(* The level arrays and task->flags agree: a task has flags 2 exactly when it
   stands in the array of its level, once, between 0 and running (task_add,
   task_remove). *)
RunQueues == overrun \/ (ListedRun /\ ListedOnce /\ RunListed)

(* task_now is the task that really has the processor, and that task runs,
   after every sequence of task_run, task_sleep and timer interrupts: struct
   TASKLEVEL's now is "the number of the task that runs".  Nothing in the code
   stores the task; each call finds it in the arrays again. *)
TaskNowIsCpu == overrun \/ (TaskNow = cpu /\ flags[cpu] = 2)

(* Unless lv_change asks for a new choice, no level above the served one has
   running tasks: a task woken on a higher level is never forgotten. *)
TopServed == overrun \/ lv_change \/ \A l \in Levels : l < now_lv => running[l] = 0

(* A switch, forced or voluntary, always goes to a task of the highest level
   that has running tasks. *)
SwitchToTop ==
  [][cpu' # cpu => level'[cpu'] = TopLevel(running')]_vars

\* Task t runs on the level a new choice would serve.
OnTop(t) == flags[t] = 2 /\ level[t] = TopLevel(running)

(* Round robin: a task that runs on the highest level gets the processor,
   unless it stops running there or a higher level gets work.  HariMain tears
   tasks down a few times at most; if it did so for ever, each time moving the
   cursor of the level, a task might wait for ever. *)
RoundRobin ==
  \/ []<><<Teardown>>_vars
  \/ \A t \in Tasks : OnTop(t) ~> (cpu = t \/ ~OnTop(t) \/ overrun)

-----------------------------------------------------------------------------
(* The inductive invariant that MtaskProofs rests on. *)

\* The cursor of a level is inside its array.  Level 0 is left alone once
\* HariMain left it.
CursorInv ==
  \A l \in Levels :
    \/ now[l] < running[l]
    \/ running[l] = 0 /\ (l = 0 \/ now[l] = 0)

\* Idle runs for ever on the last level, so there is always a level to serve.
IdleInv == flags[Idle] = 2 /\ level[Idle] = IdleLevel

\* Level 0 belongs to HariMain, until it moves to level 1.
BootInv ==
  /\ \A t \in Tasks \ {TaskA} : level[t] # 0
  /\ Booting => flags[TaskA] = 2 /\ now_lv = 0 /\ running[1] = 0

\* The served level has running tasks, but for the time between the move of
\* HariMain and the first switch, when task_now reads the place it left.
ServedInv ==
  \/ running[now_lv] > 0
  \/ /\ now_lv = 0 /\ now[0] = 0 /\ tasks[0][0] = TaskA
     /\ lv_change

IInv ==
  /\ TypeOK
  /\ overrun \/ /\ ListedRun /\ ListedOnce /\ RunListed
                /\ CursorInv /\ IdleInv /\ BootInv /\ ServedInv
                /\ TaskNow = cpu /\ flags[cpu] = 2
                /\ TopServed

=============================================================================
