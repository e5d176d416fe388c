----------------------------- MODULE MtaskProofs -----------------------------
(***************************************************************************)
(* Proofs about the scheduler for every size of the pool, number of levels *)
(* and size of a level's array: the arrays and the tasks agree, task_now   *)
(* is the task on the processor, and every switch goes to the top level.   *)
(***************************************************************************)
EXTENDS Mtask, FiniteSetTheorems, TLAPS

USE MtaskAssumption

\* The first level with running tasks, when there is one.
LEMMA TopLevelExists ==
  ASSUME NEW r \in [Levels -> Nat], NEW k \in Levels, r[k] > 0
  PROVE  /\ TopLevel(r) \in Levels
         /\ r[TopLevel(r)] > 0
         /\ \A m \in Levels : m < TopLevel(r) => r[m] = 0
<1> DEFINE T == {l \in Levels : r[l] > 0}
           D == {0 .. l - 1 : l \in T}
<1>1. T \subseteq Nat /\ k \in T
  BY DEF Levels
<1>2. D \subseteq FiniteSubsetsOf(Nat) /\ D # {}
  <2>1. ASSUME NEW l \in T
        PROVE  0 .. l - 1 \in FiniteSubsetsOf(Nat)
    <3>1. l \in Int /\ l - 1 \in Int /\ 0 .. l - 1 \in SUBSET Nat
      BY <1>1
    <3>2. IsFiniteSet(0 .. l - 1)
      BY <3>1, FS_Interval
    <3> QED BY <3>1, <3>2 DEF FiniteSubsetsOf
  <2>2. D # {}
    BY <1>1
  <2> QED BY <2>1, <2>2
<1>3. PICK B \in D : \A A \in D : ~ (<<A, B>> \in StrictSubsetOrdering(Nat))
  BY <1>2, FS_StrictSubsetOrderingWellFounded, WFMin
<1>4. PICK x \in T : B = 0 .. x - 1
  OBVIOUS
<1>5. ASSUME NEW y \in T
      PROVE  ~ (y < x)
  <2>1. 0 .. y - 1 \in D
    OBVIOUS
  <2>2. ~ (0 .. y - 1 \subseteq 0 .. x - 1 /\ 0 .. y - 1 # 0 .. x - 1)
    <3>1. 0 .. y - 1 \in SUBSET Nat /\ 0 .. x - 1 \in SUBSET Nat
      BY <1>1
    <3>2. <<0 .. y - 1, 0 .. x - 1>> \notin StrictSubsetOrdering(Nat)
      BY <1>3, <1>4, <2>1
    <3> QED BY <3>1, <3>2 DEF StrictSubsetOrdering
  <2>3. CASE y < x
    <3>1. y \in 0 .. x - 1 /\ y \notin 0 .. y - 1
      BY <1>1, <2>3
    <3>2. 0 .. y - 1 \subseteq 0 .. x - 1
      BY <1>1, <2>3
    <3> QED BY <2>2, <3>1, <3>2
  <2> QED BY <2>3
<1>6. x \in Levels /\ r[x] > 0 /\ \A m \in 0 .. x - 1 : r[m] = 0
  BY <1>5 DEF Levels
<1>7. \E y \in Levels : r[y] > 0 /\ \A m \in 0 .. y - 1 : r[m] = 0
  BY <1>6
<1>8. /\ TopLevel(r) \in Levels
      /\ r[TopLevel(r)] > 0
      /\ \A m \in 0 .. TopLevel(r) - 1 : r[m] = 0
  BY <1>7 DEF TopLevel
<1> HIDE DEF TopLevel
<1> QED
  BY <1>8 DEF Levels

\* The four invariants of the level arrays.
Queues == ListedRun /\ ListedOnce /\ RunListed /\ CursorInv

\* task_add on an array with room keeps the arrays in order, and every cursor
\* at its task.
LEMMA AddKeepsQueues ==
  ASSUME TypeOK, Queues,
         NEW t \in Tasks, NEW l \in Levels, l # 0,
         flags[t] # 2, running[l] < MaxTasksLv, ~overrun,
         TaskAdd(t, l), now' = now
  PROVE  /\ Queues'
         /\ ~overrun'
         /\ \A m \in Levels : running[m] > 0 =>
              running'[m] > 0 /\ tasks'[m][now[m]] = tasks[m][now[m]]
<1> DEFINE r == running[l]
<1>1. /\ flags' = [flags EXCEPT ![t] = 2]
      /\ level' = [level EXCEPT ![t] = l]
      /\ tasks' = [tasks EXCEPT ![l][r] = t]
      /\ running' = [running EXCEPT ![l] = r + 1]
      /\ overrun' = overrun
  BY DEF TaskAdd
<1>2. /\ r \in SlotIndex /\ r \in Nat
      /\ \A m \in Levels : running[m] \in 0 .. MaxTasksLv /\ now[m] \in Nat
      /\ \A m \in Levels : Active(m) \subseteq SlotIndex
  BY DEF TypeOK, SlotIndex, Active
<1>3. \A m \in Levels : running'[m] = IF m = l THEN r + 1 ELSE running[m]
  BY <1>1 DEF TypeOK
<1>4. \A m \in Levels : \A i \in SlotIndex :
        tasks'[m][i] = IF m = l /\ i = r THEN t ELSE tasks[m][i]
  BY <1>1, <1>2 DEF TypeOK
<1>5. \A m \in Levels : Active(m)' = IF m = l THEN Active(m) \cup {r} ELSE Active(m)
  <2>1. 0 .. r = 0 .. r - 1 \cup {r} /\ (r + 1) - 1 = r
    BY <1>2
  <2> QED BY <1>3, <2>1 DEF Active
<1>6. \A u \in Tasks : flags'[u] = IF u = t THEN 2 ELSE flags[u]
  BY <1>1 DEF TypeOK
<1>15. \A u \in Tasks : level'[u] = IF u = t THEN l ELSE level[u]
  BY <1>1 DEF TypeOK
<1>7. \A m \in Levels : \A i \in Active(m) : tasks[m][i] # t /\ ~ (m = l /\ i = r)
  BY <1>2 DEF Queues, ListedRun, Active
<1>8. \A m \in Levels : \A i \in Active(m) : tasks'[m][i] = tasks[m][i]
  BY <1>2, <1>4, <1>7
<1>9. tasks'[l][r] = t
  BY <1>2, <1>4
<1>10. ListedRun'
  <2>1. ASSUME NEW m \in Levels, NEW i \in Active(m)
        PROVE  tasks'[m][i] \in Tasks /\ flags'[tasks'[m][i]] = 2 /\ level'[tasks'[m][i]] = m
    BY <1>6, <1>15, <1>7, <1>8 DEF Queues, ListedRun
  <2>2. flags'[t] = 2 /\ level'[t] = l
    BY <1>6, <1>15
  <2> QED
    BY <1>5, <1>9, <2>1, <2>2 DEF ListedRun
<1>11. ListedOnce'
  BY <1>5, <1>7, <1>8, <1>9 DEF Queues, ListedOnce
<1>12. RunListed'
  <2>1. ASSUME NEW u \in Tasks, flags'[u] = 2, u # t
        PROVE  (level[u] \in Levels /\ \E i \in Active(level[u]) : tasks[level[u]][i] = u)'
    <3>1. flags[u] = 2 /\ level'[u] = level[u]
      BY <1>6, <1>15, <2>1
    <3>2. level[u] \in Levels /\ \E i \in Active(level[u]) : tasks[level[u]][i] = u
      BY <3>1 DEF Queues, RunListed
    <3>3. PICK i \in Active(level[u]) : tasks[level[u]][i] = u
      BY <3>2
    <3>4. i \in Active(level[u])' /\ tasks'[level[u]][i] = u
      BY <1>5, <1>8, <3>1, <3>2, <3>3
    <3> QED BY <3>1, <3>2, <3>4
  <2>2. level'[t] = l /\ r \in Active(l)' /\ tasks'[l][r] = t
    BY <1>5, <1>15, <1>9
  <2> QED
    BY <2>1, <2>2 DEF RunListed
<1>13. CursorInv'
  BY <1>2, <1>3 DEF Queues, CursorInv
<1>14. ASSUME NEW m \in Levels, running[m] > 0
       PROVE  running'[m] > 0 /\ tasks'[m][now[m]] = tasks[m][now[m]]
  <2>1. now[m] \in Active(m)
    BY <1>2, <1>14 DEF Queues, CursorInv, Active
  <2> QED BY <1>2, <1>3, <1>8, <1>14, <2>1
<1> QED
  BY <1>1, <1>10, <1>11, <1>12, <1>13, <1>14 DEF Queues

\* The search of task_remove finds a running task at its only place.
LEMMA IndexFinds ==
  ASSUME TypeOK, ListedOnce, RunListed, NEW t \in Tasks, flags[t] = 2
  PROVE  /\ level[t] \in Levels
         /\ IndexOf(level[t], t) \in Active(level[t])
         /\ tasks[level[t]][IndexOf(level[t], t)] = t
<1>1. level[t] \in Levels
  BY DEF RunListed
<1>2. PICK i \in Active(level[t]) : tasks[level[t]][i] = t
  BY DEF RunListed
<1>3. \A j \in 0 .. i - 1 : tasks[level[t]][j] # t
  <2>1. running[level[t]] \in Nat
    BY <1>1 DEF TypeOK
  <2>2. ASSUME NEW j \in 0 .. i - 1, tasks[level[t]][j] = t
        PROVE  FALSE
    <3>1. j \in Active(level[t]) /\ j # i
      BY <1>2, <2>1 DEF Active
    <3> QED BY <1>1, <1>2, <2>2, <3>1 DEF ListedOnce
  <2> QED BY <2>2
<1> QED
  BY <1>1, <1>2, <1>3 DEF IndexOf

\* task_remove keeps the arrays in order, and every other cursor at its task.
LEMMA RemoveKeepsQueues ==
  ASSUME TypeOK, Queues,
         NEW t \in Tasks, flags[t] = 2, NEW l, l = level[t],
         NEW i, i = IndexOf(l, t),
         running' = [running EXCEPT ![l] = @ - 1],
         now' = [now EXCEPT ![l] = NowWithout(l, i)],
         tasks' = [tasks EXCEPT ![l] = TasksWithout(l, i)],
         flags' = [flags EXCEPT ![t] = 1],
         level' = level
  PROVE  /\ Queues'
         /\ NowWithout(l, i) \in SlotIndex
         /\ TasksWithout(l, i) \in [SlotIndex -> Tasks \cup {NoTask}]
         /\ \A m \in Levels : running[m] > 0 /\ tasks[m][now[m]] # t =>
              running'[m] > 0 /\ tasks'[m][now'[m]] = tasks[m][now[m]]
<1> DEFINE r == running[l]
           T == tasks[l]
           U == TasksWithout(l, i)
           c == now[l]
<1>1. l \in Levels /\ i \in Active(l) /\ T[i] = t
  BY IndexFinds DEF Queues
<1>2. r \in 1 .. MaxTasksLv /\ i \in 0 .. r - 1 /\ T \in [SlotIndex -> Tasks \cup {NoTask}]
  BY <1>1 DEF TypeOK, Active
<1>3. c \in 0 .. r - 1
  <2>1. c \in Nat
    BY <1>1 DEF TypeOK, SlotIndex
  <2> QED BY <1>1, <1>2, <2>1 DEF Queues, CursorInv
<1>4. /\ U \in [SlotIndex -> Tasks \cup {NoTask}]
      /\ \A j \in 0 .. r - 2 : U[j] = T[IF j < i THEN j ELSE j + 1]
      /\ \A k \in 0 .. r - 1 : k # i => \E j \in 0 .. r - 2 : U[j] = T[k]
  <2>1. U = [k \in SlotIndex |-> IF i <= k /\ k < r - 1 THEN T[k + 1] ELSE T[k]]
    BY DEF TasksWithout
  <2> HIDE DEF U, T, r
  <2>2. U \in [SlotIndex -> Tasks \cup {NoTask}]
    <3>1. \A k \in SlotIndex : i <= k /\ k < r - 1 => k + 1 \in SlotIndex
      BY <1>2 DEF SlotIndex
    <3> QED BY <1>2, <2>1, <3>1
  <2>3. ASSUME NEW j \in 0 .. r - 2
        PROVE  U[j] = T[IF j < i THEN j ELSE j + 1]
    BY <1>2, <2>1 DEF SlotIndex
  <2>4. ASSUME NEW k \in 0 .. r - 1, k # i
        PROVE  \E j \in 0 .. r - 2 : U[j] = T[k]
    <3>1. CASE k < i
      <4>1. k \in 0 .. r - 2 /\ U[k] = T[k]
        BY <1>2, <2>3, <3>1
      <4> QED BY <4>1
    <3>2. CASE k > i
      <4>1. k - 1 \in 0 .. r - 2 /\ ~ (k - 1 < i) /\ (k - 1) + 1 = k
        BY <1>2, <3>2
      <4>2. U[k - 1] = T[k]
        BY <2>3, <4>1
      <4> QED BY <4>1, <4>2
    <3> QED BY <1>2, <2>4, <3>1, <3>2
  <2> QED BY <2>2, <2>3, <2>4
<1>5. \A m \in Levels : running'[m] = IF m = l THEN r - 1 ELSE running[m]
  BY DEF TypeOK
<1>6. \A m \in Levels : tasks'[m] = IF m = l THEN U ELSE tasks[m]
  BY DEF TypeOK
<1>7. \A m \in Levels : now'[m] = IF m = l THEN NowWithout(l, i) ELSE now[m]
  BY DEF TypeOK
<1>8. \A m \in Levels : Active(m)' = IF m = l THEN 0 .. r - 2 ELSE Active(m)
  <2>1. (r - 1) - 1 = r - 2
    BY <1>2
  <2> QED BY <1>5, <2>1 DEF Active
<1>9. \A u \in Tasks : flags'[u] = IF u = t THEN 1 ELSE flags[u]
  BY DEF TypeOK
<1>10. \A j \in 0 .. r - 2 :
         \E k \in Active(l) : k # i /\ k = (IF j < i THEN j ELSE j + 1) /\ U[j] = T[k]
  BY <1>2, <1>4 DEF Active
<1>11. ListedRun'
  <2>1. ASSUME NEW m \in Levels, m # l, NEW k \in Active(m)
        PROVE  tasks[m][k] \in Tasks /\ flags'[tasks[m][k]] = 2 /\ level[tasks[m][k]] = m
    <3>1. tasks[m][k] \in Tasks /\ flags[tasks[m][k]] = 2 /\ level[tasks[m][k]] = m
      BY DEF Queues, ListedRun
    <3> QED BY <1>9, <2>1, <3>1
  <2>2. ASSUME NEW j \in 0 .. r - 2
        PROVE  U[j] \in Tasks /\ flags'[U[j]] = 2 /\ level[U[j]] = l
    <3>1. PICK k \in Active(l) : k # i /\ U[j] = T[k]
      BY <1>10
    <3>2. T[k] \in Tasks /\ flags[T[k]] = 2 /\ level[T[k]] = l
      BY <1>1 DEF Queues, ListedRun
    <3>3. T[k] # t
      BY <1>1, <3>1 DEF Queues, ListedOnce
    <3> QED BY <1>9, <3>1, <3>2, <3>3
  <2>3. ASSUME NEW m \in Levels, NEW k \in Active(m)'
        PROVE  tasks'[m][k] \in Tasks /\ flags'[tasks'[m][k]] = 2 /\ level[tasks'[m][k]] = m
    <3>1. CASE m = l
      <4>1. k \in 0 .. r - 2 /\ tasks'[m] = U
        BY <1>6, <1>8, <3>1
      <4> HIDE DEF U, r
      <4> QED BY <2>2, <3>1, <4>1
    <3>2. CASE m # l
      <4>1. k \in Active(m) /\ tasks'[m] = tasks[m]
        BY <1>6, <1>8, <3>2
      <4> QED BY <2>1, <3>2, <4>1
    <3> QED BY <3>1, <3>2
  <2> QED BY <2>3 DEF ListedRun
<1>12. ListedOnce'
  <2>1. ASSUME NEW j \in 0 .. r - 2, NEW k \in 0 .. r - 2, U[j] = U[k]
        PROVE  j = k
    <3>1. PICK a \in Active(l) : a = (IF j < i THEN j ELSE j + 1) /\ U[j] = T[a]
      BY <1>10
    <3>2. PICK b \in Active(l) : b = (IF k < i THEN k ELSE k + 1) /\ U[k] = T[b]
      BY <1>10
    <3>3. T[a] = T[b]
      BY <2>1, <3>1, <3>2
    <3>4. a = b
      BY <1>1, <3>3 DEF Queues, ListedOnce
    <3> QED BY <1>2, <3>1, <3>2, <3>4
  <2>2. \A m \in Levels : m # l => \A j, k \in Active(m) : tasks[m][j] = tasks[m][k] => j = k
    BY DEF Queues, ListedOnce
  <2>3. ASSUME NEW m \in Levels, NEW j \in Active(m)', NEW k \in Active(m)',
               tasks'[m][j] = tasks'[m][k]
        PROVE  j = k
    <3>1. CASE m = l
      <4>1. j \in 0 .. r - 2 /\ k \in 0 .. r - 2 /\ tasks'[m] = U
        BY <1>6, <1>8, <3>1
      <4> HIDE DEF U, r
      <4> QED BY <2>1, <2>3, <4>1
    <3>2. CASE m # l
      <4>1. j \in Active(m) /\ k \in Active(m) /\ tasks'[m] = tasks[m]
        BY <1>6, <1>8, <3>2
      <4> QED BY <2>2, <2>3, <3>2, <4>1
    <3> QED BY <3>1, <3>2
  <2> QED BY <2>3 DEF ListedOnce
<1>13. RunListed'
  <2>1. ASSUME NEW u \in Tasks, flags'[u] = 2
        PROVE  level[u] \in Levels /\ \E k \in Active(level[u])' : tasks'[level[u]][k] = u
    <3>1. u # t /\ flags[u] = 2
      BY <1>9, <2>1
    <3>2. level[u] \in Levels
      BY <3>1 DEF Queues, RunListed
    <3>3. PICK k \in Active(level[u]) : tasks[level[u]][k] = u
      BY <3>1 DEF Queues, RunListed
    <3>4. CASE level[u] = l
      <4>1. k \in 0 .. r - 1 /\ k # i
        BY <1>1, <3>1, <3>3, <3>4 DEF Active
      <4>2. PICK j \in 0 .. r - 2 : U[j] = T[k]
        BY <1>4, <4>1
      <4> HIDE DEF U, r
      <4> QED BY <1>1, <1>6, <1>8, <3>3, <3>4, <4>2
    <3>5. CASE level[u] # l
      BY <1>6, <1>8, <3>2, <3>3, <3>5
    <3> QED BY <3>2, <3>4, <3>5
  <2> QED
    BY <2>1 DEF RunListed
<1>14. /\ NowWithout(l, i) \in SlotIndex
       /\ NowWithout(l, i) < r - 1 \/ (r - 1 = 0 /\ NowWithout(l, i) = 0)
  <2>1. NowWithout(l, i) = LET n == IF i < c THEN c - 1 ELSE c
                           IN  IF n >= r - 1 THEN 0 ELSE n
    BY DEF NowWithout
  <2> DEFINE n == IF i < c THEN c - 1 ELSE c
  <2>2. n \in Nat /\ r - 1 \in Nat /\ r - 1 < MaxTasksLv
    BY <1>2, <1>3
  <2>3. NowWithout(l, i) = IF n >= r - 1 THEN 0 ELSE n
    BY <2>1
  <2> HIDE DEF n, r, c
  <2>4. CASE n >= r - 1
    BY <1>2, <2>2, <2>3, <2>4 DEF SlotIndex
  <2>5. CASE n < r - 1
    BY <1>2, <2>2, <2>3, <2>5 DEF SlotIndex
  <2> QED BY <1>2, <2>2, <2>4, <2>5
<1>15. CursorInv'
  <2>1. ASSUME NEW m \in Levels
        PROVE  \/ now'[m] < running'[m]
               \/ running'[m] = 0 /\ (m = 0 \/ now'[m] = 0)
    <3>1. CASE m = l
      <4>1. now'[m] = NowWithout(l, i) /\ running'[m] = r - 1
        BY <1>5, <1>7, <3>1
      <4> HIDE DEF r
      <4> QED BY <1>14, <4>1
    <3>2. CASE m # l
      BY <1>5, <1>7, <3>2 DEF Queues, CursorInv
    <3> QED BY <3>1, <3>2
  <2> QED BY <2>1 DEF CursorInv
<1>16. ASSUME NEW m \in Levels, running[m] > 0, tasks[m][now[m]] # t
       PROVE  running'[m] > 0 /\ tasks'[m][now'[m]] = tasks[m][now[m]]
  <2>1. CASE m # l
    BY <1>5, <1>6, <1>7, <1>16, <2>1
  <2>2. CASE m = l
    <3>1. c # i
      BY <1>1, <1>16, <2>2
    <3>2. NowWithout(l, i) = IF i < c THEN c - 1 ELSE c
      BY <1>2, <1>3, <3>1 DEF NowWithout
    <3>3. NowWithout(l, i) \in 0 .. r - 2 /\ r - 1 > 0
      BY <1>2, <1>3, <3>1, <3>2
    <3>4. U[NowWithout(l, i)] = T[c]
      BY <1>2, <1>3, <1>4, <3>1, <3>2, <3>3
    <3> HIDE DEF r, U
    <3> QED BY <1>5, <1>6, <1>7, <2>2, <3>3, <3>4
  <2> QED BY <2>1, <2>2
<1> QED
  BY <1>4, <1>11, <1>12, <1>13, <1>14, <1>15, <1>16 DEF Queues

\* IInv on the states in which no array overran.
Safe ==
  /\ Queues /\ IdleInv /\ BootInv /\ ServedInv
  /\ TaskNow = cpu /\ flags[cpu] = 2
  /\ lv_change \/ \A l \in Levels : l < now_lv => running[l] = 0

\* The invariant in the two parts the step lemmas use.
LEMMA IInvIsSafe == IInv <=> TypeOK /\ (overrun \/ Safe)
BY DEF IInv, Safe, Queues, TopServed

\* A step that adds a task to an array and asks for a new choice.
LEMMA AddKeepsIInv ==
  ASSUME IInv, ~overrun, ~Booting,
         NEW t \in Tasks, NEW l \in Levels, l # 0, flags[t] = 1,
         TaskAdd(t, l), lv_change' = TRUE,
         UNCHANGED <<now, now_lv, cpu>>
  PROVE  IInv'
<1>1. TypeOK /\ Safe
  BY IInvIsSafe
<1>2. /\ flags' = [flags EXCEPT ![t] = 2]
      /\ level' = [level EXCEPT ![t] = l]
  BY DEF TaskAdd
<1>3. TypeOK'
  <2>1. flags' \in [Tasks -> 0 .. 2] /\ level' \in [Tasks -> Levels \cup {NoLevel}]
    BY <1>1, <1>2 DEF TypeOK
  <2>2. /\ running' \in [Levels -> 0 .. MaxTasksLv]
        /\ tasks' \in [Levels -> [SlotIndex -> Tasks \cup {NoTask}]]
        /\ overrun' \in BOOLEAN
    <3>1. CASE running[l] < MaxTasksLv
      <4>1. running[l] \in SlotIndex /\ running[l] + 1 \in 0 .. MaxTasksLv
        BY <1>1, <3>1 DEF TypeOK, SlotIndex
      <4>2. /\ tasks' = [tasks EXCEPT ![l][running[l]] = t]
            /\ running' = [running EXCEPT ![l] = running[l] + 1]
            /\ overrun' = overrun
        BY <3>1 DEF TaskAdd
      <4> QED BY <1>1, <4>1, <4>2 DEF TypeOK
    <3>2. CASE ~ (running[l] < MaxTasksLv)
      BY <1>1, <3>2 DEF TypeOK, TaskAdd
    <3> QED BY <3>1, <3>2
  <2> QED BY <1>1, <2>1, <2>2 DEF TypeOK
<1>4. CASE ~ (running[l] < MaxTasksLv)
  <2>1. overrun'
    BY <1>4 DEF TaskAdd
  <2> QED BY <1>3, <2>1 DEF IInv
<1>5. CASE running[l] < MaxTasksLv
  <2>1. /\ Queues'
        /\ \A m \in Levels : running[m] > 0 =>
             running'[m] > 0 /\ tasks'[m][now[m]] = tasks[m][now[m]]
    BY <1>1, <1>5, AddKeepsQueues DEF Safe
  <2>2. IdleInv'
    BY <1>1, <1>2 DEF Safe, IdleInv, TypeOK
  <2>3. TaskA \in Tasks /\ level'[TaskA] # 0
    BY <1>1, <1>2 DEF Booting, TypeOK, TaskA, Tasks
  <2>4. BootInv'
    BY <1>1, <1>2, <2>3 DEF Safe, BootInv, Booting, TypeOK
  <2>5. tasks'[0] = tasks[0]
    <3>1. tasks' = [tasks EXCEPT ![l][running[l]] = t] /\ 0 \in Levels
      BY <1>5 DEF TaskAdd, Levels
    <3> QED BY <1>1, <3>1 DEF TypeOK
  <2>6. ServedInv' /\ TaskNow' = cpu
    <3>1. now_lv \in Levels
      BY <1>1 DEF TypeOK
    <3>2. CASE running[now_lv] > 0
      BY <1>1, <2>1, <3>1, <3>2 DEF ServedInv, TaskNow, Safe
    <3>3. CASE ~ (running[now_lv] > 0)
      BY <1>1, <2>5, <3>3 DEF ServedInv, TaskNow, Safe
    <3> QED BY <3>2, <3>3
  <2>7. flags'[cpu] = 2
    BY <1>1, <1>2 DEF Safe, TypeOK
  <2>8. Safe'
    BY <2>1, <2>2, <2>4, <2>6, <2>7 DEF Safe
  <2> QED
    BY <1>3, <2>8 DEF IInv, Safe, Queues, TopServed
<1> QED
  BY <1>4, <1>5

\* A choice of the level to serve: the task at its cursor runs there.
LEMMA TopRuns ==
  ASSUME TypeOK, ListedRun, CursorInv, IdleInv, RunListed
  PROVE  /\ TopLevel(running) \in Levels
         /\ running[TopLevel(running)] > 0
         /\ \A m \in Levels : m < TopLevel(running) => running[m] = 0
<1>1. Idle \in Tasks /\ running \in [Levels -> Nat]
  BY DEF Idle, Tasks, TypeOK
<1>2. PICK i \in Active(IdleLevel) : tasks[IdleLevel][i] = Idle
  BY <1>1 DEF RunListed, IdleInv
<1>3. IdleLevel \in Levels /\ running[IdleLevel] > 0
  <2>1. IdleLevel \in Levels
    BY DEF IdleLevel, Levels
  <2>2. running[IdleLevel] \in Nat
    BY <1>1, <2>1
  <2> QED BY <1>2, <2>1, <2>2 DEF Active
<1>4. /\ TopLevel(running) \in Levels
      /\ running[TopLevel(running)] > 0
      /\ \A m \in Levels : m < TopLevel(running) => running[m] = 0
  BY <1>1, <1>3, TopLevelExists
<1> QED
  BY <1>4

\* The task at the cursor of a level with running tasks runs on that level.
LEMMA CursorRuns ==
  ASSUME TypeOK, Queues, NEW l \in Levels, running[l] > 0
  PROVE  /\ tasks[l][now[l]] \in Tasks
         /\ flags[tasks[l][now[l]]] = 2
         /\ level[tasks[l][now[l]]] = l
<1>1. now[l] \in Active(l)
  <2>1. running[l] \in Nat /\ now[l] \in Nat
    BY DEF TypeOK, SlotIndex
  <2> QED BY <2>1 DEF Queues, CursorInv, Active
<1> QED
  BY <1>1 DEF Queues, ListedRun

\* task_switch keeps the invariant and goes to the top level.
LEMMA SwitchStep ==
  ASSUME IInv, ~overrun, TaskSwitch
  PROVE  IInv' /\ (cpu' # cpu => level'[cpu'] = TopLevel(running'))
<1> DEFINE l == now_lv
<1>1. TypeOK /\ Safe
  BY IInvIsSafe
<1>2. l \in Levels /\ l \in Nat /\ running[l] \in 0 .. MaxTasksLv /\ now[l] \in Nat
  BY <1>1 DEF TypeOK, Levels, SlotIndex
<1>3. /\ now' = [now EXCEPT ![l] = NextNow]
      /\ now_lv' = IF lv_change THEN TopLevel(running) ELSE l
      /\ lv_change' = FALSE
      /\ UNCHANGED <<flags, level, running, tasks, overrun>>
  BY DEF TaskSwitch
<1>4. NextNow \in SlotIndex \cup {1} /\ (running[l] > 0 => NextNow < running[l])
  <2>1. CASE running[l] > 0
    <3>1. now[l] < running[l]
      BY <1>1, <1>2, <2>1 DEF Safe, Queues, CursorInv
    <3> QED BY <1>2, <3>1 DEF NextNow, SlotIndex
  <2>2. CASE ~ (running[l] > 0)
    <3>1. running[l] = 0 /\ now[l] = 0
      BY <1>1, <1>2, <2>2 DEF Safe, ServedInv
    <3> QED BY <3>1 DEF NextNow, SlotIndex
  <2> QED BY <2>1, <2>2
<1>5. \A m \in Levels : now'[m] = IF m = l THEN NextNow ELSE now[m]
  BY <1>1, <1>3 DEF TypeOK
<1>6. CursorInv'
  <2>1. running[l] > 0 \/ (running[l] = 0 /\ l = 0)
    BY <1>1, <1>2 DEF Safe, ServedInv
  <2>2. ASSUME NEW m \in Levels
        PROVE  now'[m] < running[m] \/ (running[m] = 0 /\ (m = 0 \/ now'[m] = 0))
    <3>1. CASE m = l
      BY <1>4, <1>5, <2>1, <3>1
    <3>2. CASE m # l
      BY <1>1, <1>5, <3>2 DEF Safe, Queues, CursorInv
    <3> QED BY <3>1, <3>2
  <2> QED BY <1>3, <2>2 DEF CursorInv
<1>7. Queues'
  BY <1>1, <1>3, <1>6 DEF Safe, Queues, ListedRun, ListedOnce, RunListed, Active
<1>8. /\ now_lv' \in Levels
      /\ running[now_lv'] > 0
      /\ \A m \in Levels : m < now_lv' => running[m] = 0
      /\ now_lv' = TopLevel(running)
  <2>1. /\ TopLevel(running) \in Levels
        /\ running[TopLevel(running)] > 0
        /\ \A m \in Levels : m < TopLevel(running) => running[m] = 0
    BY <1>1, TopRuns DEF Safe, Queues
  <2> HIDE DEF TopLevel
  <2>2. CASE lv_change
    BY <1>3, <2>1, <2>2
  <2>3. CASE ~lv_change
    <3>1. running[l] > 0 /\ \A m \in Levels : m < l => running[m] = 0
      BY <1>1, <2>3 DEF Safe, ServedInv
    <3>2. l = TopLevel(running)
      BY <1>2, <2>1, <3>1 DEF Levels
    <3> QED BY <1>2, <1>3, <2>3, <3>1, <3>2
  <2> QED BY <1>1, <2>2, <2>3 DEF TypeOK
<1> DEFINE new == tasks[now_lv'][now'[now_lv']]
<1>9. cpu' = new
  BY <1>1, <1>3 DEF TaskSwitch, TaskNow, Safe
<1>10. new \in Tasks /\ flags[new] = 2 /\ level[new] = now_lv'
  <2>1. now'[now_lv'] \in Active(now_lv')
    <3>1. now'[now_lv'] \in Nat /\ running[now_lv'] \in Nat
      BY <1>1, <1>4, <1>5, <1>8 DEF TypeOK, SlotIndex
    <3>2. now'[now_lv'] < running[now_lv']
      BY <1>3, <1>6, <1>8 DEF CursorInv
    <3> QED BY <3>1, <3>2 DEF Active
  <2> QED BY <1>1, <1>8, <2>1 DEF Safe, Queues, ListedRun
<1>11. TypeOK'
  <2>1. now' \in [Levels -> SlotIndex \cup {1}]
    BY <1>1, <1>3, <1>4 DEF TypeOK
  <2>3. cpu' \in Tasks
    BY <1>9, <1>10
  <2> QED BY <1>1, <1>3, <1>8, <2>1, <2>3 DEF TypeOK
<1>12. BootInv'
  <2>1. CASE Booting
    <3>1. flags[TaskA] = 2 /\ l = 0
      BY <1>1, <2>1 DEF Safe, BootInv
    <3>2. running[0] > 0
      <4>1. TaskA \in Tasks
        BY DEF TaskA, Tasks
      <4>2. PICK i \in Active(0) : tasks[0][i] = TaskA
        BY <1>1, <2>1, <3>1, <4>1 DEF Safe, Queues, RunListed, Booting
      <4> QED BY <1>2, <3>1, <4>2 DEF Active
    <3>3. now_lv' = 0
      <4>1. 0 \in Levels /\ now_lv' \in Nat /\ running[0] # 0
        BY <1>8, <3>2 DEF Levels
      <4>2. ~ (0 < now_lv')
        BY <1>8, <4>1
      <4> QED BY <4>1, <4>2
    <3> QED BY <1>1, <1>3, <3>3 DEF Safe, BootInv, Booting
  <2>2. CASE ~Booting
    BY <1>1, <1>3, <2>2 DEF Safe, BootInv, Booting
  <2> QED BY <2>1, <2>2
<1>13. IdleInv' /\ ServedInv' /\ TaskNow' = cpu' /\ flags'[cpu'] = 2
  BY <1>1, <1>3, <1>8, <1>9, <1>10 DEF Safe, IdleInv, ServedInv, TaskNow
<1>14. Safe'
  BY <1>3, <1>7, <1>8, <1>12, <1>13 DEF Safe
<1>15. level'[cpu'] = TopLevel(running')
  BY <1>3, <1>8, <1>9, <1>10
<1> QED
  BY <1>11, <1>14, <1>15 DEF IInv, Safe, Queues, TopServed

\* task_sleep keeps the invariant, and when the caller sleeps it goes to the
\* top level.
LEMMA SleepStep ==
  ASSUME IInv, ~overrun, NEW t \in Tasks, TaskSleep(t)
  PROVE  IInv' /\ (cpu' # cpu => level'[cpu'] = TopLevel(running'))
<1> DEFINE l == level[t]
           i == IndexOf(l, t)
<1>1. TypeOK /\ Safe
  BY IInvIsSafe
<1>2. /\ running' = [running EXCEPT ![l] = @ - 1]
      /\ now' = [now EXCEPT ![l] = NowWithout(l, i)]
      /\ tasks' = [tasks EXCEPT ![l] = TasksWithout(l, i)]
      /\ flags' = [flags EXCEPT ![t] = 1]
      /\ level' = level /\ overrun' = overrun
      /\ flags[t] = 2 /\ t # Idle /\ ~Booting
  BY DEF TaskSleep
<1>3. /\ Queues'
      /\ NowWithout(l, i) \in SlotIndex
      /\ TasksWithout(l, i) \in [SlotIndex -> Tasks \cup {NoTask}]
      /\ \A m \in Levels : running[m] > 0 /\ tasks[m][now[m]] # t =>
           running'[m] > 0 /\ tasks'[m][now'[m]] = tasks[m][now[m]]
  BY <1>1, <1>2, RemoveKeepsQueues DEF Safe
<1>4. l \in Levels /\ running[l] \in 1 .. MaxTasksLv
  <2>1. l \in Levels /\ i \in Active(l)
    BY <1>1, <1>2, IndexFinds DEF Safe, Queues
  <2>2. running[l] \in 0 .. MaxTasksLv
    BY <1>1, <2>1 DEF TypeOK
  <2> QED BY <2>1, <2>2 DEF Active
<1>5. /\ flags' \in [Tasks -> 0 .. 2] /\ level' \in [Tasks -> Levels \cup {NoLevel}]
      /\ running' \in [Levels -> 0 .. MaxTasksLv]
      /\ now' \in [Levels -> SlotIndex \cup {1}]
      /\ tasks' \in [Levels -> [SlotIndex -> Tasks \cup {NoTask}]]
      /\ overrun' \in BOOLEAN
  <2>1. running[l] - 1 \in 0 .. MaxTasksLv
    BY <1>4
  <2>2. running' \in [Levels -> 0 .. MaxTasksLv]
    BY <1>1, <1>2, <1>4, <2>1 DEF TypeOK
  <2>3. now' \in [Levels -> SlotIndex \cup {1}]
    BY <1>1, <1>2, <1>3, <1>4 DEF TypeOK
  <2>4. tasks' \in [Levels -> [SlotIndex -> Tasks \cup {NoTask}]]
    BY <1>1, <1>2, <1>3, <1>4 DEF TypeOK
  <2> QED BY <1>1, <1>2, <2>2, <2>3, <2>4 DEF TypeOK
<1>6. IdleInv'
  BY <1>1, <1>2 DEF Safe, IdleInv, TypeOK
<1>7. TaskA \in Tasks /\ l # 0
  <2>1. TaskA \in Tasks
    BY DEF TaskA, Tasks
  <2> QED BY <1>1, <1>2, <2>1 DEF Safe, BootInv, Booting
<1>8. BootInv'
  BY <1>1, <1>2 DEF Safe, BootInv, Booting
<1>9. CASE t = TaskNow
  <2> DEFINE new == tasks'[now_lv'][now'[now_lv']]
  <2>1. /\ now_lv' = TopLevel(running') /\ lv_change' = FALSE /\ cpu' = new
    BY <1>9 DEF TaskSleep
  <2>2. IdleLevel \in Levels /\ running'[IdleLevel] > 0
    <3>1. IdleLevel \in Levels /\ Idle \in Tasks
      BY DEF IdleLevel, Levels, Idle, Tasks
    <3>2. PICK k \in Active(IdleLevel)' : tasks'[IdleLevel][k] = Idle
      BY <1>3, <1>6, <3>1 DEF Queues, RunListed, IdleInv
    <3>3. running'[IdleLevel] \in Nat
      BY <1>5, <3>1
    <3> QED BY <3>1, <3>2, <3>3 DEF Active
  <2>3. /\ now_lv' \in Levels
        /\ running'[now_lv'] > 0
        /\ \A m \in Levels : m < now_lv' => running'[m] = 0
    <3>1. running' \in [Levels -> Nat]
      BY <1>5
    <3>2. /\ TopLevel(running') \in Levels
          /\ running'[TopLevel(running')] > 0
          /\ \A m \in Levels : m < TopLevel(running') => running'[m] = 0
      BY <2>2, <3>1, TopLevelExists
    <3> HIDE DEF TopLevel
    <3> QED BY <2>1, <3>2
  <2>5. new \in Tasks /\ flags'[new] = 2 /\ level'[new] = now_lv'
    <3>1. now'[now_lv'] \in Nat /\ running'[now_lv'] \in Nat
      BY <1>5, <2>3 DEF SlotIndex
    <3>2. now'[now_lv'] < running'[now_lv']
      BY <1>3, <2>3, <3>1 DEF Queues, CursorInv
    <3>3. now'[now_lv'] \in Active(now_lv)'
      BY <3>1, <3>2 DEF Active
    <3> QED BY <1>3, <2>3, <3>3 DEF Queues, ListedRun
  <2>6. TypeOK'
    BY <1>1, <1>5, <2>1, <2>3, <2>5 DEF TypeOK
  <2>7. Safe'
    BY <1>3, <1>6, <1>8, <2>1, <2>3, <2>5 DEF Safe, ServedInv, TaskNow
  <2>8. level'[cpu'] = TopLevel(running')
    BY <2>1, <2>5
  <2> QED
    BY <2>6, <2>7, <2>8 DEF IInv, Safe, Queues, TopServed
<1>10. CASE t # TaskNow
  <2>1. UNCHANGED <<now_lv, lv_change, cpu>>
    BY <1>10 DEF TaskSleep
  <2>2. TypeOK'
    BY <1>1, <1>5, <2>1 DEF TypeOK
  <2>3. ServedInv' /\ TaskNow' = cpu
    <3>1. CASE running[now_lv] > 0
      BY <1>1, <1>3, <1>10, <2>1, <3>1 DEF TypeOK, ServedInv, TaskNow, Safe
    <3>2. CASE ~ (running[now_lv] > 0)
      <4>1. tasks'[0] = tasks[0] /\ now'[0] = now[0]
        <5>1. 0 \in Levels
          BY DEF Levels
        <5> QED BY <1>1, <1>2, <1>7, <5>1 DEF TypeOK
      <4> QED BY <1>1, <2>1, <3>2, <4>1 DEF ServedInv, TaskNow, Safe
    <3> QED BY <3>1, <3>2
  <2>4. flags'[cpu] = 2
    BY <1>1, <1>2, <1>10 DEF Safe, TypeOK
  <2>5. lv_change' \/ \A m \in Levels : m < now_lv' => running'[m] = 0
    <3>1. \A m \in Levels : running[m] = 0 => m # l /\ running'[m] = 0
      BY <1>1, <1>2, <1>4 DEF TypeOK
    <3> QED BY <1>1, <2>1, <3>1 DEF Safe
  <2>6. Safe'
    BY <1>3, <1>6, <1>8, <2>1, <2>3, <2>4, <2>5 DEF Safe
  <2> QED
    BY <2>1, <2>2, <2>6 DEF IInv, Safe, Queues, TopServed
<1> QED
  BY <1>9, <1>10

\* The move of HariMain to level 1 keeps the invariant.
LEMMA BootStep ==
  ASSUME IInv, ~overrun, Boot
  PROVE  IInv' /\ cpu' = cpu
<1>1. TypeOK /\ Safe
  BY IInvIsSafe
<1>2. /\ Booting /\ cpu = TaskA /\ level[TaskA] = 0
      /\ level' = [level EXCEPT ![TaskA] = 1]
      /\ lv_change' = TRUE
      /\ UNCHANGED <<flags, now_lv, cpu, overrun>>
  BY DEF Boot, Booting
<1>3. TaskA \in Tasks /\ {0, 1} \subseteq Levels /\ Idle # TaskA /\ IdleLevel # 1 /\ IdleLevel # 0
  BY DEF TaskA, Tasks, Levels, Idle, IdleLevel
<1>4. flags[TaskA] = 2 /\ now_lv = 0 /\ running[1] = 0
  BY <1>1, <1>2 DEF Safe, BootInv
<1>5. /\ running[0] = 1 /\ IndexOf(0, TaskA) = 0
      /\ tasks[0][0] = TaskA /\ now[0] = 0 /\ now[1] = 0
  <2>1. running[0] \in Nat /\ now[0] \in Nat /\ now[1] \in Nat
    BY <1>1, <1>3 DEF TypeOK, SlotIndex
  <2>2. IndexOf(0, TaskA) \in Active(0) /\ tasks[0][IndexOf(0, TaskA)] = TaskA
    BY <1>1, <1>2, <1>3, <1>4, IndexFinds DEF Safe, Queues
  <2>3. ASSUME NEW k \in Active(0)
        PROVE  tasks[0][k] = TaskA
    <3>1. tasks[0][k] \in Tasks /\ level[tasks[0][k]] = 0
      BY <1>1, <1>3 DEF Safe, Queues, ListedRun
    <3> QED BY <1>1, <3>1 DEF Safe, BootInv
  <2>4. \A j, k \in Active(0) : j = k
    BY <1>1, <1>3, <2>3 DEF Safe, Queues, ListedOnce
  <2>5. 0 \in Active(0)
    BY <2>1, <2>2 DEF Active
  <2>6. running[0] = 1
    <3>1. CASE running[0] > 1
      <4>1. 1 \in Active(0)
        BY <2>1, <3>1 DEF Active
      <4> QED BY <2>4, <2>5, <4>1
    <3>2. CASE running[0] = 0
      BY <2>5, <3>2 DEF Active
    <3> QED BY <2>1, <3>1, <3>2
  <2>7. now[0] = 0 /\ now[1] = 0
    BY <1>1, <1>3, <1>4, <2>1, <2>6 DEF Safe, Queues, CursorInv
  <2> QED BY <2>2, <2>3, <2>4, <2>5, <2>6, <2>7
<1>6. /\ running' = [running EXCEPT ![0] = 0, ![1] = 1]
      /\ now' = [now EXCEPT ![0] = 0]
      /\ tasks' = [tasks EXCEPT ![0] = tasks[0], ![1][0] = TaskA]
  <2>1. NowWithout(0, 0) = 0
    BY <1>5 DEF NowWithout
  <2>2. TasksWithout(0, 0) = tasks[0]
    <3>1. \A k \in SlotIndex : ~ (0 <= k /\ k < 1 - 1)
      BY DEF SlotIndex
    <3>2. tasks[0] = [k \in SlotIndex |-> tasks[0][k]]
      BY <1>1, <1>3 DEF TypeOK
    <3> QED BY <1>5, <3>1, <3>2 DEF TasksWithout
  <2>3. running' = [running EXCEPT ![0] = @ - 1, ![1] = @ + 1]
    BY DEF Boot
  <2>4. now' = [now EXCEPT ![0] = NowWithout(0, 0)]
    BY <1>5 DEF Boot
  <2>5. tasks' = [tasks EXCEPT ![0] = TasksWithout(0, 0), ![1][running[1]] = TaskA]
    BY <1>5 DEF Boot
  <2>6. running' = [running EXCEPT ![0] = 0, ![1] = 1]
    BY <1>1, <1>3, <1>4, <1>5, <2>3 DEF TypeOK
  <2> QED BY <1>4, <2>1, <2>2, <2>4, <2>5, <2>6
<1>7. 0 \in SlotIndex
  BY DEF SlotIndex
<1>8. \A m \in Levels : running'[m] = IF m = 1 THEN 1 ELSE IF m = 0 THEN 0 ELSE running[m]
  BY <1>1, <1>3, <1>6 DEF TypeOK
<1>9. now' = now
  BY <1>1, <1>3, <1>5, <1>6 DEF TypeOK
<1>10. tasks' = [tasks EXCEPT ![1][0] = TaskA]
  BY <1>1, <1>3, <1>6 DEF TypeOK
<1>11. /\ \A m \in Levels : m # 1 => tasks'[m] = tasks[m]
       /\ tasks'[1][0] = TaskA
  BY <1>1, <1>3, <1>7, <1>10 DEF TypeOK
<1>12. \A m \in Levels : Active(m)' = IF m = 1 THEN {0} ELSE IF m = 0 THEN {} ELSE Active(m)
  <2>1. 0 .. 1 - 1 = {0} /\ 0 .. 0 - 1 = {}
    OBVIOUS
  <2> QED BY <1>8, <2>1 DEF Active
<1>13. \A u \in Tasks : level'[u] = IF u = TaskA THEN 1 ELSE level[u]
  BY <1>1, <1>2 DEF TypeOK
<1>14. TypeOK'
  <2>1. running' \in [Levels -> 0 .. MaxTasksLv]
    <3>1. {0, 1} \subseteq 0 .. MaxTasksLv
      OBVIOUS
    <3> QED BY <1>1, <1>6, <3>1 DEF TypeOK
  <2>2. tasks' \in [Levels -> [SlotIndex -> Tasks \cup {NoTask}]]
    BY <1>1, <1>3, <1>7, <1>10 DEF TypeOK
  <2>3. level' \in [Tasks -> Levels \cup {NoLevel}]
    BY <1>1, <1>2, <1>3 DEF TypeOK
  <2> QED BY <1>1, <1>2, <1>9, <2>1, <2>2, <2>3 DEF TypeOK
<1>15. ListedRun'
  <2>1. ASSUME NEW m \in Levels, m # 0, m # 1, NEW k \in Active(m)
        PROVE  tasks[m][k] \in Tasks /\ flags[tasks[m][k]] = 2 /\ level'[tasks[m][k]] = m
    <3>1. tasks[m][k] \in Tasks /\ flags[tasks[m][k]] = 2 /\ level[tasks[m][k]] = m
      BY <1>1 DEF Safe, Queues, ListedRun
    <3> QED BY <1>2, <1>13, <2>1, <3>1
  <2>2. flags[TaskA] = 2 /\ level'[TaskA] = 1
    BY <1>3, <1>4, <1>13
  <2> QED
    BY <1>2, <1>3, <1>11, <1>12, <2>1, <2>2 DEF ListedRun
<1>16. ListedOnce'
  BY <1>1, <1>11, <1>12 DEF Safe, Queues, ListedOnce
<1>17. RunListed'
  <2>1. ASSUME NEW u \in Tasks, flags[u] = 2, u # TaskA
        PROVE  level[u] \in Levels /\ \E k \in Active(level[u])' : tasks'[level[u]][k] = u
    <3>1. level[u] \in Levels /\ level[u] # 0
      BY <1>1, <2>1 DEF Safe, Queues, RunListed, BootInv
    <3>2. PICK k \in Active(level[u]) : tasks[level[u]][k] = u
      BY <1>1, <2>1 DEF Safe, Queues, RunListed
    <3>3. level[u] # 1
      <4>1. Active(1) = {}
        BY <1>4 DEF Active
      <4> QED BY <3>2, <4>1
    <3>4. level'[u] = level[u]
      BY <1>13, <2>1
    <3>5. k \in Active(level[u])' /\ tasks'[level[u]][k] = u
      BY <1>11, <1>12, <3>1, <3>2, <3>3, <3>4
    <3> QED BY <3>1, <3>5
  <2>2. level'[TaskA] = 1 /\ 0 \in Active(1)' /\ tasks'[1][0] = TaskA
    BY <1>3, <1>11, <1>12, <1>13
  <2>3. ASSUME NEW u \in Tasks, flags'[u] = 2
        PROVE  (level[u] \in Levels /\ \E k \in Active(level[u]) : tasks[level[u]][k] = u)'
    <3>1. CASE u = TaskA
      BY <1>3, <2>2, <3>1
    <3>2. CASE u # TaskA
      BY <1>2, <1>13, <2>1, <2>3, <3>2
    <3> QED BY <3>1, <3>2
  <2> QED
    BY <2>3 DEF RunListed
<1>18. CursorInv'
  BY <1>1, <1>5, <1>8, <1>9 DEF Safe, Queues, CursorInv
<1>19. IdleInv' /\ BootInv'
  <2>1. level'[TaskA] = 1 /\ \A u \in Tasks \ {TaskA} : level'[u] = level[u]
    BY <1>3, <1>13
  <2>2. Idle \in Tasks
    BY DEF Idle, Tasks
  <2> QED BY <1>1, <1>2, <1>3, <2>1, <2>2 DEF Safe, IdleInv, BootInv, Booting
<1>20. ServedInv' /\ TaskNow' = cpu'
  BY <1>2, <1>3, <1>4, <1>5, <1>9, <1>11 DEF ServedInv, TaskNow
<1>21. Safe'
  BY <1>1, <1>2, <1>15, <1>16, <1>17, <1>18, <1>19, <1>20 DEF Safe, Queues
<1> QED
  BY <1>2, <1>14, <1>21 DEF IInv, Safe, Queues, TopServed

\* Every step keeps the invariant, and moves the processor only to the top
\* level.
LEMMA StepKeepsIInv ==
  ASSUME IInv, [Next]_vars
  PROVE  IInv' /\ (cpu' # cpu => level'[cpu'] = TopLevel(running'))
<1>1. CASE UNCHANGED vars
  BY <1>1 DEF vars, levelvars, IInv, TypeOK, ListedRun, ListedOnce, RunListed, Active,
     CursorInv, IdleInv, BootInv, Booting, ServedInv, TaskNow, TopServed
<1> SUFFICES ASSUME Next
             PROVE  IInv' /\ (cpu' # cpu => level'[cpu'] = TopLevel(running'))
  BY <1>1
<1>2. ~overrun
  BY DEF Next
<1>3. TypeOK /\ Safe
  BY <1>2, IInvIsSafe
<1>4. CASE Boot
  BY <1>2, <1>4, BootStep
<1>5. CASE TaskSwitch
  BY <1>2, <1>5, SwitchStep
<1>6. ASSUME NEW t \in Tasks, TaskAlloc(t)
      PROVE  IInv' /\ cpu' = cpu
  <2>1. /\ flags' = [flags EXCEPT ![t] = 1] /\ flags[t] = 0
        /\ UNCHANGED <<level, levelvars, now_lv, lv_change, cpu, overrun>>
    BY <1>6 DEF TaskAlloc
  <2>2. TypeOK'
    BY <1>3, <2>1 DEF TypeOK, levelvars
  <2>3. \A u \in Tasks : (flags'[u] = 2) <=> (flags[u] = 2)
    BY <1>3, <2>1 DEF TypeOK
  <2>4. Queues'
    BY <1>3, <2>1, <2>3 DEF Safe, Queues, ListedRun, ListedOnce, RunListed, CursorInv, Active, levelvars
  <2>5. Safe'
    <3>1. {TaskA, Idle, cpu} \subseteq Tasks
      BY <1>3 DEF TypeOK, TaskA, Idle, Tasks
    <3> QED BY <1>3, <2>1, <2>3, <2>4, <3>1
            DEF Safe, IdleInv, BootInv, Booting, ServedInv, TaskNow, levelvars
  <2> QED BY <2>1, <2>2, <2>5 DEF IInv, Safe, Queues, TopServed
<1>7. ASSUME NEW t \in Tasks, NEW l \in CallLevels(t), TaskRun(t, l)
      PROVE  IInv' /\ cpu' = cpu
  <2>1. /\ ~Booting /\ flags[t] = 1 /\ l \in Levels /\ TaskAdd(t, l) /\ lv_change' = TRUE
        /\ UNCHANGED <<now, now_lv, cpu>>
    BY <1>7 DEF TaskRun
  <2>2. l # 0
    BY <1>3, <1>7, <2>1 DEF CallLevels, Safe, BootInv, Booting, Levels
  <2> QED BY <1>2, <2>1, <2>2, AddKeepsIInv
<1>8. ASSUME NEW t \in Tasks, TaskRunAgain(t)
      PROVE  IInv' /\ cpu' = cpu
  BY <1>3, <1>8 DEF TaskRunAgain, levelvars, IInv, Safe, Queues, TypeOK, ListedRun, ListedOnce,
     RunListed, Active, CursorInv, IdleInv, BootInv, Booting, ServedInv, TaskNow, TopServed
<1>9. ASSUME NEW t \in Tasks, TaskSleep(t)
      PROVE  IInv' /\ (cpu' # cpu => level'[cpu'] = TopLevel(running'))
  BY <1>2, <1>9, SleepStep
<1>10. ASSUME NEW t \in Tasks, Free(t)
       PROVE  IInv' /\ cpu' = cpu
  <2>1. /\ flags' = [flags EXCEPT ![t] = 0] /\ flags[t] = 1
        /\ UNCHANGED <<level, levelvars, now_lv, lv_change, cpu, overrun>>
    BY <1>10 DEF Free
  <2>2. TypeOK'
    BY <1>3, <2>1 DEF TypeOK, levelvars
  <2>3. \A u \in Tasks : (flags'[u] = 2) <=> (flags[u] = 2)
    BY <1>3, <2>1 DEF TypeOK
  <2>4. Queues'
    BY <1>3, <2>1, <2>3 DEF Safe, Queues, ListedRun, ListedOnce, RunListed, CursorInv, Active, levelvars
  <2>5. Safe'
    <3>1. {TaskA, Idle, cpu} \subseteq Tasks
      BY <1>3 DEF TypeOK, TaskA, Idle, Tasks
    <3> QED BY <1>3, <2>1, <2>3, <2>4, <3>1
            DEF Safe, IdleInv, BootInv, Booting, ServedInv, TaskNow, levelvars
  <2> QED BY <2>1, <2>2, <2>5 DEF IInv, Safe, Queues, TopServed
<1> QED
  BY <1>4, <1>5, <1>6, <1>7, <1>8, <1>9, <1>10 DEF Next

\* The state task_init leaves satisfies the invariant.
LEMMA InitIInv == Init => IInv
<1> SUFFICES ASSUME Init
             PROVE  IInv
  OBVIOUS
<1>1. /\ TaskA \in Tasks /\ Idle \in Tasks /\ TaskA = 0 /\ Idle = 1
      /\ {0, 1, IdleLevel} \subseteq Levels /\ IdleLevel \notin {0, 1}
      /\ 0 \in SlotIndex /\ {0, 1} \subseteq 0 .. MaxTasksLv
  BY DEF TaskA, Idle, Tasks, IdleLevel, Levels, SlotIndex
<1>2. TypeOK
  <2>1. tasks \in [Levels -> [SlotIndex -> Tasks \cup {NoTask}]]
    BY <1>1 DEF Init
  <2>2. level \in [Tasks -> Levels \cup {NoLevel}]
    BY <1>1 DEF Init
  <2>3. flags \in [Tasks -> 0 .. 2] /\ running \in [Levels -> 0 .. MaxTasksLv]
    BY <1>1 DEF Init
  <2>4. now \in [Levels -> SlotIndex \cup {1}]
    BY <1>1 DEF Init
  <2>6. now_lv \in Levels /\ lv_change \in BOOLEAN /\ cpu \in Tasks /\ overrun \in BOOLEAN
    BY <1>1 DEF Init
  <2> QED BY <2>1, <2>2, <2>3, <2>4, <2>6 DEF TypeOK
<1>3. \A l \in Levels : Active(l) = IF l \in {0, IdleLevel} THEN {0} ELSE {}
  <2>1. 0 .. 1 - 1 = {0} /\ 0 .. 0 - 1 = {}
    OBVIOUS
  <2>2. \A l \in Levels : running[l] = IF l \in {0, IdleLevel} THEN 1 ELSE 0
    BY DEF Init
  <2> QED BY <2>1, <2>2 DEF Active
<1>4. tasks[0][0] = TaskA /\ tasks[IdleLevel][0] = Idle
  BY <1>1 DEF Init
<1>5. /\ level[TaskA] = 0 /\ level[Idle] = IdleLevel
      /\ \A u \in Tasks : (flags[u] = 2) <=> (u \in {TaskA, Idle})
      /\ \A u \in Tasks \ {TaskA} : level[u] # 0
  BY <1>1 DEF Init, NoLevel
<1>6. ListedRun /\ ListedOnce /\ RunListed
  BY <1>1, <1>3, <1>4, <1>5 DEF ListedRun, ListedOnce, RunListed
<1>7. CursorInv /\ TopServed /\ TaskNow = cpu /\ flags[cpu] = 2
  BY <1>1, <1>4, <1>5 DEF Init, CursorInv, TopServed, TaskNow
<1>8. IdleInv /\ BootInv /\ ServedInv
  BY <1>1, <1>5 DEF Init, IdleInv, BootInv, Booting, ServedInv
<1> QED
  BY <1>2, <1>6, <1>7, <1>8 DEF IInv

\* The invariant of the scheduler.
THEOREM MtaskInvariant == Spec => []IInv
<1>1. IInv /\ [Next]_vars => IInv'
  BY StepKeepsIInv
<1> QED
  BY <1>1, InitIInv, PTL DEF Spec

(* In every reachable state the variables are well typed. *)
THEOREM MtaskTypes == Spec => []TypeOK
<1>1. IInv => TypeOK
  BY DEF IInv
<1> QED BY <1>1, MtaskInvariant, PTL

(* The level arrays list exactly the running tasks, each once and at its own
   level, after every sequence of task_run, task_sleep and task_switch, for
   every number of tasks and levels. *)
THEOREM MtaskRunQueues == Spec => []RunQueues
<1>1. IInv => RunQueues
  BY DEF IInv, RunQueues
<1> QED BY <1>1, MtaskInvariant, PTL

(* task_now always names the task that has the processor, and that task
   runs. *)
THEOREM MtaskTaskNow == Spec => []TaskNowIsCpu
<1>1. IInv => TaskNowIsCpu
  BY DEF IInv, TaskNowIsCpu
<1> QED BY <1>1, MtaskInvariant, PTL

(* A level above the served one never has running tasks unless lv_change is
   set. *)
THEOREM MtaskTopServed == Spec => []TopServed
<1>1. IInv => TopServed
  BY DEF IInv, TopServed
<1> QED BY <1>1, MtaskInvariant, PTL

(* Every switch of the processor goes to a task of the highest level that
   has running tasks. *)
THEOREM MtaskSwitchToTop == Spec => SwitchToTop
<1>1. IInv /\ [Next]_vars => [cpu' # cpu => level'[cpu'] = TopLevel(running')]_vars
  BY StepKeepsIInv
<1> QED BY <1>1, MtaskInvariant, PTL DEF Spec, SwitchToTop

=============================================================================
